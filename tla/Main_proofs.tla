----------------------------- MODULE Main_proofs -----------------------------
(***************************************************************************)
(* Proofs about main.cpp, for command lines of any length and files of any *)
(* content.                                                                *)
(***************************************************************************)
EXTENDS Main, Integers, TLAPS

Ind == INSTANCE Induction

(***************************************************************************)
(* Numbers, and the arguments                                              *)
(***************************************************************************)

\* A set of numbers that is not empty has a first.
LEMMA FirstIsLeast ==
  ASSUME NEW S \in SUBSET Nat, S # {}
  PROVE  First(S) \in S /\ \A j \in S : First(S) <= j
<1>1. \E i \in S : \A j \in S : i <= j
  BY Ind!LeastExists
<1> QED
  BY <1>1 DEF First

\* It is the only one that is before all others.
LEMMA FirstIs ==
  ASSUME NEW S \in SUBSET Nat, NEW n \in S, \A j \in S : n <= j
  PROVE  First(S) = n
<1>1. First(S) \in S /\ First(S) <= n
  BY FirstIsLeast
<1>2. n <= First(S) /\ n \in Nat /\ First(S) \in Nat
  BY <1>1
<1> QED
  BY <1>1, <1>2

\* An argument is a value if the one before is a requirement and no value.
LEMMA ValueAfter ==
  ASSUME argv \in Seq(STRING)
  PROVE  \A i \in 1..Len(argv) :
           IsValue[i] <=> i > 2 /\ argv[i - 1] \in Requirements /\ ~IsValue[i - 1]
<1> DEFINE n == Len(argv)
           Step(b, i) == i > 2 /\ argv[i - 1] \in Requirements /\ ~b
           step == [q \in BOOLEAN \X (1..n) |-> Step(q[1], q[2])]
<1>1. n \in Nat
  OBVIOUS
<1>2. step \in [BOOLEAN \X (1..n) -> BOOLEAN]
      /\ \A b \in BOOLEAN, i \in 1..n : step[<<b, i>>] = Step(b, i)
  OBVIOUS
<1> HIDE DEF step
<1>3. PICK f : Ind!IsRecursion(f, BOOLEAN, FALSE, n, step)
  BY <1>1, <1>2, Ind!FunctionByRecursion
<1>4. f \in [0..n -> BOOLEAN] /\ \A i \in 1..n : f[i] = Step(f[i - 1], i)
  <2>1. f \in [0..n -> BOOLEAN] /\ \A i \in 1..n : f[i] = step[<<f[i - 1], i>>]
    BY <1>3 DEF Ind!IsRecursion
  <2>2. \A i \in 1..n : f[i - 1] \in BOOLEAN
    BY <1>1, <2>1
  <2> HIDE DEF Step
  <2> QED
    BY <1>2, <2>1, <2>2
<1> DEFINE Equation(g) == g = [i \in 1..n |-> i > 2 /\ argv[i - 1] \in Requirements /\ ~g[i - 1]]
           r == [i \in 1..n |-> f[i]]
<1>5. Equation(r)
  <2>1. \A i \in 1..n : r[i] = (i > 2 /\ argv[i - 1] \in Requirements /\ ~r[i - 1])
    <3> SUFFICES ASSUME NEW i \in 1..n
                 PROVE  r[i] = (i > 2 /\ argv[i - 1] \in Requirements /\ ~r[i - 1])
      OBVIOUS
    <3>1. r[i] = Step(f[i - 1], i)
      BY <1>4
    <3>2. i > 2 => r[i - 1] = f[i - 1]
      BY <1>1
    <3> QED
      BY <3>1, <3>2
  <2> QED
    BY <2>1
<1>6. Equation(IsValue)
  BY <1>5 DEF IsValue
<1> QED
  BY <1>1, <1>6

\* What Init puts in the place of a file.
NoFile == [size |-> 0, at |-> <<>>]

(***************************************************************************)
(* Files and what is opened as an object                                   *)
(***************************************************************************)

\* A number that is less than the modulus is left by it.
LEMMA SmallRest == \A n \in Nat, u \in Nat \ {0} : n < u => n % u = n
OBVIOUS

\* The rest is not more than the number.
LEMMA RestIsLess == \A n \in Nat, u \in Nat \ {0} : n % u \in Nat /\ n % u <= n
<1> SUFFICES ASSUME NEW n \in Nat, NEW u \in Nat \ {0} PROVE n % u \in Nat /\ n % u <= n
  OBVIOUS
<1>1. CASE n < u
  BY <1>1, SmallRest
<1>2. CASE n >= u
  <2>1. n % u \in 0..(u - 1)
    OBVIOUS
  <2> QED
    BY <1>2, <2>1
<1> QED
  BY <1>1, <1>2

\* A header is of the set its magic says.
LEMMA HeaderKinds ==
  ASSUME NEW h, IsHeader(h)
  PROVE  /\ h.magic \in {"macho", "fat", "cache", "data"}
         /\ h.magic = "macho" => h \in MachOHeaders
         /\ h.magic = "fat" => h \in FatHeaders
         /\ h.magic = "cache" => h \in CacheHeaders
<1>1. CASE h \in MachOHeaders
  BY <1>1 DEF MachOHeaders
<1>2. CASE h \in FatHeaders
  BY <1>2 DEF FatHeaders
<1>3. CASE h \in CacheHeaders
  BY <1>3 DEF CacheHeaders
<1>4. CASE h = Data
  BY <1>4 DEF Data
<1> QED
  BY <1>1, <1>2, <1>3, <1>4 DEF IsHeader

\* A file that was opened, or none.
IsOpen(f) == f = NoFile \/ f \in Files

\* What such a file holds at any offset is a header.
LEMMA FileFacts ==
  ASSUME NEW f, IsOpen(f)
  PROVE  f.size \in Nat /\ \A offset : IsHeader(HeaderAt(f, offset))
<1>1. CASE f = NoFile
  BY <1>1 DEF NoFile, HeaderAt, IsHeader
<1>2. CASE f \in Files
  BY <1>2, FilesAssumption DEF IsFile, HeaderAt, IsHeader
<1> QED
  BY <1>1, <1>2 DEF IsOpen

\* The ranges of a file.
Spans == [begin : Nat, size : Nat]

\* A Mach-O that is not refused is sound.
LEMMA ValidMachO ==
  ASSUME IsOpen(file), NEW map \in Spans, InFile(map), ValidateMachO(file, map) = "None"
  PROVE  /\ SoundMachO(HeaderAt(file, map.begin), map)
         /\ map.size > SizeOfHeader
<1> DEFINE h == HeaderAt(file, map.begin)
<1>1. IsHeader(h) /\ file.size \in Nat /\ map.size \in Nat
  BY FileFacts DEF Spans
<1>2. map.size > SizeOfHeader /\ h.magic = "macho" /\ LoadCommandsFit(h, map)
  BY DEF ValidateMachO, LargeEnoughForType
<1>3. h.count \in Nat /\ h.lcSize \in Nat
  BY <1>1, <1>2, HeaderKinds DEF MachOHeaders
<1> HIDE DEF h
<1>4. SizeOfLoadCommand * h.count \in Nat /\ UInt32 \in Nat \ {0}
  BY <1>3, UInt32Assumption DEF SizeOfLoadCommand
<1>5. SizeOfLoadCommand * h.count <= h.lcSize \/ SizeOfLoadCommand * h.count >= UInt32
  <2>1. CASE SizeOfLoadCommand * h.count < UInt32
    BY <1>2, <1>3, <1>4, <2>1, SmallRest DEF LoadCommandsFit, MinLoadCommandsSize
  <2> QED
    BY <1>4, <2>1
<1>6. HeaderSize(h) + h.lcSize <= map.size
  BY <1>2 DEF LoadCommandsFit
<1> QED
  BY <1>2, <1>5, <1>6 DEF SoundMachO, h

\* A Mach-O whose commands are as many as its size says is not refused.
LEMMA MachOIsValid ==
  ASSUME IsOpen(file), NEW map \in Spans,
         HeaderAt(file, map.begin).magic = "macho", map.size > SizeOfHeader,
         SoundMachO(HeaderAt(file, map.begin), map),
         SizeOfLoadCommand * HeaderAt(file, map.begin).count <= HeaderAt(file, map.begin).lcSize
  PROVE  ValidateMachO(file, map) = "None"
<1> DEFINE h == HeaderAt(file, map.begin)
<1>1. IsHeader(h)
  BY FileFacts
<1>2. h.count \in Nat /\ h.lcSize \in Nat
  BY <1>1, HeaderKinds DEF MachOHeaders
<1>3. HeaderSize(h) + h.lcSize <= map.size /\ SizeOfLoadCommand * h.count <= h.lcSize
      /\ h.magic = "macho"
  BY DEF SoundMachO
<1> HIDE DEF h
<1>4. SizeOfLoadCommand * h.count \in Nat /\ UInt32 \in Nat \ {0}
  BY <1>2, UInt32Assumption DEF SizeOfLoadCommand
<1>5. (SizeOfLoadCommand * h.count) % UInt32 <= h.lcSize
  <2>1. PICK n \in Nat : n = SizeOfLoadCommand * h.count
    BY <1>4
  <2>2. n % UInt32 \in Nat /\ n % UInt32 <= n
    BY <1>4, RestIsLess
  <2> QED
    BY <1>2, <1>3, <2>1, <2>2
<1>6. LoadCommandsFit(h, map)
  BY <1>3, <1>5 DEF LoadCommandsFit, MinLoadCommandsSize
<1> QED
  BY <1>3, <1>6 DEF ValidateMachO, LargeEnoughForType, h

\* Ranges that do not overlap have nothing in common.
LEMMA ApartDoNotMeet ==
  ASSUME NEW r \in Spans, NEW q \in Spans, ~Overlaps(r, q)
  PROVE  ~Meet(r, q)
<1>1. r.begin \in Nat /\ r.size \in Nat /\ q.begin \in Nat /\ q.size \in Nat
  BY DEF Spans
<1>2. (q.begin >= r.begin => q.begin >= r.begin + r.size)
      /\ (r.begin >= q.begin => r.begin >= q.begin + q.size)
  BY <1>1 DEF Overlaps, HasLocation
<1> SUFFICES ASSUME NEW l \in Locations(r) \cap Locations(q) PROVE FALSE
  BY DEF Meet
<1>3. l \in Int /\ r.begin <= l /\ l <= r.begin + r.size - 1
      /\ q.begin <= l /\ l <= q.begin + q.size - 1
  BY <1>1 DEF Locations
<1> QED
  BY <1>1, <1>2, <1>3

\* Ranges that overlap have something in common, if neither is empty.
LEMMA OverlappingMeet ==
  ASSUME NEW r \in Spans, NEW q \in Spans, r.size > 0, q.size > 0, Overlaps(r, q)
  PROVE  Meet(r, q)
<1>1. r.begin \in Nat /\ r.size \in Nat /\ q.begin \in Nat /\ q.size \in Nat
  BY DEF Spans
<1>2. CASE HasLocation(r, q.begin)
  <2>1. q.begin \in Locations(r) /\ q.begin \in Locations(q)
    BY <1>1, <1>2 DEF HasLocation, Locations
  <2> QED
    BY <2>1 DEF Meet
<1>3. CASE HasLocation(q, r.begin)
  <2>1. r.begin \in Locations(r) /\ r.begin \in Locations(q)
    BY <1>1, <1>3 DEF HasLocation, Locations
  <2> QED
    BY <2>1 DEF Meet
<1> QED
  BY <1>2, <1>3 DEF Overlaps

\* What a header of fat files has.
LEMMA FatHeader ==
  ASSUME NEW h, IsHeader(h), h.magic = "fat"
  PROVE  /\ h.archs \in Seq([offset : Nat, size : Nat]) /\ Len(h.archs) \in Nat
         /\ DOMAIN h.archs = 1..Len(h.archs)
         /\ \A i \in DOMAIN h.archs :
              /\ h.archs[i].offset \in Nat /\ h.archs[i].size \in Nat
              /\ ArchRange(h.archs[i]) \in Spans
              /\ ArchRange(h.archs[i]).begin = h.archs[i].offset
              /\ ArchRange(h.archs[i]).size = h.archs[i].size
         /\ SizeOfFatHeader + ArchSize(h) * Len(h.archs) \in Nat
<1>1. h.archs \in Seq([offset : Nat, size : Nat])
  BY HeaderKinds DEF FatHeaders
<1>2. Len(h.archs) \in Nat /\ DOMAIN h.archs = 1..Len(h.archs)
      /\ \A i \in DOMAIN h.archs : h.archs[i] \in [offset : Nat, size : Nat]
  <2> DEFINE Archs == [offset : Nat, size : Nat]
  <2>1. h.archs \in Seq(Archs)
    BY <1>1
  <2> HIDE DEF Archs
  <2>2. Len(h.archs) \in Nat /\ DOMAIN h.archs = 1..Len(h.archs)
        /\ \A i \in DOMAIN h.archs : h.archs[i] \in Archs
    BY <2>1
  <2> QED
    BY <2>2 DEF Archs
<1>3. ASSUME NEW i \in DOMAIN h.archs
      PROVE  /\ h.archs[i].offset \in Nat /\ h.archs[i].size \in Nat
             /\ ArchRange(h.archs[i]) \in Spans
             /\ ArchRange(h.archs[i]).begin = h.archs[i].offset
             /\ ArchRange(h.archs[i]).size = h.archs[i].size
  BY <1>2 DEF ArchRange, Range, Spans
<1>4. SizeOfFatHeader + ArchSize(h) * Len(h.archs) \in Nat
  <2>1. Len(h.archs) \in Nat /\ ArchSize(h) \in {5, 8}
    BY <1>2 DEF ArchSize
  <2>2. PICK n \in Nat : n = Len(h.archs)
    BY <1>2
  <2>3. 5 * n \in Nat /\ 8 * n \in Nat
    BY <2>2
  <2> QED
    BY <2>1, <2>2, <2>3 DEF SizeOfFatHeader
<1> QED
  BY <1>1, <1>2, <1>3, <1>4

\* A fat file that is not refused is sound.
LEMMA ValidFat ==
  ASSUME IsOpen(file), ValidateFat(file) = "None"
  PROVE  HeaderAt(file, 0).magic = "fat" /\ SoundFat(HeaderAt(file, 0))
<1> DEFINE h == HeaderAt(file, 0)
           wrong == {i \in DOMAIN h.archs : ArchError(file, h.archs, i) # "None"}
<1>1. IsHeader(h) /\ file.size \in Nat
  BY FileFacts
<1>2. h.magic = "fat" /\ ValidateArchList(file, h) = "None"
  BY DEF ValidateFat
<1>3. /\ Len(h.archs) \in Nat /\ DOMAIN h.archs = 1..Len(h.archs)
      /\ \A i \in DOMAIN h.archs : ArchRange(h.archs[i]) \in Spans
      /\ SizeOfFatHeader + ArchSize(h) * Len(h.archs) \in Nat
  BY <1>1, <1>2, FatHeader
<1>4. /\ SizeOfFatHeader + ArchSize(h) * Len(h.archs) <= file.size
      /\ wrong # {} => ArchError(file, h.archs, First(wrong)) = "None"
  <2> HIDE DEF h
  <2>1. h.archs # <<>> /\ ~(SizeOfFatHeader + ArchSize(h) * Len(h.archs) > file.size)
        /\ (wrong # {} => ArchError(file, h.archs, First(wrong)) = "None")
    BY <1>2 DEF ValidateArchList
  <2> QED
    BY <1>1, <1>3, <2>1
<1>5. wrong = {}
  <2> SUFFICES ASSUME wrong # {} PROVE FALSE
    OBVIOUS
  <2>1. wrong \in SUBSET Nat
    BY <1>3
  <2>2. First(wrong) \in wrong
    BY <2>1, FirstIsLeast
  <2> QED
    BY <1>4, <2>2
<1> HIDE DEF h
<1>6. ASSUME NEW i \in DOMAIN h.archs, NEW j \in DOMAIN h.archs, i < j
      PROVE  ~Meet(ArchRange(h.archs[i]), ArchRange(h.archs[j]))
  <2>1. i \in 1..(j - 1)
    BY <1>3, <1>6
  <2>2. ~OverlapsEarlierArch(h.archs, j)
    BY <1>5 DEF ArchError
  <2>3. ~Overlaps(ArchRange(h.archs[i]), ArchRange(h.archs[j]))
    BY <2>1, <2>2 DEF OverlapsEarlierArch, Overlaps
  <2> QED
    BY <1>3, <2>3, ApartDoNotMeet
<1>7. InFile(Range(0, SizeOfFatHeader + ArchSize(h) * Len(h.archs)))
  <2>1. PICK n \in Nat : n = SizeOfFatHeader + ArchSize(h) * Len(h.archs)
    BY <1>3
  <2>2. n <= file.size
    BY <1>4, <2>1
  <2>3. 0 + n <= file.size
    BY <2>2
  <2>4. InFile(Range(0, n))
    BY <2>3 DEF InFile, Range
  <2> QED
    BY <2>1, <2>4
<1> QED
  BY <1>2, <1>6, <1>7 DEF SoundFat, h

\* A fat file with archs is not refused, if they have sizes and do not meet.
LEMMA FatIsValid ==
  ASSUME IsOpen(file), HeaderAt(file, 0).magic = "fat", HeaderAt(file, 0).archs # <<>>,
         SoundFat(HeaderAt(file, 0)),
         \A i \in DOMAIN HeaderAt(file, 0).archs :
           LET map == ArchRange(HeaderAt(file, 0).archs[i]) IN map.size > 0 /\ InFile(map)
  PROVE  ValidateFat(file) = "None"
<1> DEFINE h == HeaderAt(file, 0)
<1>1. IsHeader(h) /\ file.size \in Nat /\ h.magic = "fat" /\ h.archs # <<>>
  BY FileFacts
<1>2. /\ Len(h.archs) \in Nat /\ DOMAIN h.archs = 1..Len(h.archs)
      /\ SizeOfFatHeader + ArchSize(h) * Len(h.archs) \in Nat
      /\ \A i \in DOMAIN h.archs :
           /\ ArchRange(h.archs[i]) \in Spans
           /\ h.archs[i].offset \in Nat /\ h.archs[i].size \in Nat
           /\ ArchRange(h.archs[i]).begin = h.archs[i].offset
           /\ ArchRange(h.archs[i]).size = h.archs[i].size
  BY <1>1, FatHeader
<1>3. SizeOfFatHeader + ArchSize(h) * Len(h.archs) <= file.size
  BY <1>1, <1>2 DEF SoundFat, InFile, Range
<1>4. \A i \in DOMAIN h.archs :
        LET map == ArchRange(h.archs[i]) IN map.size > 0 /\ InFile(map)
  OBVIOUS
<1>5. \A i, j \in DOMAIN h.archs :
        i < j => ~Meet(ArchRange(h.archs[i]), ArchRange(h.archs[j]))
  BY DEF SoundFat
<1> HIDE DEF h
<1>6. ASSUME NEW i \in DOMAIN h.archs PROVE ArchError(file, h.archs, i) = "None"
  <2>1. h.archs[i].size <= file.size
    BY <1>1, <1>2, <1>4 DEF InFile
  <2>2. ~OverlapsEarlierArch(h.archs, i)
    <3> SUFFICES ASSUME NEW j \in 1..(i - 1),
                        Overlaps(ArchRange(h.archs[i]), ArchRange(h.archs[j]))
                 PROVE  FALSE
      BY DEF OverlapsEarlierArch
    <3>1. j \in DOMAIN h.archs /\ j < i
      BY <1>2
    <3>2. Overlaps(ArchRange(h.archs[j]), ArchRange(h.archs[i]))
      BY DEF Overlaps
    <3>3. Meet(ArchRange(h.archs[j]), ArchRange(h.archs[i]))
      BY <1>2, <1>4, <3>1, <3>2, OverlappingMeet
    <3> QED
      BY <1>5, <3>1, <3>3
  <2> QED
    BY <1>1, <1>2, <2>1, <2>2 DEF ArchError
<1>7. ValidateArchList(file, h) = "None"
  BY <1>1, <1>2, <1>3, <1>6 DEF ValidateArchList
<1>8. file.size > SizeOfFatHeader
  <2>1. Len(h.archs) >= 1 /\ ArchSize(h) \in {5, 8}
    BY <1>1, <1>2 DEF ArchSize
  <2> QED
    BY <1>1, <1>2, <1>3, <2>1 DEF SizeOfFatHeader
<1> QED
  BY <1>1, <1>7, <1>8 DEF ValidateFat, LargeEnoughForType, WholeFile, Range, h

\* The product of a sum is the sum of the products.
LEMMA TimesSplits ==
  ASSUME NEW n \in Nat, NEW o \in Nat
  PROVE  (32 + n) * o \in Nat /\ (32 + n) * o = 32 * o + n * o
OBVIOUS

\* A product grows with its factors.
LEMMA TimesGrows == ASSUME NEW n \in Nat, NEW o \in Nat, o >= 8 PROVE n * o >= 8 * n
OBVIOUS

\* What a header of caches has.
LEMMA CacheHeader ==
  ASSUME NEW h, IsHeader(h), h.magic = "cache"
  PROVE  /\ h.mappingOffset \in Nat /\ h.imagesOffset \in Nat /\ h.cpuKnown \in BOOLEAN
         /\ Len(h.mappings) \in Nat /\ DOMAIN h.mappings = 1..Len(h.mappings)
         /\ Len(h.images) \in Nat /\ DOMAIN h.images = 1..Len(h.images)
         /\ \A i \in DOMAIN h.mappings :
              /\ h.mappings[i].address \in Nat /\ h.mappings[i].size \in Nat
              /\ h.mappings[i].offset \in Nat
         /\ \A i \in DOMAIN h.images : h.images[i].address \in Nat
<1> DEFINE Mappings == [address : Nat, size : Nat, offset : Nat]
           Images == [path : STRING, address : Nat]
<1>1. /\ h.mappingOffset \in Nat /\ h.imagesOffset \in Nat /\ h.cpuKnown \in BOOLEAN
      /\ h.mappings \in Seq(Mappings) /\ h.images \in Seq(Images)
  BY HeaderKinds DEF CacheHeaders
<1>2. /\ \A m \in Mappings : m.address \in Nat /\ m.size \in Nat /\ m.offset \in Nat
      /\ \A image \in Images : image.address \in Nat
  OBVIOUS
<1> HIDE DEF Mappings, Images
<1>3. /\ Len(h.mappings) \in Nat /\ DOMAIN h.mappings = 1..Len(h.mappings)
      /\ \A i \in DOMAIN h.mappings : h.mappings[i] \in Mappings
  BY <1>1
<1>4. /\ Len(h.images) \in Nat /\ DOMAIN h.images = 1..Len(h.images)
      /\ \A i \in DOMAIN h.images : h.images[i] \in Images
  BY <1>1
<1> QED
  BY <1>1, <1>2, <1>3, <1>4

\* The numbers of the two lists of a cache.
LEMMA CacheLists ==
  ASSUME NEW h, IsHeader(h), h.magic = "cache"
  PROVE  \E m, n, e \in Nat :
           /\ MappingListRange(h) = [begin |-> h.mappingOffset, size |-> 8 * m]
           /\ ImageListEnd(h) = e
           /\ e >= 32 * h.imagesOffset
           /\ h.imagesOffset >= 8 => e >= h.imagesOffset + 8 * n
           /\ n = Len(h.images)
<1>1. PICK m \in Nat, n \in Nat, o \in Nat :
        m = Len(h.mappings) /\ n = Len(h.images) /\ o = h.imagesOffset
  BY CacheHeader
<1> DEFINE e == (4 * SizeOfInfo + n) * o
<1>2. e \in Nat /\ e = 32 * o + n * o
  <2>1. 4 * SizeOfInfo + n = 32 + n
    BY DEF SizeOfInfo
  <2> QED
    BY <2>1, TimesSplits
<1>3. n * o \in Nat /\ (o >= 8 => n * o >= 8 * n)
  <2>1. n * o \in Nat
    BY <1>1
  <2> QED
    BY <1>1, <2>1, TimesGrows
<1>4. MappingListRange(h) = [begin |-> h.mappingOffset, size |-> 8 * m]
  BY <1>1 DEF MappingListRange, Range, SizeOfInfo
<1>5. ImageListEnd(h) = e
  BY <1>1 DEF ImageListEnd
<1>6. PICK q \in Nat, z \in Nat : q = n * o /\ z = e
  BY <1>2, <1>3
<1>7. z >= 32 * o /\ (o >= 8 => z >= o + 8 * n)
  <2>1. z = 32 * o + q /\ (o >= 8 => q >= 8 * n)
    BY <1>2, <1>3, <1>6
  <2> HIDE DEF e
  <2> QED
    BY <2>1
<1> HIDE DEF e
<1>8. /\ MappingListRange(h) = [begin |-> h.mappingOffset, size |-> 8 * m]
      /\ ImageListEnd(h) = z
      /\ z >= 32 * h.imagesOffset
      /\ h.imagesOffset >= 8 => z >= h.imagesOffset + 8 * n
      /\ n = Len(h.images)
  BY <1>1, <1>4, <1>5, <1>6, <1>7
<1> WITNESS m \in Nat, n \in Nat, z \in Nat
<1> QED
  BY <1>8

\* A cache that is not refused is sound.
LEMMA ValidCache ==
  ASSUME IsOpen(file), ValidateCache(file) = "None"
  PROVE  HeaderAt(file, 0).magic = "cache" /\ SoundCache(HeaderAt(file, 0))
<1> DEFINE h == HeaderAt(file, 0)
<1>1. IsHeader(h) /\ file.size \in Nat
  BY FileFacts
<1>2. h.magic = "cache" /\ ValidateCacheLists(file, h) = "None"
  BY DEF ValidateCache
<1>3. h.mappingOffset \in Nat /\ h.imagesOffset \in Nat
  BY <1>1, <1>2, CacheHeader
<1> HIDE DEF h
<1>4. PICK m \in Nat, n \in Nat, e \in Nat :
        /\ MappingListRange(h) = [begin |-> h.mappingOffset, size |-> 8 * m]
        /\ ImageListEnd(h) = e
        /\ e >= 32 * h.imagesOffset
        /\ h.imagesOffset >= 8 => e >= h.imagesOffset + 8 * n
        /\ n = Len(h.images)
  BY <1>1, <1>2, CacheLists
<1> DEFINE mo == h.mappingOffset
           io == h.imagesOffset
           allowed == [begin |-> mo, size |-> file.size - mo]
           mappings == MappingListRange(h)
           images == ImageListRange(h)
<1>5. images = [begin |-> io, size |-> e - io]
  BY <1>4 DEF ImageListRange, Range
<1>6. /\ mo <= file.size
      /\ ContainsRange(allowed, mappings)
      /\ e >= io
      /\ ContainsRange(allowed, images)
      /\ ~Overlaps(mappings, images)
  <2> DEFINE inner == IF ImageListEnd(h) < io THEN "Crash"
                     ELSE IF ~ContainsRange(allowed, images) THEN "InvalidImageInfoListRange"
                     ELSE IF Overlaps(mappings, images)
                          THEN "OverlappingImageMappingInfoListRange" ELSE "None"
  <2>0. "None" = CASE mo > file.size -> "Crash"
                   [] mo <= file.size /\ ~ContainsRange(allowed, mappings)
                        -> "InvalidMappingInfoListRange"
                   [] OTHER -> inner
    BY <1>2 DEF ValidateCacheLists, Range
  <2>1. /\ ~(mo > file.size)
        /\ ContainsRange(allowed, mappings)
        /\ ~(e < io)
        /\ ContainsRange(allowed, images)
        /\ ~Overlaps(mappings, images)
    <3>1. ~(mo > file.size) /\ mo <= file.size
      BY <1>1, <1>3, <2>0
    <3>2. ContainsRange(allowed, mappings) /\ inner = "None"
      <4> HIDE DEF inner, mo, mappings, allowed
      <4> QED
        BY <2>0, <3>1
    <3> HIDE DEF mo, io, allowed, mappings, images
    <3> QED
      BY <1>4, <3>1, <3>2
  <2> QED
    BY <1>1, <1>3, <1>4, <2>1
<1>7. mo < file.size /\ mo + 8 * m <= file.size
  <2>1. ContainsRange(allowed, [begin |-> mo, size |-> 8 * m])
    BY <1>4, <1>6
  <2> HIDE DEF mo
  <2> QED
    BY <1>1, <1>3, <1>4, <2>1 DEF ContainsRange, HasLocation, mo
<1>8. io >= mo /\ e <= file.size
  <2>1. ContainsRange(allowed, [begin |-> io, size |-> e - io])
    BY <1>5, <1>6
  <2> QED
    BY <1>1, <1>3, <1>4, <2>1 DEF ContainsRange, HasLocation
<1>9. io >= mo + 8 * m
  <2>1. ~HasLocation(mappings, io)
    BY <1>5, <1>6 DEF Overlaps
  <2> QED
    BY <1>3, <1>4, <1>8, <2>1 DEF HasLocation
<1>10. InFile(mappings)
  BY <1>4, <1>7 DEF InFile
<1> DEFINE table == Range(io, SizeOfInfo * Len(h.images))
<1>11. table = [begin |-> io, size |-> 8 * n]
  BY <1>4 DEF Range, SizeOfInfo
<1>12. InFile(table) \/ io < SizeOfInfo
  <2>1. io >= 8 => io + 8 * n <= file.size
    BY <1>1, <1>3, <1>4, <1>8
  <2> QED
    BY <1>3, <1>11, <2>1 DEF InFile, SizeOfInfo
<1>13. ~Meet(mappings, table)
  <2> SUFFICES ASSUME NEW l \in Locations(mappings) \cap Locations(table) PROVE FALSE
    BY DEF Meet
  <2>1. l \in mo..(mo + 8 * m - 1) /\ l \in io..(io + 8 * n - 1)
    BY <1>4, <1>11 DEF Locations
  <2> QED
    BY <1>3, <1>4, <1>9, <2>1, SMTT(30)
<1>14. IsV8(h) => file.size >= SizeOfHeaderV8
  BY <1>1, <1>3, <1>7 DEF IsV8, SizeOfHeaderV8
<1> QED
  BY <1>2, <1>10, <1>12, <1>13, <1>14 DEF SoundCache, h

\* A cache is not refused if its lists end where they are thought to end.
LEMMA CacheIsValid ==
  ASSUME IsOpen(file), HeaderAt(file, 0).magic = "cache", ProperFile
  PROVE  ValidateCache(file) = "None"
<1> DEFINE h == HeaderAt(file, 0)
<1>1. IsHeader(h) /\ file.size \in Nat /\ h.magic = "cache"
  BY FileFacts
<1>2. /\ h.cpuKnown /\ SoundCache(h) /\ file.size > SizeOfHeaderV0
      /\ h.mappingOffset < h.imagesOffset
      /\ ~Overlaps(MappingListRange(h), Range(h.imagesOffset, 0))
      /\ ImageListEnd(h) <= file.size
  BY DEF ProperFile
<1>3. h.mappingOffset \in Nat /\ h.imagesOffset \in Nat
  BY <1>1, CacheHeader
<1>4. PICK m \in Nat, n \in Nat, e \in Nat :
        /\ MappingListRange(h) = [begin |-> h.mappingOffset, size |-> 8 * m]
        /\ ImageListEnd(h) = e
        /\ e >= 32 * h.imagesOffset
  BY <1>1, CacheLists
<1> HIDE DEF h
<1> DEFINE mo == h.mappingOffset
           io == h.imagesOffset
           allowed == [begin |-> mo, size |-> file.size - mo]
           mappings == MappingListRange(h)
           images == ImageListRange(h)
<1>5. images = [begin |-> io, size |-> e - io]
  BY <1>4 DEF ImageListRange, Range
<1>6. mo < io /\ io <= e /\ e <= file.size /\ io < file.size
  BY <1>1, <1>2, <1>3, <1>4
<1>7. ContainsRange(allowed, mappings)
  <2>1. mo + 8 * m <= file.size
    BY <1>2, <1>4 DEF SoundCache, InFile
  <2> QED
    BY <1>1, <1>3, <1>4, <1>6, <2>1 DEF ContainsRange, HasLocation
<1>8. ContainsRange(allowed, images)
  BY <1>1, <1>3, <1>4, <1>5, <1>6 DEF ContainsRange, HasLocation
<1>9. ~Overlaps(mappings, images)
  <2>1. ~HasLocation(mappings, io)
    BY <1>2 DEF Overlaps, Range
  <2>2. ~HasLocation(images, mo)
    BY <1>3, <1>5, <1>6 DEF HasLocation
  <2> QED
    BY <1>4, <1>5, <2>1, <2>2 DEF Overlaps
<1>10. ValidateCacheLists(file, h) = "None"
  <2>1. ~(mo > file.size) /\ mo <= file.size /\ ~(ImageListEnd(h) < io)
    BY <1>1, <1>3, <1>4, <1>6
  <2> QED
    BY <1>7, <1>8, <1>9, <2>1 DEF ValidateCacheLists, Range
<1> QED
  BY <1>1, <1>2, <1>10 DEF ValidateCache, LargeEnoughForType, WholeFile, Range, h

\* An arch that is there is a sound Mach-O, and the object is its part of the file.
LEMMA ArchIsThere ==
  ASSUME IsOpen(file), HeaderAt(file, 0).magic = "fat",
         NEW i \in DOMAIN HeaderAt(file, 0).archs,
         GetArchObject(file, HeaderAt(file, 0).archs[i]).error = "None"
  PROVE  LET arch == HeaderAt(file, 0).archs[i]
         IN  /\ GetArchObject(file, arch) = Object("MachO", ArchRange(arch))
             /\ SoundMachO(HeaderAt(file, arch.offset), ArchRange(arch))
<1> DEFINE arch == HeaderAt(file, 0).archs[i]
           map == ArchRange(arch)
<1>1. map \in Spans /\ map.begin = arch.offset /\ file.size \in Nat
  BY FileFacts, FatHeader
<1>2. GetArchObject(file, arch).error = "None"
  OBVIOUS
<1> HIDE DEF arch
<1>3. /\ ContainsRange(WholeFile(file), map) /\ ValidateMachO(file, map) = "None"
      /\ GetArchObject(file, arch) = Object("MachO", map)
  BY <1>2 DEF GetArchObject, NoObject, DidMatchFormat
<1>4. InFile(map)
  <2>1. ContainsRange([begin |-> 0, size |-> file.size], map)
    BY <1>3 DEF WholeFile, Range
  <2>2. map.begin \in Nat /\ map.size \in Nat
    BY <1>1 DEF Spans
  <2> HIDE DEF map
  <2> QED
    BY <1>1, <2>1, <2>2 DEF ContainsRange, HasLocation, InFile
<1>5. SoundMachO(HeaderAt(file, map.begin), map)
  BY <1>1, <1>3, <1>4, ValidMachO
<1> QED
  BY <1>1, <1>3, <1>5 DEF arch

\* Every arch of a proper file is there.
LEMMA ProperArch ==
  ASSUME IsOpen(file), HeaderAt(file, 0).magic = "fat", ProperFile,
         NEW i \in DOMAIN HeaderAt(file, 0).archs
  PROVE  GetArchObject(file, HeaderAt(file, 0).archs[i]).error = "None"
<1> DEFINE arch == HeaderAt(file, 0).archs[i]
           map == ArchRange(arch)
           h == HeaderAt(file, arch.offset)
<1>1. /\ map \in Spans /\ map.begin = arch.offset /\ file.size \in Nat
      /\ map.begin \in Nat /\ map.size \in Nat
  BY FileFacts, FatHeader DEF Spans
<1>2. /\ h.magic = "macho" /\ map.size > SizeOfHeader /\ SoundMachO(h, map)
      /\ SizeOfLoadCommand * h.count <= h.lcSize
  BY DEF ProperFile
<1>3. ValidateMachO(file, map) = "None" /\ InFile(map)
  BY <1>1, <1>2, MachOIsValid DEF SoundMachO
<1> HIDE DEF arch
<1>4. ContainsRange([begin |-> 0, size |-> file.size], map)
  <2> HIDE DEF map
  <2> QED
    BY <1>1, <1>2, <1>3 DEF ContainsRange, HasLocation, InFile, SizeOfHeader
<1>5. GetArchObject(file, arch).error = "None"
  BY <1>3, <1>4 DEF GetArchObject, WholeFile, Range, Object, DidMatchFormat
<1> QED
  BY <1>5 DEF arch

\* An image that is there lies in the file, at its address in a mapping.
LEMMA ImageIsThere ==
  ASSUME IsOpen(file), HeaderAt(file, 0).magic = "cache",
         NEW i \in DOMAIN HeaderAt(file, 0).images,
         GetImage(file, HeaderAt(file, 0).images[i]).error = "None"
  PROVE  LET cache == HeaderAt(file, 0)
             map == GetImage(file, cache.images[i]).map
         IN  /\ GetImage(file, cache.images[i]).kind = "DscImage"
             /\ InFile(map) /\ map.size > 0
             /\ HeaderAt(file, map.begin).dylib /\ HeaderAt(file, map.begin).inCache
             /\ \E m \in DOMAIN cache.mappings :
                  cache.images[i].address - cache.mappings[m].address
                    = map.begin - cache.mappings[m].offset
<1> DEFINE cache == HeaderAt(file, 0)
           image == cache.images[i]
           offset == FileOffsetForAddress(cache, image.address)
           whole == Range(offset, file.size - offset)
           total == Total(HeaderAt(file, offset).segments)
<1>1. /\ IsHeader(cache) /\ file.size \in Nat /\ cache.magic = "cache"
      /\ i \in DOMAIN cache.images
      /\ GetImage(file, image).error = "None"
  BY FileFacts
<1>2. /\ image.address \in Nat
      /\ DOMAIN cache.mappings \in SUBSET Nat
      /\ \A m \in DOMAIN cache.mappings :
           /\ cache.mappings[m].address \in Nat /\ cache.mappings[m].size \in Nat
           /\ cache.mappings[m].offset \in Nat
  <2>1. Len(cache.mappings) \in Nat /\ DOMAIN cache.mappings = 1..Len(cache.mappings)
    BY <1>1, CacheHeader
  <2> QED
    BY <1>1, <2>1, CacheHeader
<1> HIDE DEF cache, image
<1>3. /\ offset # 0 /\ ~(offset >= file.size) /\ IsImage(file, whole)
      /\ GetImage(file, image) = Object("DscImage", Range(offset, total))
  <2>1. offset # 0 /\ ~(offset >= file.size)
    BY <1>1 DEF GetImage, NoObject, cache
  <2> QED
    BY <1>1, <2>1 DEF GetImage, NoObject, cache
<1> DEFINE OffsetIn(m) == m.offset + (image.address - m.address)
           holding == {m \in DOMAIN cache.mappings :
                         /\ HasLocation(Range(cache.mappings[m].address, cache.mappings[m].size),
                                        image.address)
                         /\ OffsetIn(cache.mappings[m]) # 0}
<1>4. holding # {} /\ offset = OffsetIn(cache.mappings[First(holding)])
  BY <1>3 DEF FileOffsetForAddress
<1>5. First(holding) \in holding
  BY <1>2, <1>4, FirstIsLeast
<1>6. PICK m \in DOMAIN cache.mappings :
        /\ offset = cache.mappings[m].offset + (image.address - cache.mappings[m].address)
        /\ image.address >= cache.mappings[m].address
  BY <1>4, <1>5 DEF HasLocation, Range
<1>7. /\ offset \in Nat
      /\ image.address - cache.mappings[m].address = offset - cache.mappings[m].offset
  <2> HIDE DEF offset
  <2> QED
    BY <1>2, <1>6
<1>8. /\ HeaderAt(file, offset).dylib /\ HeaderAt(file, offset).inCache
      /\ total \in 1..(file.size - offset)
  BY <1>3 DEF IsImage, Range
<1> DEFINE map == GetImage(file, image).map
<1>9. /\ map.begin = offset /\ map.size = total
      /\ GetImage(file, image).kind = "DscImage"
  BY <1>3 DEF Object, Range
<1>10. InFile(map) /\ map.size > 0
  <2> HIDE DEF offset, total, map
  <2> QED
    BY <1>1, <1>7, <1>8, <1>9 DEF InFile
<1>11. HeaderAt(file, map.begin).dylib /\ HeaderAt(file, map.begin).inCache
  BY <1>8, <1>9
<1>12. cache.images[i].address - cache.mappings[m].address = map.begin - cache.mappings[m].offset
  BY <1>7, <1>9 DEF image
<1> QED
  BY <1>9, <1>10, <1>11, <1>12 DEF cache, image

\* What was opened, of which kind and with which error, and that the tables of
\* what was not refused are sound.
LEMMA OpenedIsSound ==
  ASSUME file \in Files
  PROVE  LET o == OpenObject(file)
         IN  /\ o.kind \in {"None", "MachO", "FatMachO", "DyldSharedCache"}
             /\ o.error = "None" =>
                  /\ o.map = WholeFile(file)
                  /\ \/ o.kind = "MachO" /\ HeaderAt(file, 0).magic = "macho"
                          /\ SoundMachO(HeaderAt(file, 0), WholeFile(file))
                     \/ o.kind = "FatMachO" /\ HeaderAt(file, 0).magic = "fat"
                          /\ SoundFat(HeaderAt(file, 0))
                     \/ o.kind = "DyldSharedCache" /\ HeaderAt(file, 0).magic = "cache"
                          /\ SoundCache(HeaderAt(file, 0))
<1> DEFINE macho == ValidateMachO(file, WholeFile(file))
           fat == ValidateFat(file)
           cache == ValidateCache(file)
           o == OpenObject(file)
           Result(kind, error) ==
             IF error = "None" THEN Object(kind, WholeFile(file)) ELSE NoObject(kind, error)
<1>1. \/ o = Result("MachO", macho)
      \/ o = Result("FatMachO", fat)
      \/ o = Result("DyldSharedCache", cache)
      \/ o = NoObject("None", "Crash")
  BY DEF OpenObject
<1>2. IsOpen(file)
  BY DEF IsOpen
<1>3. macho = "None" =>
        HeaderAt(file, 0).magic = "macho" /\ SoundMachO(HeaderAt(file, 0), WholeFile(file))
  <2>1. WholeFile(file) \in Spans /\ InFile(WholeFile(file)) /\ WholeFile(file).begin = 0
    BY <1>2, FileFacts DEF WholeFile, Range, Spans, InFile
  <2>2. macho = "None" => SoundMachO(HeaderAt(file, 0), WholeFile(file))
    BY <1>2, <2>1, ValidMachO
  <2> QED
    BY <2>2 DEF SoundMachO
<1>4. fat = "None" => HeaderAt(file, 0).magic = "fat" /\ SoundFat(HeaderAt(file, 0))
  BY <1>2, ValidFat
<1>5. cache = "None" => HeaderAt(file, 0).magic = "cache" /\ SoundCache(HeaderAt(file, 0))
  BY <1>2, ValidCache
<1> HIDE DEF macho, fat, cache, o
<1>6. \A kind, error : /\ Result(kind, error).kind = kind
                       /\ Result(kind, error).error = error
                       /\ error = "None" => Result(kind, error).map = WholeFile(file)
  BY DEF Object, NoObject
<1>7. NoObject("None", "Crash").kind = "None" /\ NoObject("None", "Crash").error = "Crash"
  BY DEF NoObject
<1> HIDE DEF Result
<1>8. /\ o.kind \in {"None", "MachO", "FatMachO", "DyldSharedCache"}
      /\ o.error = "None" =>
           /\ o.map = WholeFile(file)
           /\ \/ o.kind = "MachO" /\ macho = "None"
              \/ o.kind = "FatMachO" /\ fat = "None"
              \/ o.kind = "DyldSharedCache" /\ cache = "None"
  BY <1>1, <1>6, <1>7
<1> QED
  BY <1>3, <1>4, <1>5, <1>8 DEF o

(***************************************************************************)
(* The invariant                                                           *)
(***************************************************************************)

\* What the variables hold, and what was opened.
TypeInv ==
  /\ pc \in {"operation", "options", "file", "object", "path", "done"}
  /\ argv \in Seq(STRING)
  /\ next \in 1..(Len(argv) + 1) /\ index \in 1..(Len(argv) + 1)
  /\ operation \in {"None"} \cup {OperationOf[o] : o \in DOMAIN OperationOf}
  /\ flags \subseteq FlagsOf(operation)
  /\ file = NoFile \/ file \in Files
  /\ object # Null => file \in Files /\ object = OpenObject(file)
  /\ subObject.kind \in Kinds
  /\ outcome.how \in {"running", "helped", "refused", "crashed", "advised", "ran"}
  /\ outcome.how = "running" <=> pc # "done"

\* The operands before the argument m, and the flags read from there.
OperandsBefore(m) == {i \in Operands : i < m}

Read(m) ==
  /\ flags \subseteq {argv[i] : i \in 2..(m - 1)}
  /\ IF operation \in SectionOperations /\ pairs # <<>>
     THEN \E i \in 2..(m - 1) : argv[i] = Pair /\ OperandsBefore(m) = {i}
     ELSE OperandsBefore(m) = {}

\* The operation was read, and nothing was opened.
Begun == argv # <<>> /\ argv[1] \in DOMAIN OperationOf /\ operation = OperationOf[argv[1]]
NotOpened == file = NoFile /\ object = Null /\ subObject = Null

\* A kind that is required is left where the loop stands, which so ends.
OptionsInv ==
  pc = "options" =>
    /\ Begun /\ NotOpened
    /\ next \in 2..(Len(argv) + 1)
    /\ index = IF kinds = {} THEN next ELSE next + 1
    /\ kinds # {} => next <= Len(argv) /\ ~IsOption(argv[next]) /\ operation = "PrintExportTrie"
    /\ next <= Len(argv) => (IsValue[next] <=> kinds # {})
    /\ Read(next)

\* The path is the operand the usage says.
PathInv ==
  pc \in {"file", "object", "path"} =>
    /\ Begun
    /\ index \in 2..Len(argv) /\ ~IsValue[index] /\ Read(index)
    /\ operation \in SectionOperations => pairs # <<>>
    /\ IF pc = "file" THEN NotOpened ELSE argv[index] = File /\ file \in Files
    /\ pc = "object" => object = Null /\ subObject = Null

\* What was chosen is what the last choice read names.
ChosenInv ==
  pc = "path" =>
    /\ object = OpenObject(file) /\ object.error = "None"
    /\ next > index /\ (next - index) % 2 = 1
    /\ IF next = index + 1 THEN subObject = object
       ELSE LET argument == argv[next - 1]
            IN  /\ argv[next - 2] \in {"-arch", "-image"}
                /\ IF argv[next - 2] = "-arch" THEN IsTheArch(argument) ELSE IsTheImage(argument)
    /\ \A i \in (index + 1)..(next - 1) : argv[i] \in {"-arch", "-image"} => i <= next - 2

\* The path of a proper command line is still ahead, or was found.
ProperInv ==
  \A p \in 2..Len(argv) : ProperPath(p) =>
    /\ pc = "options" => IF kinds = {} THEN next <= p ELSE next + 1 = p
    /\ pc \in {"file", "object", "path"} => index = p

StartInv ==
  pc = "operation" =>
    /\ NotOpened /\ operation = "None" /\ next = 1 /\ index = 1
    /\ flags = {} /\ kinds = {} /\ pairs = <<>>

DoneInv == RunsOnWhatWasAsked /\ EndsHaveAReason

IInv ==
  /\ TypeInv /\ StartInv /\ OptionsInv /\ PathInv /\ ChosenInv /\ ProperInv /\ DoneInv

\* A proper file is opened, as what it begins with.
LEMMA ProperIsOpened ==
  ASSUME file \in Files, ProperFile
  PROVE  OpenObject(file).error = "None"
<1> DEFINE whole == WholeFile(file)
           h == HeaderAt(file, 0)
           macho == ValidateMachO(file, whole)
           fat == ValidateFat(file)
           cache == ValidateCache(file)
<1>1. IsOpen(file) /\ file.size \in Nat
  BY FileFacts DEF IsOpen
<1>2. whole \in Spans /\ whole.begin = 0 /\ whole.size = file.size /\ InFile(whole)
  BY <1>1 DEF WholeFile, Range, Spans, InFile
<1>3. CASE h.magic = "macho"
  <2>1. /\ whole.size > SizeOfHeader /\ SoundMachO(h, whole)
        /\ SizeOfLoadCommand * h.count <= h.lcSize
    BY <1>3 DEF ProperFile
  <2>2. macho = "None"
    BY <1>1, <1>2, <1>3, <2>1, MachOIsValid
  <2> QED
    BY <2>2 DEF OpenObject, DidMatchFormat, Object
<1>4. h.magic # "macho" => macho \in {"SizeTooSmall", "WrongFormat"}
  BY <1>2 DEF ValidateMachO
<1>5. CASE h.magic = "fat"
  <2>1. /\ h.archs # <<>> /\ SoundFat(h)
        /\ \A i \in DOMAIN h.archs :
             LET map == ArchRange(h.archs[i])
             IN  map.size > SizeOfHeader /\ SoundMachO(HeaderAt(file, h.archs[i].offset), map)
    BY <1>5 DEF ProperFile
  <2>2. ASSUME NEW i \in DOMAIN h.archs
        PROVE  LET map == ArchRange(h.archs[i]) IN map.size > 0 /\ InFile(map)
    <3>1. ArchRange(h.archs[i]).size \in Nat
      BY <1>1, <1>5, FileFacts, FatHeader
    <3>2. ArchRange(h.archs[i]).size > 7 /\ InFile(ArchRange(h.archs[i]))
      BY <2>1 DEF SoundMachO, SizeOfHeader
    <3> QED
      BY <3>1, <3>2
  <2>3. fat = "None"
    BY <1>1, <1>5, <2>1, <2>2, FatIsValid
  <2> HIDE DEF macho, fat
  <2>4. ~DidMatchFormat(macho) /\ DidMatchFormat(fat)
    BY <1>4, <1>5, <2>3 DEF DidMatchFormat
  <2> QED
    BY <2>3, <2>4 DEF OpenObject, Object, macho, fat
<1>6. h.magic # "fat" => fat \in {"SizeTooSmall", "WrongFormat"}
  BY DEF ValidateFat
<1>7. CASE h.magic = "cache"
  <2>1. cache = "None"
    BY <1>1, <1>7, CacheIsValid
  <2> HIDE DEF macho, fat, cache
  <2>2. ~DidMatchFormat(macho) /\ ~DidMatchFormat(fat) /\ DidMatchFormat(cache)
    BY <1>4, <1>6, <1>7, <2>1 DEF DidMatchFormat
  <2> QED
    BY <2>1, <2>2 DEF OpenObject, Object, macho, fat, cache
<1>8. h.magic \in {"macho", "fat", "cache"}
  BY DEF ProperFile
<1> QED
  BY <1>3, <1>5, <1>7, <1>8

(***************************************************************************)
(* What a step that leaves the command line, the file and the object says  *)
(* of them                                                                 *)
(***************************************************************************)

\* The command line never changes, nor what is said of it.
LEMMA SameLine ==
  ASSUME argv' = argv
  PROVE  /\ IsValue' = IsValue /\ Operands' = Operands /\ PathOperands' = PathOperands
         /\ PathOperand' = PathOperand /\ Choices' = Choices /\ LastChoice' = LastChoice
         /\ \A p : ProperPath(p)' = ProperPath(p)
         /\ \A m : OperandsBefore(m)' = OperandsBefore(m)
<1>1. IsValue' = IsValue
  BY DEF IsValue
<1>2. Operands' = Operands
  BY <1>1 DEF Operands
<1>3. PathOperands' = PathOperands
  BY <1>2 DEF PathOperands
<1>4. PathOperand' = PathOperand
  BY <1>3 DEF PathOperand
<1>5. Choices' = Choices
  BY <1>4 DEF Choices
<1>6. LastChoice' = LastChoice
  BY <1>5 DEF LastChoice
<1>7. \A p : ProperPath(p)' = ProperPath(p)
  BY <1>1 DEF ProperPath, ProperOptions, ProperRequirement
<1>8. \A m : OperandsBefore(m)' = OperandsBefore(m)
  BY <1>2 DEF OperandsBefore
<1> QED
  BY <1>1, <1>2, <1>3, <1>4, <1>5, <1>6, <1>7, <1>8

\* Of a file that stays.
LEMMA SameFile ==
  ASSUME file' = file
  PROVE  ProperFile' = ProperFile
<1>1. \A r : InFile(r)' = InFile(r)
  BY DEF InFile
<1>2. \A h, m : SoundMachO(h, m)' = SoundMachO(h, m)
  BY <1>1 DEF SoundMachO
<1>3. \A h : SoundFat(h)' = SoundFat(h)
  BY <1>1 DEF SoundFat
<1>4. \A h : SoundCache(h)' = SoundCache(h)
  BY <1>1 DEF SoundCache
<1> QED
  BY <1>2, <1>3, <1>4 DEF ProperFile

\* Of a line and a file that stay.
LEMMA SameLineAndFile ==
  ASSUME argv' = argv, file' = file
  PROVE  ProperLine' = ProperLine /\ \A why : CrashReason(why)' = CrashReason(why)
<1>1. /\ \A p : ProperPath(p)' = ProperPath(p)
      /\ PathOperands' = PathOperands /\ ProperFile' = ProperFile
  BY SameLine, SameFile
<1>2. ProperLine' = ProperLine
  BY <1>1, ZenonT(60) DEF ProperLine, ProperChoice, NamesImage
<1> QED
  BY <1>1, <1>2 DEF CrashReason

\* Of an object that stays.
LEMMA SameObject ==
  ASSUME file' = file, subObject' = subObject
  PROVE  \A a : IsTheArch(a)' = IsTheArch(a) /\ IsTheImage(a)' = IsTheImage(a)
<1>1. \A r : InFile(r)' = InFile(r)
  BY DEF InFile
<1>2. \A h, m : SoundMachO(h, m)' = SoundMachO(h, m)
  BY <1>1 DEF SoundMachO
<1>3. \A a : IsTheArch(a)' = IsTheArch(a)
  BY <1>2 DEF IsTheArch
<1>4. \A r, i : NamesImage(r, i)' = NamesImage(r, i)
  BY DEF NamesImage
<1>5. \A a : IsTheImage(a)' = IsTheImage(a)
  BY <1>1, <1>4 DEF IsTheImage
<1> QED
  BY <1>3, <1>5

(***************************************************************************)
(* The ends                                                                *)
(***************************************************************************)

\* An end that is neither a run nor an advice keeps the invariant, when there is
\* a reason for it.
LEMMA EndKeeps ==
  ASSUME TypeInv', NEW how \in {"helped", "refused", "crashed"}, NEW why, End(how, why),
         (\E p \in 2..Len(argv) : ProperPath(p))' => file'.size > 0 \/ why \in MapErrors,
         why = "OldCacheCounted" \/ ~(file.size > 0 /\ ProperLine /\ ProperFile)',
         how = "crashed" => CrashReason(why)'
  PROVE  IInv'
<1>1. pc' = "done" /\ outcome'.how = how /\ outcome'.why = why
  BY DEF End
<1>2. StartInv' /\ OptionsInv' /\ PathInv' /\ ChosenInv' /\ ProperInv'
  BY <1>1 DEF StartInv, OptionsInv, PathInv, ChosenInv, ProperInv
<1>3. RunsOnWhatWasAsked'
  BY <1>1 DEF RunsOnWhatWasAsked
<1>4. AdviceIsRight'
  BY <1>1 DEF AdviceIsRight
<1>5. EndsHaveAReason'
  BY <1>1, <1>4 DEF EndsHaveAReason
<1> QED
  BY <1>2, <1>3, <1>5 DEF IInv, DoneInv

\* An end before the file is opened.
LEMMA EndBeforeFile ==
  ASSUME TypeInv', argv' = argv, file' = file, file = NoFile,
         NEW how \in {"helped", "refused", "crashed"}, NEW why, End(how, why),
         why \in MapErrors \/ \A p \in 2..Len(argv) : ~ProperPath(p),
         how = "crashed" => CrashReason(why)
  PROVE  IInv'
<1>1. ~(file'.size > 0)
  BY DEF NoFile
<1>2. (\E p \in 2..Len(argv) : ProperPath(p))' => why \in MapErrors
  BY SameLine
<1>3. how = "crashed" => CrashReason(why)'
  BY SameLineAndFile
<1> QED
  BY <1>1, <1>2, <1>3, EndKeeps

\* An end after it.
LEMMA EndAfterFile ==
  ASSUME TypeInv', argv' = argv, file' = file, file \in Files,
         NEW how \in {"helped", "refused", "crashed"}, NEW why, End(how, why),
         why = "OldCacheCounted" \/ ~ProperLine \/ ~ProperFile,
         how = "crashed" => CrashReason(why)
  PROVE  IInv'
<1>1. file'.size > 0
  BY FilesAssumption DEF IsFile
<1>2. why = "OldCacheCounted" \/ ~(file.size > 0 /\ ProperLine /\ ProperFile)'
  BY SameLineAndFile, SameFile
<1>3. how = "crashed" => CrashReason(why)'
  BY SameLineAndFile
<1> QED
  BY <1>1, <1>2, <1>3, EndKeeps

(***************************************************************************)
(* The arguments                                                           *)
(***************************************************************************)

\* The loop goes over the arguments, and what is no option is not taken as one.
LEMMA Arguments ==
  /\ ~IsOption(File) /\ ~IsOption(Pair)
  /\ \A argument \in ImagePaths : ~IsOption(argument)
  /\ \A i \in DOMAIN Numerals : ~IsOption(Numerals[i])
  /\ \A o \in Requirements : IsOption(o)
  /\ \A o : \A f \in FlagsOf(o) : IsOption(f) /\ f \notin Requirements
<1>1. /\ ~IsOption(File) /\ ~IsOption(Pair)
      /\ \A argument \in ImagePaths : ~IsOption(argument)
      /\ \A i \in DOMAIN Numerals : ~IsOption(Numerals[i])
  BY ArgumentsAssumption
<1>2. \A o \in Requirements : IsOption(o)
  BY DEF IsOption
<1>3. ASSUME NEW o, NEW f \in FlagsOf(o) PROVE IsOption(f) /\ f \notin Requirements
  <2>1. f \in {"-v", "--sort", "--only-count", "--tree", "--include-categories"}
    BY <1>3 DEF FlagsOf
  <2> QED
    BY <2>1 DEF IsOption, Requirements
<1> QED
  BY <1>1, <1>2, <1>3

\* Which of the arguments the operands before m are.
LEMMA OneMoreOperand ==
  ASSUME argv \in Seq(STRING), NEW m \in 2..Len(argv)
  PROVE  OperandsBefore(m + 1) = OperandsBefore(m) \cup
           (IF IsOption(argv[m]) \/ IsValue[m] THEN {} ELSE {m})
<1>1. Len(argv) \in Nat
  OBVIOUS
<1>2. \A i \in Int : i < m + 1 <=> i < m \/ i = m
  BY <1>1
<1>3. m \in Operands <=> ~(IsOption(argv[m]) \/ IsValue[m])
  BY DEF Operands
<1>4. Operands \in SUBSET Int
  BY <1>1 DEF Operands
<1> QED
  BY <1>2, <1>3, <1>4 DEF OperandsBefore

\* The options of a proper path, in the terms of the loop.
LEMMA ProperBefore ==
  ASSUME argv \in Seq(STRING), NEW p \in 2..Len(argv), ProperPath(p), Begun
  PROVE  /\ argv[p] = File /\ ~IsOption(argv[p]) /\ ~IsValue[p]
         /\ ~Conflict(operation, {argv[i] : i \in 2..(p - 1)})
         /\ operation \in SectionOperations =>
              /\ \A i \in 2..(p - 1) : argv[i] \in FlagsOf(operation) \/ argv[i] = Pair
              /\ \E i \in 2..(p - 1) : \A j \in 2..(p - 1) : argv[j] = Pair <=> i = j
         /\ operation = "PrintExportTrie" =>
              \A i \in 2..(p - 1) : IF IsValue[i] THEN ProperRequirement(i, p)
                                    ELSE argv[i] \in FlagsOf(operation) \cup Requirements
         /\ operation \notin SectionOperations \cup {"PrintExportTrie"} =>
              \A i \in 2..(p - 1) : argv[i] \in FlagsOf(operation)
<1>1. argv[p] = File /\ ProperOptions(p) /\ operation = OperationOf[argv[1]]
  BY DEF ProperPath, Begun
<1>2. ~IsOption(argv[p]) /\ ~IsValue[p] /\ ~Conflict(operation, {argv[i] : i \in 2..(p - 1)})
  BY <1>1, Arguments DEF ProperOptions
<1>3. CASE operation \in SectionOperations
  <2>1. {argv[i] : i \in 2..(p - 1)} \subseteq FlagsOf(operation) \cup {Pair}
        /\ \E i \in 2..(p - 1) : \A j \in 2..(p - 1) : argv[j] = Pair <=> i = j
    BY <1>1, <1>3 DEF ProperOptions, SectionOperations
  <2>2. operation # "PrintExportTrie"
    BY <1>3 DEF SectionOperations
  <2> QED
    BY <1>1, <1>2, <1>3, <2>1, <2>2
<1>4. CASE operation = "PrintExportTrie"
  <2>1. operation \notin SectionOperations
    BY <1>4 DEF SectionOperations
  <2>2. \A i \in 2..(p - 1) : IF IsValue[i] THEN ProperRequirement(i, p)
                              ELSE argv[i] \in FlagsOf(operation) \cup Requirements
    BY <1>1, <1>4, <2>1 DEF ProperOptions
  <2> QED
    BY <1>1, <1>2, <1>4, <2>1, <2>2
<1>5. CASE operation \notin SectionOperations \cup {"PrintExportTrie"}
  <2>1. {argv[i] : i \in 2..(p - 1)} \subseteq FlagsOf(operation)
    BY <1>1, <1>5 DEF ProperOptions
  <2> QED
    BY <1>1, <1>2, <1>5, <2>1
<1> QED
  BY <1>3, <1>4, <1>5

(***************************************************************************)
(* The start                                                               *)
(***************************************************************************)

\* Before the first argument is looked at, the invariant holds.
LEMMA Starts == Init => IInv
<1> SUFFICES ASSUME Init PROVE IInv
  OBVIOUS
<1>1. argv \in Seq(STRING)
  BY ArgumentsAssumption DEF Init
<1>2. Len(argv) \in Nat
  BY <1>1
<1>3. TypeInv
  BY <1>1, <1>2 DEF TypeInv, Init, NoFile, Null, NoObject, Kinds
<1>4. StartInv
  BY DEF StartInv, Init, NotOpened, NoFile
<1>5. OptionsInv /\ PathInv /\ ChosenInv /\ ProperInv
  BY DEF OptionsInv, PathInv, ChosenInv, ProperInv, Init
<1>6. DoneInv
  BY DEF DoneInv, RunsOnWhatWasAsked, EndsHaveAReason, Init
<1> QED
  BY <1>3, <1>4, <1>5, <1>6 DEF IInv

\* An end without an operation needs a line that names none.
LEMMA NoOperationKeeps == ASSUME IInv, NoOperation PROVE IInv'
<1>1. /\ TypeInv /\ file = NoFile /\ operation = "None"
      /\ argv' = argv /\ file' = file
  BY DEF IInv, StartInv, NoOperation, NotOpened
<1>2. \/ End("helped", "NoArguments") \/ End("refused", "NotAnOption")
      \/ End("helped", "Help") \/ End("refused", "UnrecognizedOperation")
  BY DEF NoOperation
<1>3. argv = <<>> \/ argv[1] \notin DOMAIN OperationOf
  <2>1. ~IsOption(argv[1]) => argv[1] \notin DOMAIN OperationOf
    BY DEF IsOption
  <2>2. argv[1] = "--help" => argv[1] \notin DOMAIN OperationOf
    BY DEF OperationOf, OperationNames
  <2> QED
    BY <2>1, <2>2 DEF NoOperation
<1>4. \A p \in 2..Len(argv) : ~ProperPath(p)
  BY <1>3 DEF ProperPath
<1>5. TypeInv'
  BY <1>1, <1>2 DEF TypeInv, NoOperation, End
<1> QED
  BY <1>1, <1>2, <1>4, <1>5, EndBeforeFile

\* The loop over the options begins behind the operation; what ends before it has no
\* path to find.
LEMMA ChooseOperationKeeps == ASSUME IInv, ChooseOperation PROVE IInv'
<1>1. /\ TypeInv /\ NotOpened /\ NotOpened' /\ flags = {} /\ kinds = {} /\ pairs = <<>>
      /\ argv' = argv /\ file' = file /\ flags' = {} /\ kinds' = {} /\ pairs' = <<>>
      /\ object' = object /\ subObject' = subObject /\ argv \in Seq(STRING)
  BY DEF IInv, StartInv, ChooseOperation, NotOpened, TypeInv
<1>2. /\ next' = 2 /\ index' = 2 /\ argv # <<>> /\ argv[1] \in DOMAIN OperationOf
      /\ operation' = OperationOf[argv[1]]
  BY DEF ChooseOperation
<1>3. Len(argv) \in Nat \ {0} /\ Len(argv') = Len(argv)
  BY <1>1, <1>2
<1>4. ASSUME outcome'.how \in {"running", "helped", "refused"},
             pc' \in {"options", "done"},
             outcome'.how = "running" <=> pc' # "done"
      PROVE  TypeInv'
  BY <1>1, <1>2, <1>3, <1>4 DEF TypeInv, NotOpened
<1>5. CASE pc' = "options" /\ UNCHANGED outcome /\ Len(argv) > 1
  <2>1. TypeInv'
    BY <1>4, <1>5 DEF IInv, TypeInv, ChooseOperation
  <2>2. Begun'
    BY <1>1, <1>2 DEF Begun
  <2>3. ~IsValue[2] /\ IsValue' = IsValue
    BY <1>1, <1>3, <1>5, ValueAfter, SameLine
  <2>4. OperandsBefore(2)' = {}
    BY <1>1, <1>3, SameLine DEF OperandsBefore, Operands
  <2>5. OptionsInv'
    BY <1>1, <1>2, <1>3, <1>5, <2>2, <2>3, <2>4 DEF OptionsInv, Read
  <2>6. ProperInv'
    BY <1>1, <1>2, <1>3, <1>5 DEF ProperInv
  <2>7. StartInv' /\ PathInv' /\ ChosenInv'
    BY <1>5 DEF StartInv, PathInv, ChosenInv
  <2>8. DoneInv'
    BY <1>5, <2>1 DEF DoneInv, RunsOnWhatWasAsked, EndsHaveAReason, TypeInv
  <2> QED
    BY <2>1, <2>5, <2>6, <2>7, <2>8 DEF IInv
<1>6. CASE \/ Len(argv) = 1 /\ End("refused", "NoFile")
           \/ Len(argv) > 1 /\ argv[2] = "--help" /\ End("helped", "OperationHelp")
           \/ Len(argv) > 1 /\ argv[2] = "--help" /\ End("refused", "HelpAlone")
  <2>1. TypeInv'
    BY <1>4, <1>6 DEF End
  <2>2. ASSUME NEW p \in 2..Len(argv), ProperPath(p) PROVE FALSE
    <3>1. argv[2] = "--help" /\ Len(argv) > 1
      BY <1>3, <1>6
    <3>4. argv[2] = File \/ argv[2] \in {argv[i] : i \in 2..(p - 1)}
      <4>1. p = 2 \/ 2 \in 2..(p - 1)
        BY <2>2, <1>3
      <4> QED
        BY <2>2, <4>1 DEF ProperPath
    <3>5. /\ IsOption("--help") /\ "--help" \notin Requirements
          /\ \A o : "--help" \notin FlagsOf(o)
      BY DEF IsOption, Requirements, FlagsOf
    <3>6. argv[2] # File /\ argv[2] # Pair
      BY <3>1, <3>5, Arguments
    <3>7. 2 \in 2..(p - 1) /\ p > 2
      BY <2>2, <1>3, <3>6 DEF ProperPath
    <3> DEFINE op == OperationOf[argv[1]]
               given == {argv[i] : i \in 2..(p - 1)}
    <3>8. ProperOptions(p) /\ "--help" \in given
      BY <2>2, <3>1, <3>4, <3>6 DEF ProperPath
    <3>9. CASE op \in SectionOperations
      <4>1. given \subseteq FlagsOf(op) \cup {Pair}
        BY <3>8, <3>9 DEF ProperOptions, SectionOperations
      <4> QED
        BY <3>1, <3>5, <3>6, <3>8, <4>1
    <3>10. CASE op = "PrintExportTrie"
      <4>1. IF IsValue[2] THEN ProperRequirement(2, p) ELSE argv[2] \in FlagsOf(op) \cup Requirements
        BY <3>7, <3>8, <3>10 DEF ProperOptions, SectionOperations
      <4>2. ~IsValue[2]
        BY <1>1, <1>3, <3>1, ValueAfter
      <4> QED
        BY <3>1, <3>5, <4>1, <4>2
    <3>11. CASE op \notin SectionOperations \cup {"PrintExportTrie"}
      <4>1. given \subseteq FlagsOf(op)
        BY <3>8, <3>11 DEF ProperOptions
      <4> QED
        BY <3>5, <3>8, <4>1
    <3> QED
      BY <3>9, <3>10, <3>11
  <2>3. file = NoFile
    BY <1>1 DEF NotOpened
  <2>4. CASE Len(argv) = 1 /\ End("refused", "NoFile")
    <3>1. \A p \in 2..Len(argv) : ~ProperPath(p)
      BY <2>2
    <3> QED
      BY <1>1, <2>1, <2>3, <2>4, <3>1, EndBeforeFile
  <2>5. CASE End("helped", "OperationHelp") \/ End("refused", "HelpAlone")
    <3>1. \A p \in 2..Len(argv) : ~ProperPath(p)
      BY <2>2
    <3> QED
      BY <1>1, <2>1, <2>3, <2>5, <3>1, EndBeforeFile
  <2> QED
    BY <1>6, <2>4, <2>5
<1> QED
  <2>1. Len(argv) = 2 \/ Len(argv) > 2 => Len(argv) > 1
    BY <1>3
  <2> QED
    BY <1>5, <1>6, <2>1 DEF ChooseOperation

(***************************************************************************)
(* The options of the operation                                            *)
(***************************************************************************)

\* Where the loop stands.
LEMMA InTheLoop ==
  ASSUME IInv, pc = "options"
  PROVE  /\ TypeInv /\ argv \in Seq(STRING) /\ Len(argv) \in Nat
         /\ Begun /\ NotOpened /\ file = NoFile /\ object = Null
         /\ next \in 2..(Len(argv) + 1) /\ index \in 1..(Len(argv) + 1)
         /\ index = IF kinds = {} THEN next ELSE next + 1
         /\ kinds # {} => next <= Len(argv) /\ ~IsOption(argv[next]) /\ operation = "PrintExportTrie"
         /\ next <= Len(argv) => (IsValue[next] <=> kinds # {})
         /\ Read(next)
         /\ \A p \in 2..Len(argv) : ProperPath(p) => IF kinds = {} THEN next <= p ELSE next + 1 = p
<1>1. TypeInv /\ OptionsInv /\ ProperInv
  BY DEF IInv
<1>2. argv \in Seq(STRING) /\ index \in 1..(Len(argv) + 1)
  BY <1>1 DEF TypeInv
<1>3. Len(argv) \in Nat
  BY <1>2
<1> QED
  BY <1>1, <1>2, <1>3 DEF OptionsInv, ProperInv, NotOpened

\* Every step of the loop keeps the types.
LEMMA TypeInTheLoop ==
  ASSUME IInv, pc = "options", argv' = argv, operation' = operation, file' = file,
         object' = object, subObject' = subObject,
         next' \in 1..(Len(argv) + 1), index' \in 1..(Len(argv) + 1),
         flags' \subseteq FlagsOf(operation),
         outcome'.how \in {"running", "helped", "refused", "crashed"},
         pc' \in {"options", "file", "done"}, outcome'.how = "running" <=> pc' # "done"
  PROVE  TypeInv'
BY DEF TypeInv, IInv

\* A step of the loop that does not end it.
LEMMA StillInTheLoop ==
  ASSUME IInv, pc = "options", argv' = argv, operation' = operation, file' = file,
         object' = object, subObject' = subObject, pc' = pc, outcome' = outcome,
         next' \in 2..(Len(argv) + 1), index' \in 1..(Len(argv) + 1),
         flags' \subseteq FlagsOf(operation),
         index' = IF kinds' = {} THEN next' ELSE next' + 1,
         kinds' # {} =>
           next' <= Len(argv) /\ ~IsOption(argv[next']) /\ operation = "PrintExportTrie",
         next' <= Len(argv) => (IsValue[next'] <=> kinds' # {}),
         Read(next)',
         \A p \in 2..Len(argv) : ProperPath(p) => IF kinds' = {} THEN next' <= p ELSE next' + 1 = p
  PROVE  IInv'
<1>1. /\ Begun /\ NotOpened /\ Len(argv) \in Nat
      /\ outcome.how = "running"
  BY InTheLoop DEF TypeInv
<1>2. TypeInv'
  <2>1. next' \in 1..(Len(argv) + 1) /\ pc' = "options" /\ outcome'.how = "running"
    BY <1>1
  <2> QED
    BY <2>1, TypeInTheLoop
<1>3. Begun' /\ NotOpened'
  BY <1>1 DEF Begun, NotOpened
<1>4. IsValue' = IsValue /\ \A p : ProperPath(p)' = ProperPath(p)
  BY SameLine
<1>5. OptionsInv'
  BY <1>3, <1>4 DEF OptionsInv
<1>6. ProperInv'
  BY <1>4 DEF ProperInv
<1>7. StartInv' /\ PathInv' /\ ChosenInv' /\ DoneInv'
  BY <1>1 DEF StartInv, PathInv, ChosenInv, DoneInv, RunsOnWhatWasAsked, EndsHaveAReason
<1> QED
  BY <1>2, <1>5, <1>6, <1>7 DEF IInv

\* An end of the loop that needs no more than the line.
LEMMA EndInTheLoop ==
  ASSUME IInv, pc = "options", NEW how \in {"refused", "crashed"}, NEW why, End(how, why),
         argv' = argv, operation' = operation, file' = file,
         object' = object, subObject' = subObject, flags' = flags,
         next' = next, index' = index,
         \A p \in 2..Len(argv) : ~ProperPath(p),
         how = "crashed" => CrashReason(why)
  PROVE  IInv'
<1>1. file = NoFile /\ next \in 1..(Len(argv) + 1) /\ index \in 1..(Len(argv) + 1)
      /\ flags \subseteq FlagsOf(operation)
  BY InTheLoop DEF TypeInv
<1>2. TypeInv'
  BY <1>1, TypeInTheLoop DEF End
<1> QED
  BY <1>1, <1>2, EndBeforeFile

\* What is read stays so, and goes on over an argument that is no operand.
LEMMA ReadOn ==
  ASSUME argv \in Seq(STRING), NEW m \in 2..Len(argv), Read(m),
         IsOption(argv[m]) \/ IsValue[m],
         argv' = argv, operation' = operation, pairs' = pairs \/ operation \notin SectionOperations,
         flags' \subseteq flags \cup {argv[m]}
  PROVE  flags' \subseteq {argv[i] : i \in 2..m}
         /\ IF operation \in SectionOperations /\ pairs' # <<>>
            THEN \E i \in 2..m : argv[i] = Pair /\ OperandsBefore(m + 1) = {i}
            ELSE OperandsBefore(m + 1) = {}
<1>1. OperandsBefore(m + 1) = OperandsBefore(m)
  BY OneMoreOperand
<1>2. \A i \in 2..(m - 1) : i \in 2..m
  OBVIOUS
<1>3. m \in 2..m
  OBVIOUS
<1>4. flags' \subseteq {argv[i] : i \in 2..m}
  BY <1>2, <1>3 DEF Read
<1> QED
  BY <1>1, <1>2, <1>4 DEF Read

\* A flag is no operand and needs no value: the path is still ahead of it.
LEMMA ReadFlagKeeps == ASSUME IInv, ReadFlag PROVE IInv'
<1>1. /\ pc = "options" /\ next <= Len(argv) /\ argv[next] \in FlagsOf(operation)
      /\ flags' = flags \cup {argv[next]} /\ next' = next + 1 /\ index' = index + 1
      /\ pc' = pc /\ argv' = argv /\ operation' = operation /\ kinds' = kinds /\ pairs' = pairs
      /\ file' = file /\ object' = object /\ subObject' = subObject /\ outcome' = outcome
  BY DEF ReadFlag, InOptions
<1>2. /\ argv \in Seq(STRING) /\ Len(argv) \in Nat /\ next \in 2..Len(argv) /\ Read(next)
      /\ flags \subseteq FlagsOf(operation) /\ Begun
  BY <1>1, InTheLoop DEF TypeInv
<1>3. IsOption(argv[next]) /\ argv[next] \notin Requirements
  BY <1>1, Arguments
<1>4. kinds = {} /\ index = next /\ ~IsValue[next]
  BY <1>1, <1>3, InTheLoop
<1>5. next + 1 <= Len(argv) => ~IsValue[next + 1]
  <2> SUFFICES ASSUME next + 1 <= Len(argv) PROVE ~IsValue[next + 1]
    OBVIOUS
  <2>1. next + 1 \in 1..Len(argv) /\ (next + 1) - 1 = next
    BY <1>2
  <2> QED
    BY <1>2, <1>3, <2>1, ValueAfter
<1>6. Read(next)'
  <2>1. flags' \subseteq {argv[i] : i \in 2..next}
        /\ IF operation \in SectionOperations /\ pairs' # <<>>
           THEN \E i \in 2..next : argv[i] = Pair /\ OperandsBefore(next + 1) = {i}
           ELSE OperandsBefore(next + 1) = {}
    BY <1>1, <1>2, <1>3, ReadOn
  <2>2. (next + 1) - 1 = next
    BY <1>2
  <2>3. OperandsBefore(next)' = OperandsBefore(next + 1)
    BY <1>1, SameLine DEF OperandsBefore
  <2> QED
    BY <1>1, <2>1, <2>2, <2>3 DEF Read
<1>7. \A p \in 2..Len(argv) : ProperPath(p) => next + 1 <= p
  <2> TAKE p \in 2..Len(argv)
  <2> HAVE ProperPath(p)
  <2>1. next <= p
    BY <1>1, <1>4, InTheLoop
  <2>2. next # p
    BY <1>2, <1>3, ProperBefore
  <2> QED
    BY <1>2, <2>1, <2>2
<1>8. /\ next' \in 2..(Len(argv) + 1) /\ index' \in 1..(Len(argv) + 1) /\ index' = next'
      /\ flags' \subseteq FlagsOf(operation) /\ kinds' = {}
      /\ next' <= Len(argv) => ~IsValue[next']
      /\ \A p \in 2..Len(argv) : ProperPath(p) => next' <= p
  BY <1>1, <1>2, <1>4, <1>5, <1>7
<1> HIDE DEF InOptions
<1> QED
  BY <1>1, <1>6, <1>8, StillInTheLoop

\* The section that an operation lists is still ahead while none was read.
LEMMA SectionAhead ==
  ASSUME IInv, pc = "options", operation \in SectionOperations, pairs = <<>>,
         NEW p \in 2..Len(argv), ProperPath(p)
  PROVE  next < p
<1>1. /\ argv \in Seq(STRING) /\ Len(argv) \in Nat /\ next \in 2..(Len(argv) + 1) /\ Begun
      /\ Read(next) /\ operation # "PrintExportTrie"
  BY InTheLoop DEF SectionOperations
<1>2. next <= p
  BY <1>1, InTheLoop
<1>3. OperandsBefore(next) = {}
  BY <1>1 DEF Read
<1>4. PICK i \in 2..(p - 1) : \A j \in 2..(p - 1) : argv[j] = Pair <=> i = j
  BY <1>1, ProperBefore
<1>5. argv[i] = Pair /\ i \in 2..Len(argv) /\ i < p
  BY <1>1, <1>4
<1>6. ~IsValue[i]
  <2> SUFFICES ASSUME i > 2, argv[i - 1] \in Requirements PROVE FALSE
    BY <1>1, <1>5, ValueAfter
  <2>1. i - 1 \in 2..(p - 1)
    BY <1>4
  <2>2. argv[i - 1] \in FlagsOf(operation) \/ argv[i - 1] = Pair
    BY <1>1, <2>1, ProperBefore
  <2> QED
    BY <2>2, Arguments
<1>7. i \in Operands
  BY <1>5, <1>6, Arguments DEF Operands
<1>8. p # next
  BY <1>3, <1>5, <1>7 DEF OperandsBefore
<1> QED
  BY <1>1, <1>2, <1>8

\* The pair is the one operand before the path; any other word in its place belongs
\* to no proper path.
LEMMA ReadSectionOperandKeeps == ASSUME IInv, ReadSectionOperand PROVE IInv'
<1>1. /\ pc = "options" /\ next <= Len(argv)
      /\ operation \in SectionOperations /\ ~IsOption(argv[next]) /\ pairs = <<>>
      /\ argv' = argv /\ operation' = operation /\ kinds' = kinds /\ flags' = flags
      /\ file' = file /\ object' = object /\ subObject' = subObject
  BY DEF ReadSectionOperand, InOptions
<1>2. /\ argv \in Seq(STRING) /\ Len(argv) \in Nat /\ next \in 2..Len(argv) /\ Read(next)
      /\ flags \subseteq FlagsOf(operation) /\ Begun /\ operation # "PrintExportTrie"
  BY <1>1, InTheLoop DEF TypeInv, SectionOperations
<1>3. kinds = {} /\ index = next /\ ~IsValue[next]
  BY <1>1, <1>2, InTheLoop
<1>4. CASE argv[next] = Pair
  <2>1. /\ pairs' = <<Pair>> /\ next' = next + 1 /\ index' = index + 1
        /\ pc' = pc /\ outcome' = outcome
    BY <1>4 DEF ReadSectionOperand
  <2>2. next + 1 <= Len(argv) => ~IsValue[next + 1]
    <3> SUFFICES ASSUME next + 1 <= Len(argv) PROVE ~IsValue[next + 1]
      OBVIOUS
    <3>1. next + 1 \in 1..Len(argv) /\ (next + 1) - 1 = next
      BY <1>2
    <3>2. argv[next] \notin Requirements
      BY <1>1, Arguments
    <3> QED
      BY <1>2, <3>1, <3>2, ValueAfter
  <2>3. Read(next)'
    <3>1. OperandsBefore(next) = {}
      BY <1>1, <1>2 DEF Read
    <3>2. OperandsBefore(next + 1) = {next}
      BY <1>1, <1>2, <1>3, <3>1, OneMoreOperand
    <3>3. OperandsBefore(next)' = OperandsBefore(next + 1)
      BY <1>1, <2>1, SameLine DEF OperandsBefore
    <3>4. (next + 1) - 1 = next /\ next \in 2..next /\ \A i \in 2..(next - 1) : i \in 2..next
      BY <1>2
    <3>5. flags \subseteq {argv[i] : i \in 2..(next - 1)}
      BY <1>2 DEF Read
    <3>6. flags' \subseteq {argv'[i] : i \in 2..(next' - 1)}
      BY <1>1, <2>1, <3>4, <3>5
    <3>7. next \in 2..(next' - 1) /\ argv'[next] = Pair /\ OperandsBefore(next)' = {next}
      BY <1>1, <1>4, <2>1, <3>2, <3>3, <3>4
    <3>8. pairs' # <<>>
      BY <2>1
    <3> QED
      BY <1>1, <3>6, <3>7, <3>8 DEF Read
  <2>4. \A p \in 2..Len(argv) : ProperPath(p) => next + 1 <= p
    BY <1>1, <1>2, SectionAhead
  <2>5. /\ next' \in 2..(Len(argv) + 1) /\ index' \in 1..(Len(argv) + 1) /\ index' = next'
        /\ flags' \subseteq FlagsOf(operation) /\ kinds' = {}
        /\ next' <= Len(argv) => ~IsValue[next']
        /\ \A p \in 2..Len(argv) : ProperPath(p) => next' <= p
    BY <1>1, <1>2, <1>3, <2>1, <2>2, <2>4
  <2> QED
    BY <1>1, <2>1, <2>3, <2>5, StillInTheLoop
<1>5. CASE argv[next] # Pair
  <2>1. End("refused", "NotAPair") /\ next' = next /\ index' = index /\ pairs' = pairs
    BY <1>5 DEF ReadSectionOperand
  <2>2. ASSUME NEW p \in 2..Len(argv), ProperPath(p) PROVE FALSE
    <3>1. next \in 2..(p - 1)
      BY <1>1, <1>2, <2>2, SectionAhead
    <3>2. argv[next] \in FlagsOf(operation) \/ argv[next] = Pair
      BY <1>1, <1>2, <2>2, <3>1, ProperBefore
    <3> QED
      BY <1>1, <1>5, <3>2, Arguments
  <2> QED
    BY <1>1, <2>1, <2>2, EndInTheLoop
<1> QED
  BY <1>4, <1>5

\* An option that is refused is none a proper path has before it.
LEMMA RefuseOptionKeeps == ASSUME IInv, RefuseOption PROVE IInv'
<1>1. /\ pc = "options" /\ next <= Len(argv)
      /\ IsOption(argv[next]) /\ argv[next] \notin FlagsOf(operation)
      /\ operation = "PrintExportTrie" => argv[next] \notin Requirements
      /\ End("refused", "UnrecognizedOption")
      /\ argv' = argv /\ operation' = operation /\ flags' = flags
      /\ file' = file /\ object' = object /\ subObject' = subObject
      /\ next' = next /\ index' = index
  BY DEF RefuseOption, InOptions
<1>2. /\ argv \in Seq(STRING) /\ Len(argv) \in Nat /\ next \in 2..Len(argv) /\ Begun
  BY <1>1, InTheLoop
<1>3. kinds = {} /\ ~IsValue[next]
  BY <1>1, <1>2, InTheLoop
<1>4. ASSUME NEW p \in 2..Len(argv), ProperPath(p) PROVE FALSE
  <2>1. next <= p
    BY <1>1, <1>3, <1>4, InTheLoop
  <2>2. next # p
    BY <1>1, <1>2, <1>4, ProperBefore
  <2>3. next \in 2..(p - 1)
    BY <1>2, <2>1, <2>2
  <2>4. argv[next] \in FlagsOf(operation) \/ argv[next] = Pair
        \/ (operation = "PrintExportTrie" /\ argv[next] \in Requirements)
    BY <1>2, <1>3, <1>4, <2>3, ProperBefore
  <2> QED
    BY <1>1, <2>4, Arguments
<1> QED
  BY <1>1, <1>4, EndInTheLoop

\* A kind leaves the loop at its value and the count behind it, the other
\* requirements leave both behind it.
LEMMA ReadRequirementKeeps == ASSUME IInv, ReadRequirement PROVE IInv'
<1>1. /\ pc = "options" /\ next <= Len(argv)
      /\ operation = "PrintExportTrie" /\ argv[next] \in Requirements
      /\ argv' = argv /\ operation' = operation /\ flags' = flags
      /\ file' = file /\ object' = object /\ subObject' = subObject
  BY DEF ReadRequirement, InOptions
<1>2. /\ argv \in Seq(STRING) /\ Len(argv) \in Nat /\ next \in 2..Len(argv) /\ Begun
      /\ Read(next) /\ flags \subseteq FlagsOf(operation) /\ operation \notin SectionOperations
  BY <1>1, InTheLoop DEF TypeInv, SectionOperations
<1>3. IsOption(argv[next])
  BY <1>1, Arguments
<1>4. kinds = {} /\ index = next /\ ~IsValue[next]
  BY <1>1, <1>2, <1>3, InTheLoop
<1>5. ASSUME next < Len(argv) PROVE IsValue[next + 1]
  <2>1. next + 1 \in 1..Len(argv) /\ (next + 1) - 1 = next /\ next + 1 > 2
    BY <1>2, <1>5
  <2> QED
    BY <1>1, <1>2, <1>4, <2>1, ValueAfter
<1>6. ASSUME NEW p \in 2..Len(argv), ProperPath(p)
      PROVE  next + 1 < p /\ ProperRequirement(next + 1, p)
  <2>1. next <= p
    BY <1>1, <1>4, <1>6, InTheLoop
  <2>2. next # p /\ ~IsValue[p]
    BY <1>2, <1>3, <1>6, ProperBefore
  <2>3. next < Len(argv) /\ next < p
    BY <1>2, <2>1, <2>2
  <2>4. next + 1 < p
    BY <1>2, <1>5, <2>2, <2>3
  <2>5. next + 1 \in 2..(p - 1)
    BY <1>2, <2>4
  <2> QED
    BY <1>1, <1>2, <1>5, <1>6, <2>3, <2>4, <2>5, ProperBefore
<1> DEFINE value == argv[next + 1]
<1>7. CASE ~HasNext /\ End("crashed", "NoValue") /\ UNCHANGED <<next, index, kinds, pairs>>
  <2>1. next = Len(argv)
    BY <1>2, <1>7 DEF HasNext
  <2>2. CrashReason("NoValue")
    BY <1>1, <2>1 DEF CrashReason
  <2>3. \A p \in 2..Len(argv) : ~ProperPath(p)
    <3> SUFFICES ASSUME NEW p \in 2..Len(argv), ProperPath(p) PROVE FALSE
      OBVIOUS
    <3>1. next + 1 < p
      BY <1>6
    <3> QED
      BY <1>2, <2>1, <3>1
  <2> QED
    BY <1>1, <1>7, <2>2, <2>3, EndInTheLoop
<1>8. CASE /\ HasNext /\ RequirementRefused(argv[next], Following)
           /\ End("refused", "BadRequirement")
           /\ UNCHANGED <<next, index, kinds, pairs>>
  <2>1. \A p \in 2..Len(argv) : ~ProperPath(p)
    <3> SUFFICES ASSUME NEW p \in 2..Len(argv), ProperPath(p) PROVE FALSE
      OBVIOUS
    <3>1. ProperRequirement(next + 1, p) /\ (next + 1) - 1 = next
      BY <1>2, <1>6
    <3>2. ~IsOption(value) /\ (argv[next] = "--require-section" => value = Pair)
      BY <3>1 DEF ProperRequirement
    <3> QED
      BY <1>8, <3>2 DEF RequirementRefused, Following
  <2> QED
    BY <1>1, <1>8, <2>1, EndInTheLoop
<1>9. CASE /\ HasNext /\ ~RequirementRefused(argv[next], Following)
           /\ index' = index + 2
           /\ IF argv[next] = "--require-kind"
              THEN AddKindRequirement(Following) /\ UNCHANGED pairs
              ELSE AddPairRequirement(Following) /\ UNCHANGED kinds
           /\ UNCHANGED <<pc, outcome>>
  <2>1. next < Len(argv) /\ next + 1 \in 2..Len(argv) /\ IsValue[next + 1]
    BY <1>2, <1>5, <1>9 DEF HasNext
  <2>2. OperandsBefore(next + 1) = {} /\ flags \subseteq {argv[i] : i \in 2..next}
    <3>1. OperandsBefore(next + 1) = OperandsBefore(next)
      BY <1>2, <1>3, OneMoreOperand
    <3>2. \A i \in 2..(next - 1) : i \in 2..next
      BY <1>2
    <3> QED
      BY <1>2, <3>1, <3>2 DEF Read
  <2>3. CASE argv[next] = "--require-kind"
    <3>1. ~IsOption(value)
      BY <1>4, <1>9, <2>3 DEF RequirementRefused, Following
    <3>2. next' = next + 1 /\ kinds' = {value} /\ index' = next + 2
      BY <1>4, <1>9, <2>3 DEF AddKindRequirement, Following
    <3>3. Read(next)'
      <4>1. OperandsBefore(next)' = {}
        BY <1>1, <2>2, <3>2, SameLine DEF OperandsBefore
      <4>2. next' - 1 = next
        BY <1>2, <3>2
      <4> QED
        BY <1>1, <1>2, <2>2, <4>1, <4>2 DEF Read
    <3>4. \A p \in 2..Len(argv) : ProperPath(p) => (next + 1) + 1 = p
      <4> TAKE p \in 2..Len(argv)
      <4> HAVE ProperPath(p)
      <4>1. ProperRequirement(next + 1, p) /\ (next + 1) - 1 = next
        BY <1>2, <1>6
      <4>2. next + 1 = p - 1
        BY <2>3, <4>1 DEF ProperRequirement
      <4> QED
        BY <1>2, <4>2
    <3>5. /\ next' \in 2..(Len(argv) + 1) /\ index' \in 1..(Len(argv) + 1) /\ index' = next' + 1
          /\ kinds' # {} /\ next' <= Len(argv) /\ ~IsOption(argv[next']) /\ IsValue[next']
          /\ \A p \in 2..Len(argv) : ProperPath(p) => next' + 1 = p
      BY <1>2, <2>1, <3>1, <3>2, <3>4
    <3> QED
      BY <1>1, <1>2, <1>9, <3>3, <3>5, StillInTheLoop
  <2>4. CASE argv[next] # "--require-kind"
    <3>1. next' = next + 2 /\ kinds' = {} /\ index' = next + 2
      BY <1>4, <1>9, <2>4 DEF AddPairRequirement
    <3>2. Read(next)'
      <4>1. OperandsBefore((next + 1) + 1) = {}
        BY <1>2, <2>1, <2>2, OneMoreOperand
      <4>2. next' = (next + 1) + 1 /\ \A i \in 2..next : i \in 2..(next' - 1)
        BY <1>2, <3>1
      <4>3. OperandsBefore(next)' = {}
        BY <1>1, <4>1, <4>2, SameLine DEF OperandsBefore
      <4> QED
        BY <1>1, <1>2, <2>2, <4>2, <4>3 DEF Read
    <3>3. next + 2 <= Len(argv) => ~IsValue[next + 2]
      <4> SUFFICES ASSUME next + 2 <= Len(argv) PROVE ~IsValue[next + 2]
        OBVIOUS
      <4>1. next + 2 \in 1..Len(argv) /\ (next + 2) - 1 = next + 1
        BY <1>2
      <4> QED
        BY <1>2, <2>1, <4>1, ValueAfter
    <3>4. \A p \in 2..Len(argv) : ProperPath(p) => next + 2 <= p
      <4> TAKE p \in 2..Len(argv)
      <4> HAVE ProperPath(p)
      <4>1. next + 1 < p
        BY <1>6
      <4> QED
        BY <1>2, <4>1
    <3>5. /\ next' \in 2..(Len(argv) + 1) /\ index' \in 1..(Len(argv) + 1) /\ index' = next'
          /\ next' <= Len(argv) => ~IsValue[next']
          /\ \A p \in 2..Len(argv) : ProperPath(p) => next' <= p
      BY <1>2, <2>1, <3>1, <3>3, <3>4
    <3> QED
      BY <1>1, <1>2, <1>9, <3>1, <3>2, <3>5, StillInTheLoop
  <2> QED
    BY <2>3, <2>4
<1> QED
  BY <1>7, <1>8, <1>9 DEF ReadRequirement

\* After the options, what was given is a part of what a proper path has before it.
LEMMA FlagsAreGiven ==
  ASSUME IInv, pc = "options", NEW p \in 2..Len(argv), ProperPath(p)
  PROVE  ~Conflict(operation, flags)
<1>1. /\ argv \in Seq(STRING) /\ Len(argv) \in Nat /\ next \in 2..(Len(argv) + 1) /\ Begun
      /\ Read(next) /\ next <= p
  <2>1. argv \in Seq(STRING) /\ Len(argv) \in Nat /\ next \in 2..(Len(argv) + 1) /\ Begun
        /\ Read(next) /\ (IF kinds = {} THEN next <= p ELSE next + 1 = p)
    BY InTheLoop
  <2> QED
    BY <2>1
<1>2. \A i \in 2..(next - 1) : i \in 2..(p - 1)
  BY <1>1
<1>3. flags \subseteq {argv[i] : i \in 2..(p - 1)}
  BY <1>1, <1>2 DEF Read
<1>4. ~Conflict(operation, {argv[i] : i \in 2..(p - 1)})
  BY <1>1, ProperBefore
<1> QED
  BY <1>3, <1>4 DEF Conflict

\* Where the loop ends, the count is at the path.
LEMMA EndOptionsKeeps == ASSUME IInv, EndOptions PROVE IInv'
<1>1. /\ pc = "options"
      /\ next <= Len(argv) => ~IsOption(argv[next]) /\ (operation \in SectionOperations => pairs # <<>>)
      /\ argv' = argv /\ next' = next /\ index' = index /\ operation' = operation
      /\ flags' = flags /\ kinds' = kinds /\ pairs' = pairs
      /\ file' = file /\ object' = object /\ subObject' = subObject
  BY DEF EndOptions
<1>2. /\ argv \in Seq(STRING) /\ Len(argv) \in Nat /\ next \in 2..(Len(argv) + 1) /\ Begun
      /\ NotOpened /\ Read(next) /\ flags \subseteq FlagsOf(operation)
      /\ index = IF kinds = {} THEN next ELSE next + 1
      /\ kinds # {} => /\ next <= Len(argv) /\ IsValue[next]
                       /\ operation = "PrintExportTrie" /\ operation \notin SectionOperations
      /\ kinds = {} => (next <= Len(argv) => ~IsValue[next])
      /\ index \in 2..(Len(argv) + 1)
  BY <1>1, InTheLoop DEF TypeInv, SectionOperations
<1>3. CASE Conflict(operation, flags) /\ End("refused", "Conflict")
  BY <1>1, <1>3, FlagsAreGiven, EndInTheLoop
<1>4. Read(index)    \* a value is no operand
  <2>1. CASE kinds = {}
    BY <1>2, <2>1
  <2>2. CASE kinds # {}
    <3>1. next \in 2..Len(argv) /\ IsValue[next] /\ index = next + 1 /\ index - 1 = next
      BY <1>2, <2>2
    <3>2. OperandsBefore(index) = {}
      BY <1>2, <2>2, <3>1, OneMoreOperand DEF Read
    <3>3. \A i \in 2..(next - 1) : i \in 2..(index - 1)
      BY <3>1
    <3> QED
      BY <1>2, <2>2, <3>2, <3>3 DEF Read
  <2> QED
    BY <2>1, <2>2
<1>5. CASE index > Len(argv) /\ End("crashed", "NoPath")
  <2>1. index = Len(argv) + 1
    BY <1>2, <1>5
  <2>2. OperandsBefore(index) = Operands
    <3>1. \A i \in 2..Len(argv) : i < index
      BY <1>2, <2>1
    <3> QED
      BY <3>1 DEF OperandsBefore, Operands
  <2>3. PathOperands = {}
    <3>1. CASE operation \in SectionOperations
      <4>1. Operands = {} \/ \E i \in 2..(index - 1) : Operands = {i}
        BY <1>4, <2>2 DEF Read
      <4>2. \A i, j \in Operands : i = j /\ i \in Int
        BY <4>1
      <4>3. \A i, j \in Operands : ~(j < i)
        BY <4>2
      <4> QED
        BY <1>2, <3>1, <4>3 DEF PathOperands, Begun
    <3>2. CASE operation \notin SectionOperations
      <4>1. Operands = {}
        BY <1>4, <2>2, <3>2 DEF Read
      <4> QED
        BY <4>1 DEF PathOperands
    <3> QED
      BY <3>1, <3>2
  <2>4. CrashReason("NoPath")
    BY <2>3 DEF CrashReason
  <2>5. \A p \in 2..Len(argv) : ~ProperPath(p)
    <3> SUFFICES ASSUME NEW p \in 2..Len(argv), ProperPath(p) PROVE FALSE
      OBVIOUS
    <3>1. IF kinds = {} THEN next <= p ELSE next + 1 = p
      BY <1>1, InTheLoop
    <3> QED
      BY <1>2, <2>1, <3>1
  <2> QED
    BY <1>1, <1>5, <2>4, <2>5, EndInTheLoop
<1>6. CASE index <= Len(argv) /\ pc' = "file" /\ UNCHANGED outcome
  <2>1. outcome'.how = "running" /\ pc' = "file"
    BY <1>1, <1>6 DEF IInv, TypeInv
  <2>2. TypeInv'
    <3>1. next' \in 1..(Len(argv) + 1) /\ index' \in 1..(Len(argv) + 1)
      BY <1>1, <1>2
    <3> QED
      BY <1>1, <1>2, <2>1, <3>1, TypeInTheLoop
  <2>3. ~IsValue[index]
    <3>1. CASE kinds = {}
      BY <1>2, <1>6, <3>1
    <3>2. CASE kinds # {}
      <4>1. index \in 1..Len(argv) /\ index - 1 = next /\ IsValue[next]
        BY <1>2, <1>6, <3>2
      <4> QED
        BY <1>2, <4>1, ValueAfter
    <3> QED
      BY <3>1, <3>2
  <2>4. operation \in SectionOperations => pairs # <<>>
    <3>1. operation \in SectionOperations => kinds = {} /\ index = next
      BY <1>2
    <3> QED
      BY <1>1, <1>6, <3>1
  <2>5. PathInv'
    <3>1. Begun' /\ NotOpened' /\ Read(index)' /\ IsValue' = IsValue
      <4>1. OperandsBefore(index)' = OperandsBefore(index)
        BY <1>1, SameLine DEF OperandsBefore
      <4> QED
        BY <1>1, <1>2, <1>4, <4>1, SameLine DEF Begun, NotOpened, Read
    <3>2. index' \in 2..Len(argv') /\ ~IsValue'[index']
      BY <1>1, <1>2, <1>6, <2>3, <3>1
    <3> QED
      BY <1>1, <2>1, <2>4, <3>1, <3>2 DEF PathInv
  <2>6. ASSUME NEW p \in 2..Len(argv), ProperPath(p) PROVE index = p
    <3>1. IF kinds = {} THEN next <= p ELSE next + 1 = p
      BY <1>1, <2>6, InTheLoop
    <3>2. CASE kinds # {}
      BY <1>2, <3>1, <3>2
    <3>3. CASE kinds = {}
      <4>1. index = next /\ next <= p /\ next <= Len(argv) /\ ~IsValue[next]
            /\ ~IsOption(argv[next]) /\ (operation \in SectionOperations => pairs # <<>>)
        BY <1>1, <1>2, <1>6, <3>1, <3>3
      <4> SUFFICES ASSUME next < p PROVE FALSE
        BY <1>2, <4>1
      <4>2. next \in 2..(p - 1)
        BY <1>2
      <4>3. CASE operation \in SectionOperations
        <5>1. argv[next] = Pair
          BY <1>2, <2>6, <4>1, <4>2, <4>3, ProperBefore, Arguments
        <5>2. PICK i \in 2..(next - 1) : argv[i] = Pair
          BY <1>2, <4>1, <4>3 DEF Read
        <5>3. i \in 2..(p - 1) /\ i # next
          BY <1>2, <4>2
        <5>4. PICK k \in 2..(p - 1) : \A j \in 2..(p - 1) : argv[j] = Pair <=> k = j
          BY <1>2, <2>6, <4>3, ProperBefore
        <5> QED
          BY <4>2, <5>1, <5>2, <5>3, <5>4
      <4>4. CASE operation \notin SectionOperations
        <5>1. argv[next] \in FlagsOf(operation) \cup Requirements
          BY <1>2, <2>6, <4>1, <4>2, <4>4, ProperBefore
        <5> QED
          BY <4>1, <5>1, Arguments
      <4> QED
        BY <4>3, <4>4
    <3> QED
      BY <3>2, <3>3
  <2>7. ProperInv'
    BY <1>1, <2>1, <2>6, SameLine DEF ProperInv
  <2>8. StartInv' /\ OptionsInv' /\ ChosenInv' /\ DoneInv'
    BY <2>1 DEF StartInv, OptionsInv, ChosenInv, DoneInv, RunsOnWhatWasAsked, EndsHaveAReason
  <2> QED
    BY <2>2, <2>5, <2>7, <2>8 DEF IInv
<1>7. \/ Conflict(operation, flags) /\ End("refused", "Conflict")
      \/ index > Len(argv) /\ End("crashed", "NoPath")
      \/ index <= Len(argv) /\ pc' = "file" /\ UNCHANGED outcome
  BY DEF EndOptions
<1> QED
  BY <1>3, <1>5, <1>6, <1>7

(***************************************************************************)
(* The file                                                                *)
(***************************************************************************)

\* What is no file is refused, and what cannot be mapped.
LEMMA OpenFileKeeps == ASSUME IInv, OpenFile PROVE IInv'
<1>1. /\ pc = "file" /\ argv' = argv /\ next' = next /\ index' = index /\ operation' = operation
      /\ flags' = flags /\ kinds' = kinds /\ pairs' = pairs
      /\ object' = object /\ subObject' = subObject
  BY DEF OpenFile
<1>2. /\ TypeInv /\ PathInv /\ ProperInv /\ argv \in Seq(STRING)
      /\ Begun /\ NotOpened /\ index \in 2..Len(argv)
  BY <1>1 DEF IInv, PathInv, TypeInv
<1>3. ASSUME NEW why, End("refused", why), UNCHANGED file,
             argv[index] # File \/ why \in MapErrors
      PROVE  IInv'
  <2>1. TypeInv'
    BY <1>1, <1>2, <1>3 DEF TypeInv, End
  <2>2. why \in MapErrors \/ \A p \in 2..Len(argv) : ~ProperPath(p)
    <3> SUFFICES ASSUME argv[index] # File, NEW p \in 2..Len(argv), ProperPath(p) PROVE FALSE
      BY <1>3
    <3>1. index = p
      BY <1>1, <1>2 DEF ProperInv
    <3> QED
      BY <3>1 DEF ProperPath
  <2>3. file = NoFile
    BY <1>2 DEF NotOpened
  <2> QED
    BY <1>1, <1>3, <2>1, <2>2, <2>3, EndBeforeFile
<1>4. CASE /\ argv[index] = File /\ file' \in Files
           /\ pc' = "object" /\ UNCHANGED outcome
  <2>1. outcome'.how = "running" /\ pc' = "object"
    BY <1>1, <1>2, <1>4 DEF TypeInv
  <2>2. object' = Null /\ subObject' = Null
    BY <1>1, <1>2 DEF NotOpened
  <2>3. TypeInv'
    BY <1>1, <1>2, <1>4, <2>1, <2>2 DEF TypeInv
  <2>4. PathInv'
    <3>1. OperandsBefore(index)' = OperandsBefore(index)
      BY <1>1, SameLine DEF OperandsBefore
    <3>2. Begun' /\ Read(index)' /\ IsValue' = IsValue
      BY <1>1, <1>2, <3>1, SameLine DEF Begun, Read, PathInv
    <3> QED
      BY <1>1, <1>2, <1>4, <2>1, <2>2, <3>2 DEF PathInv
  <2>5. ProperInv'
    BY <1>1, <1>2, <2>1, SameLine DEF ProperInv
  <2>6. StartInv' /\ OptionsInv' /\ ChosenInv' /\ DoneInv'
    BY <2>1 DEF StartInv, OptionsInv, ChosenInv, DoneInv, RunsOnWhatWasAsked, EndsHaveAReason
  <2> QED
    BY <2>3, <2>4, <2>5, <2>6 DEF IInv
<1>5. \/ argv[index] # File /\ End("refused", "CannotOpen") /\ UNCHANGED file
      \/ (\E error \in MapErrors : End("refused", error)) /\ UNCHANGED file
      \/ /\ argv[index] = File /\ file' \in Files
         /\ pc' = "object" /\ UNCHANGED outcome
  BY DEF OpenFile
<1> QED
  BY <1>3, <1>4, <1>5

\* What is opened as an object is what the file begins with.
LEMMA OpenObjectOfFileKeeps == ASSUME IInv, OpenObjectOfFile PROVE IInv'
<1>1. /\ pc = "object" /\ argv' = argv /\ index' = index /\ operation' = operation
      /\ flags' = flags /\ kinds' = kinds /\ pairs' = pairs /\ file' = file
      /\ object' = OpenObject(file) /\ subObject' = object' /\ next' = index + 1
  BY DEF OpenObjectOfFile
<1>2. /\ TypeInv /\ PathInv /\ ProperInv /\ argv \in Seq(STRING)
      /\ Begun /\ file \in Files /\ index \in 2..Len(argv)
  BY <1>1 DEF IInv, PathInv, TypeInv
<1>3. object'.kind \in {"None", "MachO", "FatMachO", "DyldSharedCache"}
      /\ (ProperFile => object'.error = "None")
  BY <1>1, <1>2, OpenedIsSound, ProperIsOpened
<1>4. ASSUME outcome'.how \in {"running", "refused", "crashed"}, pc' \in {"path", "done"},
             outcome'.how = "running" <=> pc' # "done"
      PROVE  TypeInv'
  <2>1. next' \in 1..(Len(argv) + 1)
    BY <1>1, <1>2
  <2> QED
    BY <1>1, <1>2, <1>3, <1>4, <2>1 DEF TypeInv, Kinds
<1>5. CASE object'.error = "None"
  <2>1. pc' = "path" /\ outcome' = outcome
    BY <1>5 DEF OpenObjectOfFile
  <2>2. outcome'.how = "running" /\ pc' = "path"
    BY <1>1, <1>2, <2>1 DEF TypeInv
  <2>3. TypeInv'
    BY <1>4, <2>2
  <2>4. PathInv'
    <3>1. OperandsBefore(index)' = OperandsBefore(index)
      BY <1>1, SameLine DEF OperandsBefore
    <3>2. Begun' /\ Read(index)' /\ IsValue' = IsValue
      BY <1>1, <1>2, <3>1, SameLine DEF Begun, Read, PathInv
    <3> QED
      BY <1>1, <1>2, <2>2, <3>2 DEF PathInv
  <2>5. ChosenInv'
    <3>1. next' > index' /\ next' - index' = 1 /\ next' = index' + 1
          /\ \A i \in (index' + 1)..(next' - 1) : FALSE
      BY <1>1, <1>2
    <3>2. (next' - index') % 2 = 1
      BY <3>1
    <3> QED
      BY <1>1, <1>5, <3>1, <3>2 DEF ChosenInv
  <2>6. ProperInv'
    BY <1>1, <1>2, <2>2, SameLine DEF ProperInv
  <2>7. StartInv' /\ OptionsInv' /\ DoneInv'
    BY <2>2 DEF StartInv, OptionsInv, DoneInv, RunsOnWhatWasAsked, EndsHaveAReason
  <2> QED
    BY <2>3, <2>4, <2>5, <2>6, <2>7 DEF IInv
<1>6. CASE object'.error # "None"
  <2>1. PICK why : End("crashed", "ObjectError") \/ End("refused", why)
    BY <1>6 DEF OpenObjectOfFile
  <2>2. TypeInv'
    BY <1>4, <2>1 DEF End
  <2>3. ~ProperFile /\ CrashReason("ObjectError")
    BY <1>3, <1>6 DEF CrashReason
  <2> QED
    BY <1>1, <1>2, <2>1, <2>2, <2>3, EndAfterFile
<1> QED
  BY <1>5, <1>6

(***************************************************************************)
(* The options of the path                                                 *)
(***************************************************************************)

\* The object that is there, and where the loop stands.
LEMMA OnThePath ==
  ASSUME IInv, pc = "path"
  PROVE  /\ TypeInv /\ argv \in Seq(STRING) /\ Len(argv) \in Nat /\ Begun
         /\ index \in 2..Len(argv) /\ argv[index] = File /\ ~IsValue[index] /\ Read(index)
         /\ operation \in SectionOperations => pairs # <<>>
         /\ next \in 3..(Len(argv) + 1) /\ next > index /\ (next - index) % 2 = 1
         /\ file \in Files /\ IsOpen(file) /\ object = OpenObject(file)
         /\ object.error = "None" /\ object.map = WholeFile(file)
         /\ \/ object.kind = "MachO" /\ HeaderAt(file, 0).magic = "macho"
            \/ object.kind = "FatMachO" /\ HeaderAt(file, 0).magic = "fat"
            \/ object.kind = "DyldSharedCache" /\ HeaderAt(file, 0).magic = "cache"
         /\ \A p \in 2..Len(argv) : ProperPath(p) => index = p
<1>1. TypeInv /\ PathInv /\ ChosenInv /\ ProperInv
  BY DEF IInv
<1>2. argv \in Seq(STRING) /\ next \in 1..(Len(argv) + 1)
  BY <1>1 DEF TypeInv
<1>3. Len(argv) \in Nat
  BY <1>2
<1>4. /\ Begun /\ index \in 2..Len(argv) /\ ~IsValue[index] /\ Read(index)
      /\ operation \in SectionOperations => pairs # <<>>
      /\ argv[index] = File /\ file \in Files
  BY <1>1 DEF PathInv
<1>5. /\ object = OpenObject(file) /\ object.error = "None"
      /\ next > index /\ (next - index) % 2 = 1
  BY <1>1 DEF ChosenInv
<1>6. /\ object.map = WholeFile(file)
      /\ \/ object.kind = "MachO" /\ HeaderAt(file, 0).magic = "macho"
         \/ object.kind = "FatMachO" /\ HeaderAt(file, 0).magic = "fat"
         \/ object.kind = "DyldSharedCache" /\ HeaderAt(file, 0).magic = "cache"
  BY <1>4, <1>5, OpenedIsSound
<1>7. next \in 3..(Len(argv) + 1)
  BY <1>2, <1>3, <1>4, <1>5
<1>8. \A p \in 2..Len(argv) : ProperPath(p) => index = p
  BY <1>1 DEF ProperInv
<1> QED
  BY <1>1, <1>2, <1>3, <1>4, <1>5, <1>6, <1>7, <1>8 DEF IsOpen

\* On a proper line the next two arguments are a choice.
LEMMA NextIsProper ==
  ASSUME IInv, pc = "path", next <= Len(argv), ProperLine
  PROVE  next < Len(argv) /\ ProperChoice(argv[next], argv[next + 1])
<1>1. /\ Len(argv) \in Nat /\ index \in 2..Len(argv) /\ next \in 3..(Len(argv) + 1)
      /\ next > index /\ (next - index) % 2 = 1
  BY OnThePath
<1>2. PICK p \in 2..Len(argv) :
        /\ ProperPath(p) /\ (Len(argv) - p) % 2 = 0
        /\ \A i \in (p + 1)..Len(argv) : (i - p) % 2 = 1 => ProperChoice(argv[i], argv[i + 1])
  BY DEF ProperLine
<1>3. index = p
  BY <1>2, OnThePath
<1>4. next # Len(argv)
  BY <1>1, <1>2, <1>3
<1>5. next \in (p + 1)..Len(argv) /\ next < Len(argv)
  BY <1>1, <1>3, <1>4
<1> QED
  BY <1>1, <1>2, <1>3, <1>5

\* An end on the path.
LEMMA EndOnThePath ==
  ASSUME IInv, pc = "path", NEW how \in {"refused", "crashed"}, NEW why, End(how, why),
         argv' = argv, next' = next, index' = index, operation' = operation,
         flags' = flags, file' = file, object' = object, subObject' = subObject,
         why = "OldCacheCounted" \/ ~ProperLine \/ ~ProperFile,
         how = "crashed" => CrashReason(why)
  PROVE  IInv'
<1>1. TypeInv /\ file \in Files
  BY OnThePath
<1>2. TypeInv'
  BY <1>1 DEF TypeInv, End
<1> QED
  BY <1>1, <1>2, EndAfterFile

\* A choice that was made.
LEMMA ChoiceKeeps ==
  ASSUME IInv, pc = "path", next < Len(argv), next' = next + 2,
         pc' = pc, argv' = argv, index' = index, operation' = operation,
         flags' = flags, kinds' = kinds, pairs' = pairs,
         file' = file, object' = object, outcome' = outcome,
         argv[next] \in {"-arch", "-image"}, argv[next + 1] \notin {"-arch", "-image"},
         subObject'.kind \in Kinds,
         NEW argument, argument = argv[next + 1],
         IF argv[next] = "-arch" THEN IsTheArch(argument)' ELSE IsTheImage(argument)'
  PROVE  IInv'
<1>1. /\ TypeInv /\ Len(argv) \in Nat /\ index \in 2..Len(argv) /\ next \in 3..(Len(argv) + 1)
      /\ next > index /\ (next - index) % 2 = 1 /\ ChosenInv /\ PathInv /\ ProperInv
  BY OnThePath DEF IInv
<1>2. next' \in 1..(Len(argv) + 1) /\ next' > index /\ next' - index = 2 + (next - index)
      /\ next' - 1 = next + 1 /\ next' - 2 = next /\ next' # index + 1
  BY <1>1
<1>3. TypeInv'
  BY <1>1, <1>2 DEF TypeInv
<1>4. PathInv'
  <2>1. OperandsBefore(index)' = OperandsBefore(index)
    BY SameLine DEF OperandsBefore
  <2>2. Begun' /\ Read(index)' /\ IsValue' = IsValue
    BY <1>1, <2>1, SameLine DEF Begun, Read, PathInv
  <2> QED
    BY <1>1, <2>2 DEF PathInv
<1>5. ChosenInv'
  <2>1. (next' - index') % 2 = 1
    <3>1. PICK d \in Nat : d = next - index
      BY <1>1
    <3>2. d % 2 = 1 /\ next' - index' = d + 2
      BY <1>1, <1>2, <3>1
    <3> QED
      BY <3>1, <3>2
  <2>2. \A i \in (index + 1)..(next' - 1) : argv[i] \in {"-arch", "-image"} => i <= next' - 2
    <3> TAKE i \in (index + 1)..(next' - 1)
    <3> HAVE argv[i] \in {"-arch", "-image"}
    <3>1. i # next + 1
      OBVIOUS
    <3> QED
      BY <1>1, <1>2, <3>1
  <2>3. object = OpenObject(file) /\ object.error = "None"
    BY <1>1 DEF ChosenInv
  <2>4. argv[next' - 1] = argument /\ argv[next' - 2] = argv[next]
    BY <1>2
  <2>5. IF argv'[next' - 2] = "-arch" THEN IsTheArch(argv[next - 1])' ELSE IsTheImage(argv[next - 1])'
    BY <2>4
  <2> QED
    BY <1>2, <2>1, <2>2, <2>3, <2>4, <2>5 DEF ChosenInv
<1>6. ProperInv'
  BY <1>1, SameLine DEF ProperInv
<1>7. outcome'.how = "running" /\ pc' = "path"
  BY <1>1 DEF TypeInv
<1>8. StartInv' /\ OptionsInv' /\ DoneInv'
  BY <1>7 DEF StartInv, OptionsInv, DoneInv, RunsOnWhatWasAsked, EndsHaveAReason
<1> QED
  BY <1>3, <1>4, <1>5, <1>6, <1>8 DEF IInv

\* An option of the path that is refused is no proper choice.
LEMMA RefusePathOptionKeeps == ASSUME IInv, RefusePathOption PROVE IInv'
<1>1. /\ pc = "path" /\ next <= Len(argv)
      /\ argv' = argv /\ next' = next /\ index' = index /\ operation' = operation
      /\ flags' = flags /\ file' = file /\ object' = object /\ subObject' = subObject
  BY DEF RefusePathOption, InPathOptions
<1>2. \/ End("refused", "NotAPathOption") \/ End("refused", "UnrecognizedPathOption")
      \/ End("refused", "ArchNotAllowed") \/ End("refused", "ImageNotAllowed")
      \/ End("refused", "NoNumber")
  BY DEF RefusePathOption
<1>3. ~ProperLine
  <2> SUFFICES ASSUME ProperLine PROVE FALSE
    OBVIOUS
  <2>1. next < Len(argv) /\ ProperChoice(argv[next], argv[next + 1])
    BY <1>1, NextIsProper
  <2>2. \/ HeaderAt(file, 0).magic = "fat" /\ argv[next] = "-arch"
        \/ HeaderAt(file, 0).magic = "cache" /\ argv[next] = "-image"
    BY <2>1 DEF ProperChoice
  <2>3. \/ object.kind = "FatMachO" /\ argv[next] = "-arch"
        \/ object.kind = "DyldSharedCache" /\ argv[next] = "-image"
    BY <1>1, <2>2, OnThePath
  <2>4. IsOption("-arch") /\ IsOption("-image")
    BY DEF IsOption
  <2> QED
    BY <2>1, <2>3, <2>4 DEF RefusePathOption, HasNext
<1> QED
  BY <1>1, <1>2, <1>3, EndOnThePath

\* A number or the path of an image is not an option of the path.
LEMMA NotAChoice ==
  /\ \A argument : IsNumber(argument) => argument \notin {"-arch", "-image"}
  /\ \A argument \in ImagePaths : argument \notin {"-arch", "-image"}
<1>1. IsOption("-arch") /\ IsOption("-image")
  BY DEF IsOption
<1> QED
  BY <1>1, Arguments DEF IsNumber

\* A choice of what is not there: it has moved on before it ends.
LEMMA EndOfAChoice ==
  ASSUME IInv, pc = "path", next < Len(argv), next' = next + 2,
         NEW how \in {"refused", "crashed"}, NEW why, End(how, why),
         argv' = argv, index' = index, operation' = operation,
         flags' = flags, file' = file, object' = object, subObject' = subObject,
         ~ProperFile, how = "crashed" => CrashReason(why)
  PROVE  IInv'
<1>1. TypeInv /\ file \in Files /\ next \in 3..(Len(argv) + 1) /\ Len(argv) \in Nat
  BY OnThePath
<1>2. next' \in 1..(Len(argv) + 1)
  BY <1>1
<1>3. TypeInv'
  BY <1>1, <1>2 DEF TypeInv, End
<1> QED
  BY <1>1, <1>3, EndAfterFile

\* The number of an arch, after -arch, chooses it.
LEMMA ChooseArchKeeps == ASSUME IInv, ChooseArch PROVE IInv'
<1> DEFINE archs == HeaderAt(file, 0).archs
           number == ParseNumber(Following)
           chosen == GetArchObject(file, archs[number])
<1>1. /\ pc = "path" /\ next <= Len(argv) /\ next < Len(argv)
      /\ argv[next] = "-arch" /\ object.kind = "FatMachO"
      /\ argv' = argv /\ index' = index /\ operation' = operation
      /\ flags' = flags /\ kinds' = kinds /\ pairs' = pairs /\ file' = file /\ object' = object
  BY DEF ChooseArch, InPathOptions, HasNext
<1>2. HeaderAt(file, 0).magic = "fat" /\ IsOpen(file) /\ Following = argv[next + 1]
  BY <1>1, OnThePath DEF Following
<1>3. ProperLine => IsNumber(Following) /\ number \in DOMAIN archs
  BY <1>1, <1>2, NextIsProper DEF ProperChoice
<1>4. CASE /\ End("refused", "NotANumber") \/ End("refused", "NoSuchArch")
           /\ ~IsNumber(Following) \/ number \notin DOMAIN archs
           /\ UNCHANGED <<next, subObject>>
  <2>1. ~ProperLine
    BY <1>3, <1>4
  <2> QED
    BY <1>1, <1>4, <2>1, EndOnThePath
<1>5. CASE IsNumber(Following) /\ number \in DOMAIN archs /\ Choose(chosen, "ArchWithoutObject")
  <2>1. CASE chosen.error = "None"
    <3>1. next' = next + 2 /\ subObject' = chosen /\ pc' = pc /\ outcome' = outcome
      BY <1>5, <2>1 DEF Choose
    <3>2. chosen = Object("MachO", ArchRange(archs[number]))
          /\ SoundMachO(HeaderAt(file, archs[number].offset), ArchRange(archs[number]))
      BY <1>2, <1>5, <2>1, ArchIsThere
    <3>3. subObject'.kind = "MachO" /\ subObject'.map = ArchRange(archs[number])
      BY <3>1, <3>2 DEF Object
    <3>4. PICK argument : argument = argv[next + 1]
      OBVIOUS
    <3>5. IsTheArch(argument)'
      <4>1. \A h, m : SoundMachO(h, m)' = SoundMachO(h, m)
        BY <1>1 DEF SoundMachO, InFile
      <4> QED
        BY <1>1, <1>2, <3>2, <3>3, <3>4, <4>1 DEF IsTheArch
    <3>6. argv[next + 1] \notin {"-arch", "-image"}
      BY <1>2, <1>5, NotAChoice
    <3> QED
      BY <1>1, <3>1, <3>3, <3>4, <3>5, <3>6, ChoiceKeeps DEF Kinds
  <2>2. CASE chosen.error # "None"
    <3>1. UNCHANGED subObject
      BY <1>5, <2>2 DEF Choose
    <3>2. PICK why : End("crashed", "ArchWithoutObject") \/ End("refused", why)
      BY <1>5, <2>2 DEF Choose
    <3>3. ~ProperFile
      BY <1>2, <1>5, <2>2, ProperArch
    <3>4. CrashReason("ArchWithoutObject")
      BY <1>2, <3>3 DEF CrashReason
    <3>5. next' = next + 2
      BY <1>5 DEF Choose
    <3> QED
      BY <1>1, <3>1, <3>2, <3>3, <3>4, <3>5, EndOfAChoice
  <2> QED
    BY <2>1, <2>2
<1>6. \/ ~IsNumber(Following) /\ End("refused", "NotANumber") /\ UNCHANGED <<next, subObject>>
      \/ number \notin DOMAIN archs /\ End("refused", "NoSuchArch") /\ UNCHANGED <<next, subObject>>
      \/ IsNumber(Following) /\ number \in DOMAIN archs /\ Choose(chosen, "ArchWithoutObject")
  BY DEF ChooseArch
<1> QED
  BY <1>4, <1>5, <1>6

\* What is chosen of a cache, when its image is there and when it is not.
LEMMA ImageChoice ==
  ASSUME IInv, pc = "path", next < Len(argv), argv[next] = "-image",
         object.kind = "DyldSharedCache",
         argv' = argv, index' = index, operation' = operation,
         flags' = flags, kinds' = kinds, pairs' = pairs, file' = file, object' = object,
         NEW i \in DOMAIN HeaderAt(file, 0).images,
         Choose(GetImage(file, HeaderAt(file, 0).images[i]), "ImageOutsideFile"),
         NamesImage(Following, i), IsNumber(Following) \/ Following \in ImagePaths
  PROVE  IInv'
<1> DEFINE cache == HeaderAt(file, 0)
           chosen == GetImage(file, cache.images[i])
<1>1. cache.magic = "cache" /\ IsOpen(file) /\ Following = argv[next + 1]
  BY OnThePath DEF Following
<1>2. CASE chosen.error = "None"
  <2>1. next' = next + 2 /\ subObject' = chosen /\ pc' = pc /\ outcome' = outcome
    BY <1>2 DEF Choose
  <2>2. /\ chosen.kind = "DscImage" /\ InFile(chosen.map) /\ chosen.map.size > 0
        /\ HeaderAt(file, chosen.map.begin).dylib /\ HeaderAt(file, chosen.map.begin).inCache
        /\ \E m \in DOMAIN cache.mappings :
             cache.images[i].address - cache.mappings[m].address
               = chosen.map.begin - cache.mappings[m].offset
    BY <1>1, <1>2, ImageIsThere
  <2>3. PICK argument : argument = argv[next + 1]
    OBVIOUS
  <2>4. \A r : InFile(r)' = InFile(r)
    BY DEF InFile
  <2>5. NamesImage(argument, i)'
    BY <1>1, <2>3 DEF NamesImage
  <2>6. HeaderAt(file', 0) = cache
    OBVIOUS
  <2> HIDE DEF cache, chosen
  <2>7. IsTheImage(argument)'
    <3>1. PICK m \in DOMAIN cache.mappings :
            cache.images[i].address - cache.mappings[m].address
              = chosen.map.begin - cache.mappings[m].offset
      BY <2>2
    <3>2. i \in DOMAIN cache.images
      BY DEF cache
    <3>3. subObject'.kind = "DscImage" /\ InFile(subObject.map)' /\ subObject'.map.size > 0
          /\ HeaderAt(file', subObject'.map.begin).dylib
          /\ HeaderAt(file', subObject'.map.begin).inCache
      BY <2>1, <2>2, <2>4
    <3>4. cache.images[i].address - cache.mappings[m].address
            = subObject'.map.begin - cache.mappings[m].offset
      BY <2>1, <3>1
    <3> QED
      BY <2>5, <2>6, <3>2, <3>3, <3>4 DEF IsTheImage
  <2>8. argv[next + 1] \notin {"-arch", "-image"}
    BY <1>1, NotAChoice
  <2>9. subObject'.kind \in Kinds
    BY <2>1, <2>2 DEF Kinds
  <2> QED
    BY <2>1, <2>3, <2>7, <2>8, <2>9, ChoiceKeeps
<1>3. CASE chosen.error # "None"
  <2>1. UNCHANGED subObject /\ next' = next + 2
    BY <1>3 DEF Choose
  <2>2. PICK why : End("crashed", "ImageOutsideFile") \/ End("refused", why)
    BY <1>3 DEF Choose
  <2>3. ~ProperFile
    BY <1>1, <1>3 DEF ProperFile
  <2>4. CrashReason("ImageOutsideFile")
    BY <1>1, <2>3 DEF CrashReason
  <2> QED
    BY <2>1, <2>2, <2>3, <2>4, EndOfAChoice
<1> QED
  BY <1>2, <1>3

\* On a proper line the option of a cache names one of its images.
LEMMA ProperImage ==
  ASSUME IInv, pc = "path", next < Len(argv), object.kind = "DyldSharedCache", ProperLine
  PROVE  /\ Following \in ImagePaths \/ IsNumber(Following)
         /\ \E i \in DOMAIN HeaderAt(file, 0).images : NamesImage(Following, i)
<1>1. HeaderAt(file, 0).magic = "cache" /\ next <= Len(argv) /\ Following = argv[next + 1]
  BY OnThePath DEF Following
<1> QED
  BY <1>1, NextIsProper DEF ProperChoice

\* An image of a cache is chosen by its number, once the cache can be counted.
LEMMA ChooseImageByNumberKeeps == ASSUME IInv, ChooseImageByNumber PROVE IInv'
<1> DEFINE header == HeaderAt(file, 0)
           number == ParseNumber(Following)
<1>1. /\ pc = "path" /\ next <= Len(argv) /\ next < Len(argv)
      /\ argv[next] = "-image" /\ object.kind = "DyldSharedCache" /\ Following \notin ImagePaths
      /\ argv' = argv /\ index' = index /\ operation' = operation
      /\ flags' = flags /\ kinds' = kinds /\ pairs' = pairs /\ file' = file /\ object' = object
  BY DEF ChooseImageByNumber, InPathOptions, HasNext
<1>2. ProperLine => IsNumber(Following) /\ number \in DOMAIN header.images
  BY <1>1, ProperImage DEF NamesImage
<1>3. CASE /\ \/ End("refused", "NotANumber") /\ ~IsNumber(Following)
              \/ End("refused", "NoSuchImage") /\ number \notin DOMAIN header.images
           /\ UNCHANGED <<next, subObject>>
  <2>1. ~ProperLine
    BY <1>2, <1>3
  <2> QED
    BY <1>1, <1>3, <2>1, EndOnThePath
<1>4. CASE End("crashed", "OldCacheCounted") /\ ~IsV8(header) /\ UNCHANGED <<next, subObject>>
  <2>1. CrashReason("OldCacheCounted")
    BY <1>4 DEF CrashReason
  <2> QED
    BY <1>1, <1>4, <2>1, EndOnThePath
<1>5. CASE /\ IsNumber(Following) /\ number \in DOMAIN header.images
           /\ Choose(GetImage(file, header.images[number]), "ImageOutsideFile")
  <2>1. NamesImage(Following, number)
    BY <1>1 DEF NamesImage
  <2> QED
    BY <1>1, <1>5, <2>1, ImageChoice
<1>6. \/ ~IsNumber(Following) /\ End("refused", "NotANumber") /\ UNCHANGED <<next, subObject>>
      \/ ~IsV8(header) /\ End("crashed", "OldCacheCounted") /\ UNCHANGED <<next, subObject>>
      \/ /\ number \notin DOMAIN header.images
         /\ End("refused", "NoSuchImage") /\ UNCHANGED <<next, subObject>>
      \/ /\ IsNumber(Following) /\ number \in DOMAIN header.images
         /\ Choose(GetImage(file, header.images[number]), "ImageOutsideFile")
  BY DEF ChooseImageByNumber
<1> QED
  BY <1>3, <1>4, <1>5, <1>6

\* The first image of a path is chosen.
LEMMA ChooseImageByPathKeeps == ASSUME IInv, ChooseImageByPath PROVE IInv'
<1> DEFINE header == HeaderAt(file, 0)
<1>1. /\ pc = "path" /\ next <= Len(argv) /\ next < Len(argv)
      /\ argv[next] = "-image" /\ object.kind = "DyldSharedCache" /\ Following \in ImagePaths
      /\ argv' = argv /\ index' = index /\ operation' = operation
      /\ flags' = flags /\ kinds' = kinds /\ pairs' = pairs /\ file' = file /\ object' = object
  BY DEF ChooseImageByPath, InPathOptions, HasNext
<1>2. CASE /\ ImagesOfPath(Following) = {}
           /\ End("refused", "NoImageOfPath")
           /\ UNCHANGED <<next, subObject>>
  <2>1. ~ProperLine
    <3> SUFFICES ASSUME ProperLine PROVE FALSE
      OBVIOUS
    <3>1. PICK i \in DOMAIN header.images : NamesImage(Following, i)
      BY <1>1, ProperImage
    <3>2. i \in ImagesOfPath(Following)
      BY <1>1, <3>1 DEF NamesImage, ImagesOfPath
    <3> QED
      BY <1>2, <3>2
  <2> QED
    BY <1>1, <1>2, <2>1, EndOnThePath
<1>3. CASE /\ ImagesOfPath(Following) # {}
           /\ Choose(GetImage(file, header.images[First(ImagesOfPath(Following))]),
                     "ImageOutsideFile")
  <2>1. ImagesOfPath(Following) \in SUBSET Nat
    <3>1. HeaderAt(file, 0).magic = "cache" /\ IsHeader(HeaderAt(file, 0))
      BY <1>1, OnThePath, FileFacts
    <3>2. DOMAIN HeaderAt(file, 0).images = 1..Len(HeaderAt(file, 0).images)
      BY <3>1, CacheHeader
    <3> QED
      BY <3>2 DEF ImagesOfPath
  <2>2. First(ImagesOfPath(Following)) \in ImagesOfPath(Following)
    BY <1>3, <2>1, FirstIsLeast
  <2>3. First(ImagesOfPath(Following)) \in DOMAIN header.images
        /\ NamesImage(Following, First(ImagesOfPath(Following)))
    BY <1>1, <2>2 DEF ImagesOfPath, NamesImage
  <2> QED
    BY <1>1, <1>3, <2>3, ImageChoice
<1> QED
  BY <1>2, <1>3 DEF ChooseImageByPath

(***************************************************************************)
(* The run                                                                 *)
(***************************************************************************)

\* The path that was found is the one the usage says.
LEMMA PathIsOperand ==
  ASSUME IInv, pc = "path"
  PROVE  PathOperand = index
<1>1. /\ Len(argv) \in Nat /\ Begun /\ index \in 2..Len(argv) /\ argv[index] = File
      /\ ~IsValue[index] /\ Read(index)
      /\ operation \in SectionOperations => pairs # <<>>
  BY OnThePath
<1>2. index \in Operands
  BY <1>1, Arguments DEF Operands
<1>3. Operands \in SUBSET Nat
  BY <1>1 DEF Operands
<1>4. index \in PathOperands /\ \A k \in PathOperands : index <= k
  <2>1. CASE operation \in SectionOperations
    <3>1. PICK i \in 2..(index - 1) : OperandsBefore(index) = {i}
      BY <1>1, <2>1 DEF Read
    <3>2. i < index /\ i \in Operands
      BY <3>1 DEF OperandsBefore
    <3>3. index \in PathOperands
      BY <1>2, <3>2 DEF PathOperands
    <3>4. ASSUME NEW k \in PathOperands, k < index PROVE FALSE
      <4>1. k \in Operands /\ \E j \in Operands : j < k
        BY <1>1, <2>1, <3>4 DEF PathOperands, Begun
      <4>2. PICK j \in Operands : j < k
        BY <4>1
      <4>3. k \in OperandsBefore(index) /\ j \in OperandsBefore(index)
        BY <1>1, <1>3, <3>4, <4>1, <4>2 DEF OperandsBefore
      <4> QED
        BY <1>3, <3>1, <4>1, <4>2, <4>3
    <3>5. PathOperands \in SUBSET Nat
      BY <1>3 DEF PathOperands
    <3> QED
      BY <1>1, <3>3, <3>4, <3>5
  <2>2. CASE operation \notin SectionOperations
    <3>1. OperandsBefore(index) = {}
      BY <1>1, <2>2 DEF Read
    <3>2. index \in PathOperands
      BY <1>1, <1>2, <2>2 DEF PathOperands, Begun
    <3>3. \A k \in Operands : ~(k < index)
      BY <3>1 DEF OperandsBefore
    <3>4. \A k \in PathOperands : k \in Operands /\ k \in Nat
      BY <1>3 DEF PathOperands
    <3> QED
      BY <1>1, <3>2, <3>3, <3>4
  <2> QED
    BY <2>1, <2>2
<1>5. PathOperands \in SUBSET Nat
  BY <1>3 DEF PathOperands
<1> QED
  BY <1>4, <1>5, FirstIs DEF PathOperand

\* At the end of the line what was chosen is what the last choice names.
LEMMA ChosenIsAsked ==
  ASSUME IInv, pc = "path", next > Len(argv)
  PROVE  /\ argv[PathOperand] = File
         /\ IF Choices = {} THEN subObject = object /\ object.map = WholeFile(file)
            ELSE IF argv[LastChoice] = "-arch" THEN IsTheArch(argv[LastChoice + 1])
            ELSE IsTheImage(argv[LastChoice + 1])
<1>1. /\ Len(argv) \in Nat /\ index \in 2..Len(argv) /\ argv[index] = File
      /\ next \in 3..(Len(argv) + 1) /\ next > index /\ (next - index) % 2 = 1
      /\ object.map = WholeFile(file)
  BY OnThePath
<1>2. next = Len(argv) + 1 /\ PathOperand = index
  BY <1>1, PathIsOperand
<1>3. /\ IF next = index + 1 THEN subObject = object
         ELSE /\ argv[next - 2] \in {"-arch", "-image"}
              /\ IF argv[next - 2] = "-arch" THEN IsTheArch(argv[next - 1])
                 ELSE IsTheImage(argv[next - 1])
      /\ \A i \in (index + 1)..(next - 1) : argv[i] \in {"-arch", "-image"} => i <= next - 2
  BY DEF IInv, ChosenInv
<1>4. Choices = {i \in (index + 1)..(next - 1) : argv[i] \in {"-arch", "-image"}}
  <2>1. next - 1 = Len(argv)
    BY <1>1, <1>2
  <2> QED
    BY <1>2, <2>1 DEF Choices
<1>5. CASE next = index + 1
  <2>1. Choices = {}
    BY <1>1, <1>4, <1>5
  <2> QED
    BY <1>1, <1>2, <1>3, <1>5, <2>1
<1>6. CASE next # index + 1
  <2>1. next # index + 2
    <3> SUFFICES ASSUME next = index + 2 PROVE FALSE
      OBVIOUS
    <3>1. next - index = 2
      BY <1>1
    <3> QED
      BY <1>1, <3>1
  <2>2. next - 2 \in (index + 1)..(next - 1)
    BY <1>1, <1>6, <2>1
  <2>3. next - 2 \in Choices /\ \A j \in Choices : j <= next - 2
    BY <1>3, <1>4, <1>6, <2>2
  <2>4. Choices \in SUBSET Int
    BY <1>1, <1>4
  <2>5. LastChoice = next - 2
    <3>1. LastChoice \in Choices /\ \A j \in Choices : j <= LastChoice
      BY <2>3 DEF LastChoice
    <3>2. LastChoice <= next - 2 /\ next - 2 <= LastChoice /\ LastChoice \in Int
      BY <2>3, <2>4, <3>1
    <3> QED
      BY <1>1, <3>2
  <2>6. LastChoice + 1 = next - 1
    BY <1>1, <2>5
  <2> QED
    BY <1>1, <1>2, <1>3, <1>6, <2>3, <2>5, <2>6
<1> QED
  BY <1>5, <1>6

\* Run ends with what was asked, and its advice leads on.
LEMMA RunKeeps == ASSUME IInv, Run PROVE IInv'
<1> DEFINE kind == subObject.kind
           advice == Advice(operation, kind)
<1>1. /\ pc = "path" /\ next > Len(argv)
      /\ argv' = argv /\ next' = next /\ index' = index /\ operation' = operation
      /\ flags' = flags /\ kinds' = kinds /\ pairs' = pairs
      /\ file' = file /\ object' = object /\ subObject' = subObject
  BY DEF Run
<1>2. /\ TypeInv /\ file \in Files /\ ChosenInv
      /\ object.kind \in {"MachO", "FatMachO", "DyldSharedCache"}
  BY <1>1, OnThePath DEF IInv
<1>3. kind \in {"MachO", "FatMachO", "DyldSharedCache", "DscImage"}
  BY <1>1, <1>2 DEF ChosenInv, IsTheArch, IsTheImage
<1>4. RunsOnWhatWasAsked'
  <2>1. /\ argv'[PathOperand'] = File
        /\ IF Choices' = {} THEN subObject' = object' /\ object'.map = WholeFile(file')
           ELSE IF argv'[LastChoice'] = "-arch" THEN IsTheArch(argv[LastChoice + 1])'
           ELSE IsTheImage(argv[LastChoice + 1])'
    <3>1. /\ PathOperand' = PathOperand /\ Choices' = Choices /\ LastChoice' = LastChoice
          /\ \A a : IsTheArch(a)' = IsTheArch(a) /\ IsTheImage(a)' = IsTheImage(a)
      BY <1>1, SameLine, SameObject
    <3>2. PICK a : a = argv[LastChoice + 1]
      OBVIOUS
    <3>3. argv'[LastChoice' + 1] = a
      BY <1>1, <3>1, <3>2
    <3>4. /\ argv[PathOperand] = File
          /\ IF Choices = {} THEN subObject = object /\ object.map = WholeFile(file)
             ELSE IF argv[LastChoice] = "-arch" THEN IsTheArch(a) ELSE IsTheImage(a)
      BY <1>1, <3>2, ChosenIsAsked
    <3>5. /\ argv'[PathOperand'] = File
          /\ IF Choices' = {} THEN subObject' = object' /\ object'.map = WholeFile(file')
             ELSE IF argv'[LastChoice'] = "-arch" THEN IsTheArch(a)' ELSE IsTheImage(a)'
      BY <1>1, <3>1, <3>4
    <3> QED
      BY <3>3, <3>5
  <2> QED
    BY <2>1 DEF RunsOnWhatWasAsked
<1>5. TypeInv' /\ pc' = "done" /\ file'.size > 0
  <2>1. \/ End("ran", "None") \/ End("crashed", "OldCacheCounted") \/ End("advised", advice)
    BY DEF Run
  <2>2. file.size > 0
    BY <1>2, FilesAssumption DEF IsFile
  <2> QED
    BY <1>1, <1>2, <2>1, <2>2 DEF TypeInv, End
<1>6. StartInv' /\ OptionsInv' /\ PathInv' /\ ChosenInv' /\ ProperInv'
  BY <1>5 DEF StartInv, OptionsInv, PathInv, ChosenInv, ProperInv
<1>7. CASE End("ran", "None")
  <2>1. outcome'.how = "ran"
    BY <1>7 DEF End
  <2>2. EndsHaveAReason'
    BY <1>5, <2>1 DEF EndsHaveAReason, AdviceIsRight
  <2> QED
    BY <1>4, <1>5, <1>6, <2>2 DEF IInv, DoneInv
<1>8. CASE End("crashed", "OldCacheCounted") /\ ~IsV8(HeaderAt(file, 0))
  <2>1. CrashReason("OldCacheCounted")
    BY <1>8 DEF CrashReason
  <2>2. "crashed" \in {"refused", "crashed"}
    OBVIOUS
  <2> QED
    BY <1>1, <1>8, <2>1, <2>2, EndOnThePath
<1>9. CASE End("advised", advice)
  <2>1. outcome'.how = "advised" /\ outcome'.why = advice
    BY <1>9 DEF End
  <2>2. advice \in {"SelectArch", "SelectImage"}
          <=> \E k \in ChoosableFrom(kind) : Supports(operation, k)
    <3>1. CASE kind = "MachO"
      BY <3>1 DEF Advice, ChoosableFrom
    <3>2. CASE kind = "FatMachO"
      BY <3>2 DEF Advice, ChoosableFrom
    <3>3. CASE kind = "DyldSharedCache"
      BY <3>3 DEF Advice, ChoosableFrom
    <3>4. CASE kind = "DscImage"
      BY <3>4 DEF Advice, ChoosableFrom
    <3> QED
      BY <1>3, <3>1, <3>2, <3>3, <3>4
  <2>3. AdviceIsRight'
    BY <1>1, <2>1, <2>2 DEF AdviceIsRight
  <2>4. EndsHaveAReason'
    BY <1>5, <2>1, <2>3 DEF EndsHaveAReason
  <2> QED
    BY <1>4, <1>5, <1>6, <2>4 DEF IInv, DoneInv
<1>10. \/ End("ran", "None")
       \/ End("crashed", "OldCacheCounted") /\ ~IsV8(HeaderAt(file, 0))
       \/ End("advised", advice)
  BY DEF Run
<1> QED
  BY <1>7, <1>8, <1>9, <1>10

(***************************************************************************)
(* The theorems                                                            *)
(***************************************************************************)

\* A step that changes no variable keeps the invariant.
LEMMA NothingKeeps == ASSUME IInv, UNCHANGED vars PROVE IInv'
<1>1. /\ pc' = pc /\ argv' = argv /\ next' = next /\ index' = index /\ operation' = operation
      /\ flags' = flags /\ kinds' = kinds /\ pairs' = pairs /\ file' = file /\ object' = object
      /\ subObject' = subObject /\ outcome' = outcome
  BY DEF vars
<1>2. /\ IsValue' = IsValue /\ PathOperand' = PathOperand /\ Choices' = Choices
      /\ LastChoice' = LastChoice /\ \A p : ProperPath(p)' = ProperPath(p)
      /\ \A m : OperandsBefore(m)' = OperandsBefore(m)
      /\ ProperLine' = ProperLine /\ ProperFile' = ProperFile
      /\ \A why : CrashReason(why)' = CrashReason(why)
      /\ \A a : IsTheArch(a)' = IsTheArch(a) /\ IsTheImage(a)' = IsTheImage(a)
  BY <1>1, SameLine, SameFile, SameLineAndFile, SameObject
<1>3. \A m : Read(m)' = Read(m)
  BY <1>1, <1>2 DEF Read
<1>4. TypeInv'
  BY <1>1 DEF IInv, TypeInv
<1>5. StartInv'
  BY <1>1 DEF IInv, StartInv, NotOpened
<1>6. OptionsInv'
  <2>1. Begun' = Begun /\ NotOpened' = NotOpened
    BY <1>1 DEF Begun, NotOpened
  <2>2. PICK m : m = next
    OBVIOUS
  <2>3. Read(next)' = Read(next)
    BY <1>1, <1>2 DEF Read
  <2> QED
    BY <1>1, <1>2, <2>1, <2>3 DEF IInv, OptionsInv
<1>7. PathInv'
  <2>1. Begun' = Begun /\ NotOpened' = NotOpened
    BY <1>1 DEF Begun, NotOpened
  <2>2. Read(index)' = Read(index)
    BY <1>1, <1>2 DEF Read
  <2> QED
    BY <1>1, <1>2, <2>1, <2>2 DEF IInv, PathInv
<1>8. ChosenInv'
  <2>1. PICK a : a = argv[next - 1]
    OBVIOUS
  <2>2. IsTheArch(argv[next - 1])' = IsTheArch(a) /\ IsTheImage(argv[next - 1])' = IsTheImage(a)
    BY <1>1, <1>2, <2>1
  <2> QED
    BY <1>1, <2>1, <2>2 DEF IInv, ChosenInv
<1>9. ProperInv'
  BY <1>1, <1>2 DEF IInv, ProperInv
<1>10. DoneInv'
  <2>1. PICK a : a = argv[LastChoice + 1]
    OBVIOUS
  <2>2. /\ IsTheArch(argv[LastChoice + 1])' = IsTheArch(a)
        /\ IsTheImage(argv[LastChoice + 1])' = IsTheImage(a)
    BY <1>1, <1>2, <2>1
  <2>3. RunsOnWhatWasAsked'
    BY <1>1, <1>2, <2>1, <2>2 DEF IInv, DoneInv, RunsOnWhatWasAsked
  <2>4. AdviceIsRight' = AdviceIsRight
    BY <1>1 DEF AdviceIsRight
  <2>5. CrashReason(outcome.why)' = CrashReason(outcome.why)
    <3>1. PICK why : why = outcome.why
      OBVIOUS
    <3> QED
      BY <1>1, <1>2, <3>1
  <2>6. EndsHaveAReason'
    BY <1>1, <1>2, <2>4, <2>5 DEF IInv, DoneInv, EndsHaveAReason
  <2> QED
    BY <2>3, <2>6 DEF DoneInv
<1> QED
  BY <1>4, <1>5, <1>6, <1>7, <1>8, <1>9, <1>10 DEF IInv

\* The invariant holds at every step of the program.
THEOREM Inductive == Spec => []IInv
<1>1. IInv /\ [Next]_vars => IInv'
  BY NothingKeeps, NoOperationKeeps, ChooseOperationKeeps, ReadFlagKeeps,
     ReadSectionOperandKeeps, RefuseOptionKeeps, ReadRequirementKeeps, EndOptionsKeeps,
     OpenFileKeeps, OpenObjectOfFileKeeps, RefusePathOptionKeeps, ChooseArchKeeps,
     ChooseImageByNumberKeeps, ChooseImageByPathKeeps, RunKeeps DEF Next
<1> QED
  BY Starts, <1>1, PTL DEF Spec

\* Whatever the file holds, what main.cpp accepts as an object is sound: the tables
\* that are walked without another test lie in the file and share nothing they must not.
THEOREM AcceptedStaysSound == Spec => []AcceptedIsSound
<1>1. IInv => AcceptedIsSound
  <2> SUFFICES ASSUME IInv PROVE AcceptedIsSound
    OBVIOUS
  <2>1. TypeInv /\ Len(argv) \in Nat
    BY DEF IInv, TypeInv
  <2>2. object = Null \/ (file \in Files /\ object = OpenObject(file))
    BY <2>1 DEF TypeInv
  <2>3. object.kind \in Kinds
    BY <2>2, OpenedIsSound DEF Null, NoObject, Kinds
  <2>4. TypeOK
    BY <2>1, <2>3 DEF TypeInv, TypeOK
  <2>5. /\ Opened("MachO") => SoundMachO(HeaderAt(file, 0), WholeFile(file))
        /\ Opened("FatMachO") => SoundFat(HeaderAt(file, 0))
        /\ Opened("DyldSharedCache") => SoundCache(HeaderAt(file, 0))
    <3>1. CASE object = Null
      BY <3>1 DEF Opened, Null, NoObject
    <3>2. CASE file \in Files /\ object = OpenObject(file)
      BY <3>2, OpenedIsSound DEF Opened
    <3> QED
      BY <2>2, <3>1, <3>2
  <2> QED
    BY <2>4, <2>5 DEF AcceptedIsSound
<1> QED
  BY Inductive, <1>1, PTL

\* Whatever the command line, an operation of main.cpp is run, or declined, on what
\* the last choice on it names, in the file its path names.
THEOREM RunsOnTheChosen == Spec => []RunsOnWhatWasAsked
<1>1. IInv => RunsOnWhatWasAsked
  BY DEF IInv, DoneInv
<1> QED
  BY Inductive, <1>1, PTL

\* Whatever the command line and the file, a proper path is found, a proper line on a
\* proper file is answered, and main.cpp fails only for a reason in one of them.
THEOREM EndsAreJustified == Spec => []EndsHaveAReason
<1>1. IInv => EndsHaveAReason
  BY DEF IInv, DoneInv
<1> QED
  BY Inductive, <1>1, PTL

=============================================================================

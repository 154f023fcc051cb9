---------------------------- MODULE StringListing ----------------------------
(***************************************************************************)
(* --list-c-string-section: the strings of a section (PrintCStringSection.cpp). *)
(*                                                                         *)
(* In an image, "bytes" is the file.  A byte is 0, one that isprint()       *)
(* takes, or Unprintable; the file's begin at offset 0.                    *)
(***************************************************************************)
EXTENDS ListingState, SortKinds

LOCAL Seqs == INSTANCE SequencesExt

Unprintable == 9

ByteAt(bytes, p) == bytes[p + 1]

\* strnlen of at most count bytes from offset p on.
StringLength(bytes, p, count) ==
    CHOOSE n \in 0..count :
        /\ \A k \in 0..(n - 1) : ByteAt(bytes, p + k) # 0
        /\ n < count => ByteAt(bytes, p + n) = 0

\* strnlen looks for a zero past the end of the file.
LeavesTheFile(bytes, p, count) ==
    p + count > Len(bytes) /\ \A k \in p..(Len(bytes) - 1) : ByteAt(bytes, k) # 0

\* The string of that length at p, as the list has it.
StringOf(bytes, p, length) == SubSeq(bytes, p + 1, p + length)

\* Mutant: a string is left out for its first byte only.
ShouldExcludeString_First(string) == string = <<>> \/ string[1] = Unprintable

ShouldExcludeString(string) ==
    string = <<>> \/ \E k \in DOMAIN string : string[k] = Unprintable

-----------------------------------------------------------------------------
(* The operation *)

\* SegOrSectNameEquals compares as many letters as were asked for, so each name
\* that begins with them will do.
FirstWith(list, name) ==
    LET named == {k \in DOMAIN list : Seqs!IsPrefix(name, list[k].name)}
    IN IF named = {} THEN 0 ELSE CHOOSE k \in named : \A j \in named : k <= j

\* OpenSectionInfoWithName and the checks after it.
OpenSection ==
    /\ pc = "cstrings"
    /\ LET s == FirstWith(image.segments, options.segment)
           segment == image.segments[s]
           k == FirstWith(segment.sections, options.section)
       IN IF s = 0 THEN End("NoSegment")
          ELSE IF segment.protected THEN End("Protected")
          ELSE IF k = 0 THEN End("NoSection")
          ELSE IF segment.sections[k].kind # "CStrings" THEN End("NotCStrings")
          ELSE IF segment.sections[k].size = 0 THEN End("Empty")
          ELSE /\ section' = segment.sections[k] /\ pc' = "strings"
               /\ UNCHANGED <<image, options, at, tables, found, end, output>>

\* A turn of GetCStringList's loop.  That the section lies in the file is not
\* asked.
ReadString ==
    /\ pc = "strings" /\ at < section.size
    /\ LET p == section.begin + at
       IN IF LeavesTheFile(image.bytes, p, section.size - at) THEN End("OutsideTheFile")
          ELSE LET length == StringLength(image.bytes, p, section.size - at)
                   excluded == ShouldExcludeString(StringOf(image.bytes, p, length))
               IN /\ at' = at + length + 1
                  /\ found' = IF excluded THEN found ELSE found \cup {at}
                  /\ UNCHANGED <<image, options, pc, tables, section, end, output>>

\* A string is printed up to its zero, which may lie past the section.
ListedString(k) ==
    LET p == section.begin + k
        rest == Len(image.bytes) - p
    IN [index |-> k, addr |-> section.addr + k, offset |-> p,
        text |-> StringOf(image.bytes, p, StringLength(image.bytes, p, rest))]

\* The bytes of the strings for their order, and by 0 the place.
StringKeys ==
    [k \in found |->
        LET string == StringOf(image.bytes, section.begin + k,
                        StringLength(image.bytes, section.begin + k, section.size - k))
        IN [j \in 0..section.size |->
               IF j = 0 THEN k ELSE IF j <= Len(string) THEN string[j] ELSE 0]]

\* The end of PrintCStringList.
ListStrings ==
    /\ pc = "strings" /\ at >= section.size
    /\ IF \E k \in found : LeavesTheFile(image.bytes, section.begin + k, Len(image.bytes))
       THEN End("OutsideTheFile")
       ELSE \E order \in Sorted(found, IF options.sorts = <<>> THEN <<0>>
                                       ELSE [j \in 1..section.size |-> j], StringKeys) :
              /\ output' = [k \in DOMAIN order |-> ListedString(order[k])]
              /\ pc' = "end" /\ end' = "Listed"
              /\ UNCHANGED <<image, options, at, tables, section, found>>

-----------------------------------------------------------------------------
(* Properties *)

\* The strings of a section by their places: what is between two zeros, or
\* between one and an end of the section, if it can be printed.
Byte(k) == image.bytes[section.begin + k + 1]
Runs(k) == {j \in k..(section.size - 1) : \A i \in k..j : Byte(i) # 0}
Strings ==
    {k \in 0..(section.size - 1) :
        /\ k = 0 \/ Byte(k - 1) = 0
        /\ Runs(k) # {} /\ \A j \in Runs(k) : Byte(j) # Unprintable}

\* The string at j is not after the one at k: it is its beginning, or has the
\* lower byte where they differ first.
NotAfter(j, k) ==
    LET letter(p, n) == IF p + n \in Runs(p) THEN Byte(p + n) ELSE 0
    IN \A n \in 0..section.size :
          letter(j, n) > letter(k, n) => \E m \in 0..(n - 1) : letter(j, m) < letter(k, m)

\* The list has each string of the section that can be printed, once, at its
\* address and offset, with its text, in the order asked for.  Only a string that
\* the section ends without a zero may be printed with what follows.
StringsAreTheSections ==
    end = "Listed" /\ options.operation = "cstrings" =>
        /\ {output[k].index : k \in DOMAIN output} = Strings
        /\ Len(output) = Cardinality(Strings)
        /\ \A k \in DOMAIN output :
             LET index == output[k].index
                 text == output[k].text
             IN /\ output[k].addr - section.addr = index
                /\ output[k].offset - section.begin = index
                /\ \/ Len(text) = Cardinality(Runs(index))
                   \/ section.size - 1 \in Runs(index) /\ Len(text) > Cardinality(Runs(index))
                /\ \A j \in Runs(index) : text[j - index + 1] = Byte(j)
        /\ \A j \in DOMAIN output, k \in DOMAIN output : j < k =>
             IF options.sorts = <<>> THEN output[j].index < output[k].index
             ELSE NotAfter(output[j].index, output[k].index)

\* The end for the first segment and section of those that "names" gives for a list
\* and a name.  Outside of the file is read only where the section is longer than
\* it or a string has no zero.
StringsEndAs(names(_, _)) ==
    LET first(S) == CHOOSE k \in S : \A j \in S : k <= j
        segments == names(image.segments, options.segment)
        segment == image.segments[first(segments)]
        sections == names(segment.sections, options.section)
        wanted == segment.sections[first(sections)]
        file == Len(image.bytes)
    IN CASE segments = {} -> end = "NoSegment"
         [] segments # {} /\ segment.protected -> end = "Protected"
         [] segments # {} /\ ~segment.protected /\ sections = {} -> end = "NoSection"
         [] OTHER ->
              CASE wanted.kind # "CStrings" -> end = "NotCStrings"
                [] wanted.kind = "CStrings" /\ wanted.size = 0 -> end = "Empty"
                [] OTHER ->
                     /\ end \in {"Listed", "OutsideTheFile"} /\ section = wanted
                     /\ end = "Listed" => section.begin + section.size <= file + 1
                     /\ end = "OutsideTheFile" =>
                          \/ section.begin + section.size > file
                          \/ \A k \in (section.begin + section.size)..file : image.bytes[k] # 0

\* Strings are read of the first segment and section with the names asked for; where
\* the name of one before them only begins with that, they may be read of it
\* (LoadCommands.h:313).
StringsEndRight ==
    pc = "end" /\ options.operation = "cstrings" =>
        \/ StringsEndAs(LAMBDA list, name : {k \in DOMAIN list : list[k].name = name})
        \/ StringsEndAs(LAMBDA list, name :
                {k \in DOMAIN list : SubSeq(list[k].name, 1, Len(name)) = name})

==============================================================================

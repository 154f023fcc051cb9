---------------------------- MODULE BindOpcodes ----------------------------
(***************************************************************************)
(* The bind opcodes of LC_DYLD_INFO (include/ADT/Mach-O/BindInfo.h): what  *)
(* BindOpcodeIteratorBase keeps of the opcodes it has read, and, as the    *)
(* reference the listings are checked against, the locations a stream of   *)
(* opcodes binds.                                                          *)
(*                                                                         *)
(* There are three lists of binds, and each forbids some opcodes.  The     *)
(* operands of an opcode are a number n, a number m and a string s; valid  *)
(* = FALSE stands for an operand that ReadUleb128, ReadSleb128 or          *)
(* ParseString rejects.                                                    *)
(***************************************************************************)
EXTENDS MachineIntegers, Sequences, SequencesExt

CONSTANTS
    PtrSize,        \* bytes of a pointer
    Symbols,        \* strings of SET_SYMBOL_TRAILING_FLAGS_IMM, perhaps the empty one
    Ordinals,       \* operands of SET_DYLIB_ORDINAL_IMM and _ULEB
    Specials,       \* immediates of SET_DYLIB_SPECIAL_IMM, 0..15
    WriteKinds,     \* immediates of SET_TYPE_IMM
    Addends,        \* operands of SET_ADDEND_SLEB
    Segments,       \* immediates of SET_SEGMENT_AND_OFFSET_ULEB
    Offsets,        \* and its operands
    Adds,           \* operands that are added to the address
    Scales,         \* immediates of DO_BIND_ADD_ADDR_IMM_SCALED
    Counts, Skips,  \* operands of DO_BIND_ULEB_TIMES_SKIPPING_ULEB
    TableSizes      \* operands of SET_BIND_ORDINAL_TABLE_SIZE_ULEB

ASSUME BindWidthAssumption ==
    /\ TopBit \in Nat /\ PtrSize \in 1..(TopBit - 1)
    /\ \E n \in 0..TopBit : UMax + 1 = 256 * n    \* integers are whole bytes

\* The operands are of the types they are read as.
ASSUME BindOperandsAssumption ==
    /\ Offsets \cup Counts \cup Scales \cup Ordinals \subseteq 0..UMax
    /\ Adds \cup Skips \subseteq (-SMax - 1)..SMax
    /\ Specials \cup WriteKinds \cup Segments \cup TableSizes \subseteq Nat
    /\ Addends \subseteq Int

NoString == ""    \* the empty string

BindInfoKinds == {"Normal", "Lazy", "Weak"}

NoWriteKind == 0
BindWriteKinds == 1..3           \* Pointer, TextAbsolute32, TextPcrel32
SpecialOrdinals == {253, 254, 255, 0}
SetTableSize == 0                \* the two sub-opcodes of THREADED
ThreadedApply == 1

DylibOpcodes == {"SetDylibOrdinalImm", "SetDylibOrdinalUleb", "SetDylibSpecialImm"}
UlebOpcodes == {"SetDylibOrdinalUleb", "SetAddendSleb", "SetSegmentAndOffsetUleb",
                "AddAddrUleb", "DoBindAddAddrUleb", "DoBindUlebTimesSkippingUleb"}

Opcode(op, N, M, S) == {[op |-> op, n |-> n, m |-> m, s |-> s, valid |-> TRUE] :
                        n \in N, m \in M, s \in S}
Rejected(op, m) == [op |-> op, n |-> 0, m |-> m, s |-> NoString, valid |-> FALSE]

\* SetSymbolTrailingFlagsImm has its flags in m, Threaded its sub-opcode.
Opcodes ==
    UNION { Opcode("Done", {0}, {0}, {NoString}),
            Opcode("SetDylibOrdinalImm", Ordinals, {0}, {NoString}),
            Opcode("SetDylibOrdinalUleb", Ordinals, {0}, {NoString}),
            Opcode("SetDylibSpecialImm", Specials, {0}, {NoString}),
            Opcode("SetSymbolTrailingFlagsImm", {0}, {0, 1}, Symbols),
            Opcode("SetKindImm", WriteKinds, {0}, {NoString}),
            Opcode("SetAddendSleb", Addends, {0}, {NoString}),
            Opcode("SetSegmentAndOffsetUleb", Offsets, Segments, {NoString}),
            Opcode("AddAddrUleb", Adds, {0}, {NoString}),
            Opcode("DoBind", {0}, {0}, {NoString}),
            Opcode("DoBindAddAddrUleb", Adds, {0}, {NoString}),
            Opcode("DoBindAddAddrImmScaled", Scales, {0}, {NoString}),
            Opcode("DoBindUlebTimesSkippingUleb", Counts, Skips, {NoString}),
            Opcode("Threaded", TableSizes, {SetTableSize}, {NoString}),
            Opcode("Threaded", {0}, {ThreadedApply, 2}, {NoString}),
            Opcode("Unrecognized", {0}, {0}, {NoString}),
            {Rejected(op, 0) : op \in UlebOpcodes},
            {Rejected("SetSymbolTrailingFlagsImm", 1),
             Rejected("Threaded", SetTableSize)} }

-----------------------------------------------------------------------------
(***************************************************************************)
(* BindOpcodeIterateInfo, and what BindActionIterateInfo adds to it.       *)
(* addAddr is the union of AddAddr and Count; skip that of Skip, Scale and *)
(* SubOpcode, which is one byte of it.                                     *)
(***************************************************************************)
InitInfo ==
    [error |-> "None", addend |-> 0, dylibOrdinal |-> -1, symbolName |-> NoString,
     segmentIndex |-> -1, segOffset |-> 0, threadedCount |-> 0, addAddr |-> 0,
     skip |-> 0, flags |-> 0, writeKind |-> NoWriteKind,
     addrInSeg |-> 0, newSymbolName |-> FALSE]

SubOpcode(i) == i.skip % 256

Illegal(kind, o) ==
    \/ kind = "Weak" /\ o.op \in DylibOpcodes
    \/ kind = "Lazy" /\ o.op \in {"SetKindImm", "AddAddrUleb", "DoBindAddAddrUleb",
                                  "DoBindAddAddrImmScaled",
                                  "DoBindUlebTimesSkippingUleb"}

SpecialOrdinal(o) == IF o.n = 0 THEN 0 ELSE 240 + o.n

ReadError(kind, o) ==
    CASE Illegal(kind, o) -> "IllegalBindOpcode"
      [] ~Illegal(kind, o) /\ o.op = "Unrecognized" -> "UnrecognizedBindOpcode"
      [] ~Illegal(kind, o) /\ ~o.valid ->
            IF o.op = "SetSymbolTrailingFlagsImm" THEN "InvalidString"
            ELSE "InvalidLeb128"
      [] o.valid /\ o.op = "SetSymbolTrailingFlagsImm" /\ o.s = NoString -> "EmptySymbol"
      [] ~Illegal(kind, o) /\ o.op = "SetDylibSpecialImm"
            /\ SpecialOrdinal(o) \notin SpecialOrdinals ->
            "UnrecognizedSpecialDylibOrdinal"
      [] ~Illegal(kind, o) /\ o.op = "SetKindImm" /\ o.n \notin BindWriteKinds ->
            "UnrecognizedBindWriteKind"
      [] o.op = "Threaded" /\ o.m \notin {SetTableSize, ThreadedApply} ->
            "UnrecognizedBindSubOpcode"
      [] OTHER -> "None"

\* BindOpcodeIteratorBase::Advance() on opcode o of a list of this kind.  Most
\* errors keep what was there; the flags of a symbol, the sub-opcode of
\* THREADED and an unknown write kind are stored first.
ReadOpcode(kind, i, o) ==
    LET e == ReadError(kind, o)
        j == [i EXCEPT !.error = e]
    IN CASE o.op = "SetSymbolTrailingFlagsImm" ->
                [j EXCEPT !.flags = o.m, !.symbolName = IF e = "None" THEN o.s ELSE @]
         [] o.op = "Threaded" ->
                [j EXCEPT !.skip = (@ - (@ % 256)) + o.m,
                          !.threadedCount = IF e = "None" /\ o.m = SetTableSize
                                            THEN o.n ELSE @]
         [] o.op = "SetKindImm" /\ e # "IllegalBindOpcode" ->
                [j EXCEPT !.writeKind = o.n]
         [] e = "None" /\ o.op = "SetDylibSpecialImm" ->
                [j EXCEPT !.dylibOrdinal = SpecialOrdinal(o)]
         [] e = "None" /\ o.op \in DylibOpcodes \ {"SetDylibSpecialImm"} ->
                [j EXCEPT !.dylibOrdinal = ToSigned(o.n)]
         [] e = "None" /\ o.op = "SetAddendSleb" -> [j EXCEPT !.addend = o.n]
         [] e = "None" /\ o.op = "SetSegmentAndOffsetUleb" ->
                [j EXCEPT !.segOffset = o.n, !.segmentIndex = o.m]
         [] e = "None" /\ o.op \in {"AddAddrUleb", "DoBindAddAddrUleb"} ->
                [j EXCEPT !.addAddr = o.n]
         [] o.op = "DoBindAddAddrImmScaled" /\ e = "None" -> [j EXCEPT !.skip = o.n]
         [] e = "None" /\ o.op = "DoBindUlebTimesSkippingUleb" ->
                [j EXCEPT !.addAddr = ToSigned(o.n), !.skip = ToUnsigned(o.m)]
         [] OTHER -> j

-----------------------------------------------------------------------------
(***************************************************************************)
(* Reference: an opcode moves a cursor and binds the pointers it passes.   *)
(***************************************************************************)
StepSize(o) ==
    IF o.op = "DoBindUlebTimesSkippingUleb" THEN PtrSize + o.m ELSE PtrSize

Moved(c, o) ==
    CASE o.op = "SetSegmentAndOffsetUleb" -> o.n
      [] o.op = "AddAddrUleb" -> c + o.n
      [] o.op = "DoBind" -> c + PtrSize
      [] o.op = "DoBindAddAddrUleb" -> c + PtrSize + o.n
      [] o.op = "DoBindAddAddrImmScaled" -> c + PtrSize + o.n * PtrSize
      [] o.op = "DoBindUlebTimesSkippingUleb" -> c + o.n * StepSize(o)
      [] OTHER -> c

Bound(c, o) ==
    CASE o.op \in {"DoBind", "DoBindAddAddrUleb", "DoBindAddAddrImmScaled"} -> <<c>>
      [] o.op = "DoBindUlebTimesSkippingUleb" ->
            [i \in 1..o.n |-> c + (i - 1) * StepSize(o)]
      [] OTHER -> <<>>

\* Where the opcodes have led after the first k of s.
CursorAt(s, k) ==
    LET at[j \in 0..k] == IF j = 0 THEN 0 ELSE Moved(at[j - 1], s[j])
    IN at[k]

\* Every address the opcodes lead to is one a signed integer holds, also before
\* DO_BIND_ADD_ADDR_ULEB adds its pointer, and no run is empty or skips backwards.
WithinSegment(s) ==
    \A k \in 1..Len(s) :
        /\ CursorAt(s, k) \in 0..SMax
        /\ s[k].op = "DoBindAddAddrUleb" => CursorAt(s, k) >= PtrSize
        /\ s[k].op = "DoBindUlebTimesSkippingUleb" => s[k].n > 0 /\ s[k].m >= 0

(***************************************************************************)
(* Where the action iterator departs from this, and what the properties    *)
(* therefore leave open.  It does not move past a run of one (BindInfo.h:  *)
(* 1021, where SegAddAddress is 0), nor past DO_BIND in a lazy or weak     *)
(* list, which is always refused (1082): it is astray until a segment is   *)
(* set.  And it may lose the last bind of a longer run (1018).             *)
(***************************************************************************)
LosesPlace(kind, o) ==
    \/ o.op = "DoBindUlebTimesSkippingUleb" /\ o.n = 1
    \/ o.op = "DoBind" /\ kind # "Normal"

\* An opcode before the k-th lost the place, and no segment was set since.
Astray(kind, s, k) ==
    \E j \in 1..(k - 1) :
        /\ LosesPlace(kind, s[j])
        /\ \A i \in (j + 1)..(k - 1) : s[i].op # "SetSegmentAndOffsetUleb"

\* No opcode that depends on the place is reached astray.
KeepsPlace(kind, s) ==
    \A k \in 1..Len(s) :
        s[k].op \in {"AddAddrUleb", "DoBind", "DoBindAddAddrUleb",
                    "DoBindAddAddrImmScaled", "DoBindUlebTimesSkippingUleb"}
            => ~Astray(kind, s, k)

LongRuns(s) == {k \in 1..Len(s) : s[k].op = "DoBindUlebTimesSkippingUleb" /\ s[k].n > 1}

NoReadErrors(kind, s) == \A k \in 1..Len(s) : ReadError(kind, s[k]) = "None"

\* What the last opcode of ops that could be read, among the first k of s, set.
Readable(kind, s, ops, k) == {j \in 1..k : s[j].op \in ops /\ ReadError(kind, s[j]) = "None"}
SetLast(kind, s, ops, k, Value(_), none) ==
    LET read == Readable(kind, s, ops, k)
    IN IF read = {} THEN none
       ELSE Value(s[CHOOSE j \in read : \A i \in read : i <= j])

\* A special ordinal is the byte that BindByteDylibSpecialOrdinal gives it.
OrdinalOf(o) == IF o.op = "SetDylibSpecialImm" THEN SpecialOrdinal(o) ELSE ToSigned(o.n)
NumberOf(o) == o.n
SegmentIn(o) == o.m
NameIn(o) == o.s

DylibSet(kind, s, k) == SetLast(kind, s, DylibOpcodes, k, OrdinalOf, -1)
AddendSet(kind, s, k) == SetLast(kind, s, {"SetAddendSleb"}, k, NumberOf, 0)
KindSet(kind, s, k) == SetLast(kind, s, {"SetKindImm"}, k, NumberOf, NoWriteKind)
SegmentSet(kind, s, k) == SetLast(kind, s, {"SetSegmentAndOffsetUleb"}, k, SegmentIn, -1)
SymbolSet(kind, s, k) == SetLast(kind, s, {"SetSymbolTrailingFlagsImm"}, k, NameIn, NoString)

-----------------------------------------------------------------------------
(***************************************************************************)
(* CollectBindOpcodeList of Operations/PrintBindOpcodeList.cpp, behind     *)
(* --list-bind-opcodes, which repeats the arithmetic of the bind actions   *)
(* on its own.  A line is an opcode with the address it was listed with.   *)
(***************************************************************************)
InitListing == [info |-> InitInfo, addrInSeg |-> 0, overflows |-> FALSE,
                done |-> FALSE, lines |-> <<>>]

\* InfoList.emplace_back(OpcodeInfo)
Line(l, o) == [op |-> o.op, addr |-> l.addrInSeg, overflows |-> l.overflows]
WithLine(l, o) == [l EXCEPT !.lines = Append(@, Line(l, o))]

\* A sum that overflows leaves the address as it is; the flag is never reset.
Plus(l, sum) == IF FitsUnsigned(sum) THEN [l EXCEPT !.addrInSeg = sum]
                ELSE [l EXCEPT !.overflows = TRUE]

\* Mutant: the address of a bind is listed after it has moved.
ListBind_Late(l, o) == WithLine(Plus(l, l.addrInSeg + PtrSize), o)

ListBind(l, o) == Plus(WithLine(l, o), l.addrInSeg + PtrSize)

ListBindAddAddr(l, o) ==
    LET added == Plus(WithLine(l, o), l.addrInSeg + l.info.addAddr)
    IN IF FitsUnsigned(l.addrInSeg + l.info.addAddr)
       THEN Plus(added, added.addrInSeg + PtrSize) ELSE added

\* The line is put in again after the switch, unless the address overflows.
ListBindScaled(l, o) ==
    LET sum == l.addrInSeg + PtrSize * l.info.skip + PtrSize
        added == Plus(WithLine(l, o), sum)
    IN IF FitsUnsigned(sum) THEN WithLine(added, o) ELSE added

\* Here it is put in again if it does overflow.
ListBindTimes(l, o) ==
    LET step == l.info.skip + PtrSize
        total == step * ToUnsigned(l.info.addAddr)
        fits == FitsSigned(step) /\ FitsSigned(total)
        added == IF fits THEN Plus(WithLine(l, o), l.addrInSeg + total)
                 ELSE [WithLine(l, o) EXCEPT !.overflows = TRUE]
    IN IF fits /\ FitsUnsigned(l.addrInSeg + total) THEN added ELSE WithLine(added, o)

ListSetup(l, o) ==
    WithLine(CASE o.op = "SetSegmentAndOffsetUleb" ->
                    [l EXCEPT !.addrInSeg = l.info.segOffset]
               [] o.op = "AddAddrUleb" -> Plus(l, l.addrInSeg + l.info.addAddr)
               [] OTHER -> l, o)

\* The body of the loop for opcode o; errors of the opcode are not looked at.
ListOpcode(kind, l, o) ==
    LET read == [l EXCEPT !.info = ReadOpcode(kind, l.info, o)]
    IN CASE l.done -> l
         [] ~l.done /\ o.op = "Done" /\ kind # "Lazy" -> [l EXCEPT !.done = TRUE]
         [] ~l.done /\ o.op = "DoBind" -> ListBind(read, o)
         [] ~l.done /\ o.op = "DoBindAddAddrUleb" -> ListBindAddAddr(read, o)
         [] ~l.done /\ o.op = "DoBindAddAddrImmScaled" -> ListBindScaled(read, o)
         [] ~l.done /\ o.op = "DoBindUlebTimesSkippingUleb" -> ListBindTimes(read, o)
         [] OTHER -> ListSetup(read, o)

\* The listing after the first k opcodes of s.
ListingAt(kind, s, k) ==
    LET at[j \in 0..k] == IF j = 0 THEN InitListing ELSE ListOpcode(kind, at[j - 1], s[j])
    IN at[k]
CollectBindOpcodeList(kind, s) == ListingAt(kind, s, Len(s)).lines

=============================================================================

----------------------------- MODULE Bind_proofs -----------------------------
(***************************************************************************)
(* Proofs about the list of bind actions and the collection of binds, for  *)
(* each kind of list, integers of any width, any operands and streams of   *)
(* any length.                                                             *)
(***************************************************************************)
EXTENDS BindActions, BindCollection, TLAPS

Ind == INSTANCE Induction

(***************************************************************************)
(* The integers                                                            *)
(***************************************************************************)

LEMMA Widths ==
  /\ TopBit \in Nat /\ TopBit > 0 /\ PtrSize \in 1..(TopBit - 1)
  /\ UMax \in Nat /\ SMax \in Nat /\ PtrSize \in 0..SMax
  /\ UMax + 1 = 2 * TopBit /\ SMax + 1 = TopBit
  BY BindWidthAssumption DEF UMax, SMax

LEMMA UnsignedFits ==
  ASSUME NEW n \in Int
  PROVE  ToUnsigned(n) \in 0..UMax
  BY BindWidthAssumption DEF ToUnsigned, UMax

LEMMA SignedFits ==
  ASSUME NEW n \in Int
  PROVE  ToSigned(n) \in (-SMax - 1)..SMax
<1>1. ToUnsigned(n) \in 0..UMax
  BY UnsignedFits
<1> QED
  BY <1>1, BindWidthAssumption DEF ToSigned, UMax, SMax

\* The sub-opcode is the lowest byte of skip.
LEMMA LowByte ==
  ASSUME NEW a \in 0..UMax, NEW m \in 0..2
  PROVE  (a - (a % 256)) + m \in 0..UMax /\ ((a - (a % 256)) + m) % 256 = m
<1>1. PICK n \in 0..TopBit : UMax + 1 = 256 * n
  BY BindWidthAssumption
<1>2. n \in Nat /\ a \in Nat /\ m \in Nat /\ UMax \in Nat
  BY Widths
<1>3. PICK q \in Nat : a = 256 * q + (a % 256) /\ a % 256 \in 0..255
  BY <1>2
<1>4. q < n
  BY <1>1, <1>2, <1>3
<1>5. (a - (a % 256)) + m = 256 * q + m
  BY <1>2, <1>3
<1>6. 256 * q + m \in 0..UMax
  BY <1>1, <1>2, <1>4
<1>7. (256 * q + m) % 256 = m
  BY <1>2
<1> QED
  BY <1>5, <1>6, <1>7

(***************************************************************************)
(* The types                                                               *)
(***************************************************************************)

RunOps == {"DoBind", "DoBindAddAddrUleb", "DoBindAddAddrImmScaled",
           "DoBindUlebTimesSkippingUleb"}

FatalErrors == {"InvalidLeb128", "InvalidString", "IllegalBindOpcode",
                "UnrecognizedBindOpcode"}

Errors == FatalErrors \cup
          {"None", "EmptySymbol", "UnrecognizedSpecialDylibOrdinal",
           "UnrecognizedBindWriteKind", "UnrecognizedBindSubOpcode", "NoDylibOrdinal",
           "NoSegmentIndex", "NoWriteKind", "OutOfBoundsSegmentAddr",
           "TooManyThreadedBinds", "NotEnoughThreadedBinds"}

\* The errors of CheckIfCanBind.
NotReady == {"NoDylibOrdinal", "NoSegmentIndex", "NoWriteKind"}

Signed == (-SMax - 1)..SMax

InfoType == [error : Errors, addend : Int, dylibOrdinal : Int, symbolName : Symbols \cup {NoString},
             segmentIndex : Int, segOffset : 0..UMax, threadedCount : Nat, addAddr : Signed,
             skip : 0..UMax, flags : Int, writeKind : Nat, addrInSeg : 0..UMax,
             newSymbolName : BOOLEAN]

EntryType == [addr : 0..UMax, error : Errors, at : Nat, symbol : Symbols \cup {NoString},
              isNew : BOOLEAN, addend : Int, dylib : Int, segment : Int, kind : Nat]

(***************************************************************************)
(* The opcodes                                                             *)
(***************************************************************************)

LEMMA OpcodeParts ==
  ASSUME NEW op, NEW N, NEW M, NEW S, NEW p \in Opcode(op, N, M, S)
  PROVE  p.op = op /\ p.n \in N /\ p.m \in M /\ p.s \in S /\ p.valid
BY DEF Opcode

\* What the members of Opcodes have in common.
LEMMA OpcodeFields ==
  ASSUME NEW o \in Opcodes
  PROVE  /\ o.n \in Int /\ o.m \in Int
         /\ o.op \in {"SetSegmentAndOffsetUleb", "DoBindAddAddrImmScaled"} => o.n \in 0..UMax
         /\ o.op \in {"AddAddrUleb", "DoBindAddAddrUleb"} => o.n \in Signed
         /\ o.op \in {"SetKindImm", "SetDylibSpecialImm", "Threaded"} => o.n \in Nat
         /\ o.op = "SetSymbolTrailingFlagsImm" => o.s \in Symbols \cup {NoString}
         /\ o.op = "Threaded" => o.m \in 0..2
         /\ o.op = "SetKindImm" => o.valid
<1> DEFINE Fields(p) ==
         /\ p.n \in Int /\ p.m \in Int
         /\ p.op \in {"SetSegmentAndOffsetUleb", "DoBindAddAddrImmScaled"} => p.n \in 0..UMax
         /\ p.op \in {"AddAddrUleb", "DoBindAddAddrUleb"} => p.n \in Signed
         /\ p.op \in {"SetKindImm", "SetDylibSpecialImm", "Threaded"} => p.n \in Nat
         /\ p.op = "SetSymbolTrailingFlagsImm" => p.s \in Symbols \cup {NoString}
         /\ p.op = "Threaded" => p.m \in 0..2
         /\ p.op = "SetKindImm" => p.valid
<1> DEFINE Plain == UNION {Opcode("Done", {0}, {0}, {NoString}),
                           Opcode("DoBind", {0}, {0}, {NoString}), Opcode("Unrecognized", {0}, {0}, {NoString}),
                           Opcode("SetDylibOrdinalImm", Ordinals, {0}, {NoString}),
                           Opcode("SetDylibOrdinalUleb", Ordinals, {0}, {NoString}),
                           Opcode("SetAddendSleb", Addends, {0}, {NoString})}
           Named == Opcode("SetSymbolTrailingFlagsImm", {0}, {0, 1}, Symbols)
           Special == UNION {Opcode("SetDylibSpecialImm", Specials, {0}, {NoString}),
                             Opcode("SetKindImm", WriteKinds, {0}, {NoString}),
                             Opcode("Threaded", TableSizes, {SetTableSize}, {NoString}),
                             Opcode("Threaded", {0}, {ThreadedApply, 2}, {NoString})}
           Placed == UNION {Opcode("SetSegmentAndOffsetUleb", Offsets, Segments, {NoString}),
                            Opcode("DoBindAddAddrImmScaled", Scales, {0}, {NoString})}
           Moving == UNION {Opcode("AddAddrUleb", Adds, {0}, {NoString}),
                            Opcode("DoBindAddAddrUleb", Adds, {0}, {NoString}),
                            Opcode("DoBindUlebTimesSkippingUleb", Counts, Skips, {NoString})}
           Refused == {Rejected(op, 0) : op \in UlebOpcodes}
                      \cup {Rejected("SetSymbolTrailingFlagsImm", 1),
                            Rejected("Threaded", SetTableSize)}
<1>1. /\ Offsets \cup Counts \cup Scales \cup Ordinals \subseteq 0..UMax
      /\ Adds \cup Skips \subseteq Signed /\ Signed \subseteq Int /\ 0 \in Signed
      /\ Specials \cup WriteKinds \cup Segments \cup TableSizes \subseteq Nat
      /\ Addends \subseteq Int /\ 0..UMax \subseteq Int /\ 0 \in 0..UMax
  BY BindOperandsAssumption, Widths DEF Signed
<1>3. ASSUME NEW p \in Plain
      PROVE  Fields(p)
  <2>1. /\ p.op \in {"Done", "DoBind", "Unrecognized", "SetDylibOrdinalImm",
                      "SetDylibOrdinalUleb", "SetAddendSleb"}
        /\ p.n \in {0} \cup Ordinals \cup Addends /\ p.m = 0
    BY OpcodeParts, <1>3
  <2> QED
    BY <1>1, <2>1
<1>4. ASSUME NEW p \in Named
      PROVE  Fields(p)
  <2>1. p.op = "SetSymbolTrailingFlagsImm" /\ p.n = 0 /\ p.m \in {0, 1} /\ p.s \in Symbols
    BY OpcodeParts, <1>4
  <2> QED
    BY <2>1
<1>5. ASSUME NEW p \in Special
      PROVE  Fields(p)
  <2>1. /\ p.op \in {"SetDylibSpecialImm", "SetKindImm", "Threaded"}
        /\ p.n \in Specials \cup WriteKinds \cup TableSizes \cup {0}
        /\ p.m \in {0, SetTableSize, ThreadedApply, 2} /\ p.valid
    BY OpcodeParts, <1>5
  <2> QED
    BY <1>1, <2>1 DEF SetTableSize, ThreadedApply
<1>6. ASSUME NEW p \in Placed
      PROVE  Fields(p)
  <2>1. /\ p.op \in {"SetSegmentAndOffsetUleb", "DoBindAddAddrImmScaled"}
        /\ p.n \in Offsets \cup Scales /\ p.m \in Segments \cup {0}
    BY OpcodeParts, <1>6
  <2> QED
    BY <1>1, <2>1
<1>7. ASSUME NEW p \in Moving
      PROVE  Fields(p)
  <2>1. /\ p.op \in {"AddAddrUleb", "DoBindAddAddrUleb", "DoBindUlebTimesSkippingUleb"}
        /\ p.op \in {"AddAddrUleb", "DoBindAddAddrUleb"} => p.n \in Adds
        /\ p.n \in Adds \cup Counts /\ p.m \in Skips \cup {0}
    <3>1. ASSUME NEW op \in {"AddAddrUleb", "DoBindAddAddrUleb"}, p \in Opcode(op, Adds, {0}, {NoString})
          PROVE  p.op = op /\ p.n \in Adds /\ p.m = 0
      BY OpcodeParts, <3>1
    <3>2. CASE p \in Opcode("DoBindUlebTimesSkippingUleb", Counts, Skips, {NoString})
      <4>1. p.op = "DoBindUlebTimesSkippingUleb" /\ p.n \in Counts /\ p.m \in Skips
        BY OpcodeParts, <3>2
      <4> QED
        BY <4>1
    <3> QED
      BY <1>7, <3>1, <3>2
  <2> QED
    BY <1>1, <2>1
<1>9. ASSUME NEW p \in Refused
      PROVE  Fields(p)
  <2>1. p.n = 0 /\ p.m \in {0, 1} /\ p.s = NoString /\ p.op # "SetKindImm"
    BY <1>9 DEF SetTableSize, Rejected, UlebOpcodes
  <2> QED
    BY <1>1, <2>1
<1>10. o \in Plain \cup Named \cup Special \cup Placed \cup Moving \cup Refused
  BY DEF Opcodes
<1>11. Fields(o)
  <2> HIDE DEF Fields, Plain, Named, Special, Placed, Moving, Refused
  <2> QED
    BY <1>3, <1>4, <1>5, <1>6, <1>7, <1>9, <1>10
<1> QED
  BY <1>11

LEMMA ReadErrorFits == ASSUME NEW kind, NEW o PROVE ReadError(kind, o) \in Errors
BY DEF ReadError, Errors, FatalErrors

\* Opcode o of a list of this kind sets what opcodes of ops set.
Sets(kind, o, ops) == o.op \in ops /\ ReadError(kind, o) = "None"

LEMMA KindIsSet ==
  ASSUME NEW kind, NEW o \in Opcodes, o.op = "SetKindImm"
  PROVE  ReadError(kind, o) \in {"None", "IllegalBindOpcode", "UnrecognizedBindWriteKind"}
<1>1. o.valid
  BY OpcodeFields
<1> QED
  BY <1>1 DEF ReadError

\* j has of dylib, addend, segment, symbol and kind what i has, or what o sets; a
\* kind that is not known is not spoken of.
Learnt(kind, i, o, j) ==
  /\ j.symbolName = IF Sets(kind, o, {"SetSymbolTrailingFlagsImm"}) THEN o.s ELSE i.symbolName
  /\ j.dylibOrdinal = IF Sets(kind, o, DylibOpcodes) THEN OrdinalOf(o) ELSE i.dylibOrdinal
  /\ j.addend = IF Sets(kind, o, {"SetAddendSleb"}) THEN o.n ELSE i.addend
  /\ j.segmentIndex = IF Sets(kind, o, {"SetSegmentAndOffsetUleb"}) THEN o.m
                      ELSE i.segmentIndex
  /\ ReadError(kind, o) # "UnrecognizedBindWriteKind" =>
       j.writeKind = IF Sets(kind, o, {"SetKindImm"}) THEN o.n ELSE i.writeKind

\* Reading an opcode stores its error, and at most what the opcode sets.
LEMMA ReadOpcodeFields ==
  ASSUME NEW kind, NEW i \in InfoType, NEW o \in Opcodes
  PROVE  LET r == ReadOpcode(kind, i, o)
         IN  /\ r \in InfoType
             /\ r.error = ReadError(kind, o)
             /\ r.newSymbolName = i.newSymbolName
             /\ r.addrInSeg = i.addrInSeg
             /\ Learnt(kind, i, o, r)
             /\ o.op = "Threaded" => SubOpcode(r) = o.m
<1> DEFINE e == ReadError(kind, o)
           j == [i EXCEPT !.error = e]
           r == ReadOpcode(kind, i, o)
<1>1. /\ j \in InfoType /\ j.error = e /\ j.dylibOrdinal = i.dylibOrdinal
      /\ j.segmentIndex = i.segmentIndex /\ j.writeKind = i.writeKind
      /\ j.symbolName = i.symbolName /\ j.newSymbolName = i.newSymbolName
      /\ j.addend = i.addend /\ j.addrInSeg = i.addrInSeg /\ j.threadedCount = i.threadedCount
  BY ReadErrorFits DEF InfoType
<1> DEFINE symbol == [j EXCEPT !.flags = o.m, !.symbolName = IF e = "None" THEN o.s ELSE @]
           threaded == [j EXCEPT !.skip = (@ - (@ % 256)) + o.m,
                                 !.threadedCount = IF e = "None" /\ o.m = SetTableSize
                                                   THEN o.n ELSE @]
           writeKind == [j EXCEPT !.writeKind = o.n]
           special == [j EXCEPT !.dylibOrdinal = SpecialOrdinal(o)]
           ordinal == [j EXCEPT !.dylibOrdinal = ToSigned(o.n)]
           addend == [j EXCEPT !.addend = o.n]
           segment == [j EXCEPT !.segOffset = o.n, !.segmentIndex = o.m]
           addAddr == [j EXCEPT !.addAddr = o.n]
           scale == [j EXCEPT !.skip = o.n]
           times == [j EXCEPT !.addAddr = ToSigned(o.n), !.skip = ToUnsigned(o.m)]
<1>2. r = CASE o.op = "SetSymbolTrailingFlagsImm" -> symbol
         [] o.op = "Threaded" -> threaded
         [] o.op = "SetKindImm" /\ e # "IllegalBindOpcode" -> writeKind
         [] e = "None" /\ o.op = "SetDylibSpecialImm" -> special
         [] e = "None" /\ o.op \in DylibOpcodes \ {"SetDylibSpecialImm"} -> ordinal
         [] e = "None" /\ o.op = "SetAddendSleb" -> addend
         [] e = "None" /\ o.op = "SetSegmentAndOffsetUleb" -> segment
         [] e = "None" /\ o.op \in {"AddAddrUleb", "DoBindAddAddrUleb"} -> addAddr
         [] o.op = "DoBindAddAddrImmScaled" /\ e = "None" -> scale
         [] e = "None" /\ o.op = "DoBindUlebTimesSkippingUleb" -> times
         [] OTHER -> j
  BY Zenon DEF ReadOpcode
<1> DEFINE Goal ==
             /\ r \in InfoType
             /\ r.error = e
             /\ r.newSymbolName = i.newSymbolName
             /\ r.addrInSeg = i.addrInSeg
             /\ Learnt(kind, i, o, r)
             /\ o.op = "Threaded" => SubOpcode(r) = o.m
<1> SUFFICES Goal
  OBVIOUS
<1> HIDE DEF j, e, r, symbol, threaded, writeKind, special, ordinal, addend, segment, addAddr,
             scale, times
<1>3. r = j /\ o.op # "Threaded" /\ Learnt(kind, i, o, j) => Goal
  BY <1>1
<1>0. /\ o.n \in Int /\ o.m \in Int
      /\ o.op \in {"SetSegmentAndOffsetUleb", "DoBindAddAddrImmScaled"} => o.n \in 0..UMax
      /\ o.op \in {"AddAddrUleb", "DoBindAddAddrUleb"} => o.n \in Signed
      /\ o.op \in {"SetKindImm", "SetDylibSpecialImm", "Threaded"} => o.n \in Nat
      /\ o.op = "SetSymbolTrailingFlagsImm" => o.s \in Symbols \cup {NoString}
      /\ o.op = "Threaded" => o.m \in 0..2
  BY OpcodeFields
<1>4. CASE o.op = "SetSymbolTrailingFlagsImm"
  <2>1. r = symbol
    BY <1>2, <1>4 DEF DylibOpcodes
  <2>2. symbol \in InfoType /\ symbol.error = e /\ symbol.newSymbolName = i.newSymbolName
        /\ symbol.addrInSeg = i.addrInSeg
    BY <1>1, <1>4, <1>0 DEF InfoType, symbol
  <2>3. Learnt(kind, i, o, symbol)
    BY <1>1, <1>4 DEF InfoType, symbol, Learnt, Sets, DylibOpcodes, e
  <2> QED
    BY <1>4, <2>1, <2>2, <2>3
<1>5. CASE o.op = "Threaded"
  <2>1. r = threaded
    BY <1>2, <1>5 DEF DylibOpcodes
  <2> DEFINE low == (j.skip - (j.skip % 256)) + o.m
             cap == IF e = "None" /\ o.m = SetTableSize THEN o.n ELSE j.threadedCount
  <2>2. j.skip \in 0..UMax /\ o.m \in 0..2
    BY <1>1, <1>5, <1>0 DEF InfoType
  <2>3. low \in 0..UMax /\ low % 256 = o.m
    BY <2>2, LowByte, ZenonT(60)
  <2>4. cap \in Nat
    BY <1>1, <1>5, <1>0 DEF InfoType
  <2>5. r = [j EXCEPT !.skip = low, !.threadedCount = cap]
    BY <2>1 DEF threaded
  <2> HIDE DEF low, cap
  <2>6. SubOpcode(r) = o.m
    BY <1>1, <2>3, <2>5 DEF InfoType, SubOpcode
  <2>7. Learnt(kind, i, o, r)
    BY <1>1, <1>5, <2>5 DEF InfoType, Learnt, Sets, DylibOpcodes
  <2> QED
    BY <1>1, <1>5, <2>3, <2>4, <2>5, <2>6, <2>7 DEF InfoType
<1>6. CASE o.op = "SetKindImm"
  <2>1. CASE e = "IllegalBindOpcode"
    <3>1. r = j
      BY <1>2, <1>6, <2>1 DEF DylibOpcodes
    <3>2. Learnt(kind, i, o, j)
      BY <1>1, <1>6, <2>1 DEF Learnt, Sets, DylibOpcodes, e
    <3> QED
      BY <1>3, <1>6, <3>1, <3>2
  <2>2. CASE e # "IllegalBindOpcode"
    <3>1. r = writeKind
      BY <1>2, <1>6, <2>2 DEF DylibOpcodes
    <3>2. e \in {"None", "UnrecognizedBindWriteKind"}
      BY <1>6, <2>2, KindIsSet DEF e
    <3>3. writeKind \in InfoType /\ writeKind.error = e
          /\ writeKind.newSymbolName = i.newSymbolName /\ writeKind.addrInSeg = i.addrInSeg
      BY <1>1, <1>6, <1>0 DEF InfoType, writeKind
    <3>4. Learnt(kind, i, o, writeKind)
      BY <1>1, <1>6, <3>2 DEF InfoType, writeKind, Learnt, Sets, DylibOpcodes, e
    <3> QED
      BY <1>6, <3>1, <3>3, <3>4
  <2> QED
    BY <2>1, <2>2
<1>7. CASE o.op \in DylibOpcodes
  <2>1. CASE e # "None"
    <3>1. r = j
      BY <1>2, <1>7, <2>1 DEF DylibOpcodes
    <3>2. Learnt(kind, i, o, j)
      BY <1>1, <1>7, <2>1 DEF Learnt, Sets, DylibOpcodes, e
    <3> QED
      BY <1>3, <1>7, <3>1, <3>2 DEF DylibOpcodes
  <2>2. CASE e = "None"
    <3>1. SpecialOrdinal(o) \in Int \/ o.op # "SetDylibSpecialImm"
      BY <1>0 DEF SpecialOrdinal
    <3>2. ToSigned(o.n) \in Int
      BY <1>0, SignedFits, Widths
    <3>3. (o.op = "SetDylibSpecialImm" /\ r = special)
          \/ (o.op # "SetDylibSpecialImm" /\ r = ordinal)
      BY <1>2, <1>7, <2>2 DEF DylibOpcodes
    <3>4. r = [j EXCEPT !.dylibOrdinal = OrdinalOf(o)] /\ OrdinalOf(o) \in Int
      BY <3>1, <3>2, <3>3 DEF special, ordinal, OrdinalOf
    <3>5. Sets(kind, o, DylibOpcodes) /\ ~Sets(kind, o, {"SetSymbolTrailingFlagsImm"})
          /\ ~Sets(kind, o, {"SetAddendSleb"}) /\ ~Sets(kind, o, {"SetSegmentAndOffsetUleb"})
          /\ ~Sets(kind, o, {"SetKindImm"})
      BY <1>7, <2>2 DEF Sets, DylibOpcodes, e
    <3> QED
      BY <1>1, <1>7, <2>2, <3>4, <3>5 DEF InfoType, DylibOpcodes, Learnt
  <2> QED
    BY <2>1, <2>2
<1>8. CASE o.op \in {"SetSegmentAndOffsetUleb", "SetAddendSleb"}
  <2>1. CASE e # "None"
    <3>1. r = j
      BY <1>2, <1>8, <2>1 DEF DylibOpcodes
    <3>2. Learnt(kind, i, o, j)
      BY <1>1, <1>8, <2>1 DEF Learnt, Sets, DylibOpcodes, e
    <3> QED
      BY <1>3, <1>8, <3>1, <3>2
  <2>2. CASE e = "None"
    <3>1. \/ o.op = "SetSegmentAndOffsetUleb" /\ r = segment
          \/ o.op = "SetAddendSleb" /\ r = addend
      BY <1>2, <1>8, <2>2 DEF DylibOpcodes
    <3>2. CASE o.op = "SetSegmentAndOffsetUleb" /\ r = segment
      BY <1>1, <1>0, <2>2, <3>2 DEF InfoType, segment, Learnt, Sets, DylibOpcodes, e
    <3>3. CASE o.op = "SetAddendSleb" /\ r = addend
      BY <1>1, <1>0, <2>2, <3>3 DEF InfoType, addend, Learnt, Sets, DylibOpcodes, e
    <3> QED
      BY <3>1, <3>2, <3>3
  <2> QED
    BY <2>1, <2>2
<1>9. CASE o.op \notin {"SetSymbolTrailingFlagsImm", "Threaded", "SetKindImm",
                        "SetSegmentAndOffsetUleb", "SetAddendSleb"} \cup DylibOpcodes
  <2>0. Learnt(kind, i, o, j)
    BY <1>1, <1>9 DEF Learnt, Sets
  <2>1. \/ r = j
        \/ o.op \in {"AddAddrUleb", "DoBindAddAddrUleb"} /\ r = addAddr
        \/ o.op = "DoBindAddAddrImmScaled" /\ r = scale
        \/ r = times
    BY <1>2, <1>9 DEF DylibOpcodes
  <2>2. ToSigned(o.n) \in Signed /\ ToUnsigned(o.m) \in 0..UMax
    BY <1>0, SignedFits, UnsignedFits DEF Signed
  <2>3. PICK s \in Signed, k \in 0..UMax :
          r \in {j, [j EXCEPT !.addAddr = s], [j EXCEPT !.skip = k],
                [j EXCEPT !.addAddr = s, !.skip = k]}
    <3>1. 0 \in Signed /\ 0 \in 0..UMax
      BY Widths DEF Signed
    <3>2. CASE r = j
      BY <3>1, <3>2
    <3>4. CASE o.op \in {"AddAddrUleb", "DoBindAddAddrUleb"} /\ r = addAddr
      BY <1>0, <3>1, <3>4 DEF addAddr
    <3>5. CASE o.op = "DoBindAddAddrImmScaled" /\ r = scale
      BY <1>0, <3>1, <3>5 DEF scale
    <3>6. CASE r = times
      BY <2>2, <3>1, <3>6 DEF times
    <3> QED
      BY <2>1, <3>2, <3>4, <3>5, <3>6
  <2>4. CASE r = j
    BY <1>3, <1>9, <2>0, <2>4
  <2>5. CASE r \in {[j EXCEPT !.addAddr = s], [j EXCEPT !.skip = k]}
    BY <1>1, <1>9, <2>0, <2>5 DEF InfoType, Learnt
  <2>6. CASE r = [j EXCEPT !.addAddr = s, !.skip = k]
    BY <1>1, <1>9, <2>0, <2>6 DEF InfoType, Learnt
  <2> QED
    BY <2>3, <2>4, <2>5, <2>6
<1> QED
  BY <1>4, <1>5, <1>6, <1>7, <1>8, <1>9

(***************************************************************************)
(* The invariants of the iterator                                          *)
(***************************************************************************)

\* The types of what the iterator keeps to resume an opcode.
WorkTypes ==
  /\ table \in [cap : Nat, size : Nat] /\ table.size <= table.cap
  /\ last \in RunOps \cup {NoneLeft, "Done"}
  /\ segAdd \in Signed /\ addAmt \in 0..UMax /\ count \in 0..UMax

TypeInv ==
  /\ pc \in {"advance", "yielded", "end"} /\ bindKind \in BindInfoKinds
  /\ stream \in Seq(Opcodes) /\ atEnd \in BOOLEAN /\ reachedEnd \in BOOLEAN
  /\ info \in InfoType
  /\ WorkTypes

\* There is a current opcode as long as the iterator goes on, it is the one
\* LastByte resumes, and its error is kept or was lost; what THREADED needs of it
\* has been read.
CurrentInv ==
  /\ pc # "end" /\ ~atEnd => stream # <<>>
  /\ pc = "yielded" => ~atEnd
  /\ pc # "end" /\ last \in RunOps => ~atEnd /\ Byte.op = last /\ info.error = "None"
  /\ pc = "advance" /\ ~atEnd => info.error \in {"None", ReadError(bindKind, Byte)}
  /\ pc # "end" /\ ~atEnd /\ Byte.op = "Threaded" =>
       /\ SubOpcode(info) = Byte.m
       /\ Byte.m = ThreadedApply => info.segmentIndex \in DOMAIN Image

\* i knows the same dylib, addend, segment, kind and symbol as j.
KnowsAs(i, j) ==
  /\ i.dylibOrdinal = j.dylibOrdinal /\ i.addend = j.addend
  /\ i.segmentIndex = j.segmentIndex
  /\ i.writeKind = j.writeKind
  /\ i.symbolName = j.symbolName

(***************************************************************************)
(* A step of Advance is done with an opcode and goes to the next, or       *)
(* yields, or finds the end.                                               *)
(***************************************************************************)

Moves ==
  /\ pc = "advance" /\ pc' = "advance" /\ last' = NoneLeft /\ ~atEnd /\ stream # <<>>
  /\ info.error = "None" /\ Byte.op \notin {"Threaded", "Unrecognized"}
  /\ UNCHANGED bindKind
  /\ \E i \in InfoType :
       /\ KnowsAs(i, info)
       /\ i.newSymbolName = (info.newSymbolName \/ Byte.op = "SetSymbolTrailingFlagsImm")
       /\ NextOpcode(i)

Yields ==
  /\ pc = "advance" /\ pc' = "yielded" /\ ~atEnd /\ stream # <<>>
  /\ UNCHANGED <<bindKind, stream, reachedEnd, atEnd>>
  /\ info' \in InfoType /\ KnowsAs(info', info)
  /\ info'.newSymbolName = info.newSymbolName /\ info'.skip = info.skip
  /\ info.error # "None" => info'.error = info.error
  /\ info.error = "None" /\ Byte.op = "Unrecognized" => info'.error = "UnrecognizedBindOpcode"
  /\ Byte.op = "SetSymbolTrailingFlagsImm" => info.error # "None"
  /\ info'.error = "None" /\ Byte.op = "DoBind" => CheckIfCanBind = "None"
  /\ info'.error \in NotReady => info'.error \in {info.error, CheckIfCanBind}
  /\ info'.error = "None" /\ Byte.op = "Threaded" =>
       /\ Byte.m = ThreadedApply /\ HasData(SegVmAddr)
       /\ info'.addrInSeg = ToUnsigned(info.addrInSeg + PtrSize)
  /\ last' \in RunOps => last' = Byte.op /\ info'.error = "None"

Ends ==
  /\ pc = "advance" /\ pc' = "end" /\ atEnd
  /\ UNCHANGED <<bindKind, stream, reachedEnd, atEnd, info>>

\* What is known of the current opcode.
LEMMA CurrentOpcode ==
  ASSUME TypeInv, CurrentInv, pc # "end", ~atEnd
  PROVE  stream # <<>> /\ Byte \in Opcodes /\ Len(stream) \in 1..Len(stream)
<1>1. stream \in Seq(Opcodes) /\ stream # <<>>
  BY DEF TypeInv, CurrentInv
<1>2. Len(stream) \in 1..Len(stream)
  BY <1>1
<1> QED
  BY <1>1, <1>2 DEF Byte

\* Returning from Advance().
LEMMA YieldFields ==
  ASSUME info \in InfoType, NEW e \in Errors, Yield(e)
  PROVE  /\ pc' = "yielded" /\ info' \in InfoType /\ KnowsAs(info', info) /\ info'.error = e
         /\ info'.newSymbolName = info.newSymbolName /\ info'.skip = info.skip
         /\ info'.addrInSeg = info.addrInSeg
BY DEF Yield, InfoType, KnowsAs

\* Moving the address.
LEMMA AddressMoved ==
  ASSUME info \in InfoType, NEW a \in 0..UMax
  PROVE  LET i == [info EXCEPT !.addrInSeg = a]
         IN  /\ i \in InfoType /\ KnowsAs(i, info) /\ i.newSymbolName = info.newSymbolName
             /\ i.addrInSeg = a /\ i.error = info.error /\ i.skip = info.skip
BY DEF InfoType, KnowsAs

LEMMA AddChangeFits ==
  ASSUME NEW sum \in Signed, NEW add \in Int
  PROVE  AddChange(sum, add) \in Signed
BY DEF AddChange, FitsSigned, Signed

LEMMA CheckIfCanBindFits == CheckIfCanBind \in Errors
BY DEF CheckIfCanBind, Errors

LEMMA ScanningFields ==
  ASSUME TypeInv, CurrentInv, NEW ops, Scanning(ops)
  PROVE  /\ pc = "advance" /\ last = NoneLeft /\ ~atEnd /\ stream # <<>>
         /\ info.error = "None" /\ Byte.op \in ops /\ NoneLeft \notin RunOps
BY CurrentOpcode DEF Scanning, NoneLeft, RunOps

LEMMA RepeatBindStep == ASSUME TypeInv, CurrentInv, RepeatBind PROVE (Moves \/ Yields) /\ WorkTypes'
<1> DEFINE once == [info EXCEPT !.addrInSeg = ToUnsigned(@ + addAmt)]
           twice == [once EXCEPT !.addrInSeg = ToUnsigned(@ + addAmt)]
<1>1. /\ pc = "advance" /\ last = "DoBindUlebTimesSkippingUleb" /\ last \in RunOps /\ ~atEnd
      /\ Byte.op = last /\ info.error = "None" /\ stream # <<>> /\ info \in InfoType
      /\ count # 0 /\ count' = count - 1
      /\ UNCHANGED <<bindKind, table, segAdd, addAmt>>
  BY DEF RepeatBind, RunOps, CurrentInv, TypeInv
<1>2. addAmt \in Int /\ info.addrInSeg \in Int /\ count' \in 0..UMax
  BY <1>1, Widths DEF TypeInv, WorkTypes, InfoType
<1>3. ToUnsigned(info.addrInSeg + addAmt) \in 0..UMax
  BY <1>2, UnsignedFits
<1>4. /\ once \in InfoType /\ KnowsAs(once, info) /\ once.newSymbolName = info.newSymbolName
      /\ once.error = info.error /\ once.skip = info.skip /\ once.addrInSeg \in 0..UMax
  BY <1>1, <1>3, AddressMoved
<1> HIDE DEF once
<1>5. ToUnsigned(once.addrInSeg + addAmt) \in 0..UMax
  <2>1. once.addrInSeg \in Int
    BY <1>4, Widths
  <2> QED
    BY <1>2, <2>1, UnsignedFits
<1>6. /\ twice \in InfoType /\ KnowsAs(twice, info) /\ twice.newSymbolName = info.newSymbolName
  BY <1>4, <1>5 DEF InfoType, KnowsAs
<1> HIDE DEF twice
<1>7. CASE count' # 0
  <2>1. info' = once /\ pc' = "yielded" /\ UNCHANGED <<stream, reachedEnd, atEnd, last>>
    BY <1>7 DEF RepeatBind, once
  <2>2. Yields
    BY <1>1, <1>4, <2>1 DEF Yields, NotReady
  <2> QED
    BY <1>1, <1>2, <2>1, <2>2 DEF TypeInv, WorkTypes
<1>8. CASE count' = 0
  <2>1. last' = NoneLeft /\ NextOpcode(twice) /\ UNCHANGED pc
    BY <1>8 DEF RepeatBind, once, twice
  <2>2. Byte.op \notin {"Threaded", "Unrecognized", "SetSymbolTrailingFlagsImm"}
        /\ info.newSymbolName \in BOOLEAN
    BY <1>1 DEF InfoType
  <2>3. Moves
    BY <1>1, <1>6, <2>1, <2>2 DEF Moves
  <2> QED
    BY <1>1, <1>2, <2>1, <2>3 DEF TypeInv, WorkTypes
<1> QED
  BY <1>7, <1>8

LEMMA FinalizeBindStep == ASSUME TypeInv, CurrentInv, FinalizeBind PROVE Moves /\ WorkTypes'
<1> DEFINE moved == [info EXCEPT !.addrInSeg = ToUnsigned(@ + segAdd)]
<1>1. /\ pc = "advance" /\ last \in RunOps /\ ~atEnd
      /\ Byte.op = last /\ info.error = "None" /\ stream # <<>> /\ info \in InfoType
      /\ segAdd' = 0 /\ last' = NoneLeft /\ NextOpcode(moved)
      /\ UNCHANGED <<bindKind, pc, table, addAmt, count>>
  BY DEF FinalizeBind, RunOps, CurrentInv, TypeInv
<1>2. info.addrInSeg + segAdd \in Int
  <2>1. info.addrInSeg \in 0..UMax /\ segAdd \in Signed
    BY <1>1 DEF TypeInv, WorkTypes, InfoType
  <2> QED
    BY <2>1, Widths DEF Signed
<1>3. ToUnsigned(info.addrInSeg + segAdd) \in 0..UMax
  BY <1>2, UnsignedFits
<1>4. moved \in InfoType /\ KnowsAs(moved, info) /\ moved.newSymbolName = info.newSymbolName
  BY <1>1, <1>3, AddressMoved
<1> HIDE DEF moved
<1>5. Byte.op \notin {"Threaded", "Unrecognized", "SetSymbolTrailingFlagsImm"}
  BY <1>1 DEF RunOps
<1>6. info.newSymbolName \in BOOLEAN
  BY <1>1 DEF InfoType
<1>7. Moves
  BY <1>1, <1>4, <1>5, <1>6 DEF Moves
<1> QED
  BY <1>1, <1>7, Widths DEF TypeInv, WorkTypes, Signed

LEMMA ScanErrorStep == ASSUME TypeInv, CurrentInv, ScanError PROVE Yields /\ WorkTypes'
<1>1. /\ pc = "advance" /\ last = NoneLeft /\ ~atEnd /\ stream # <<>> /\ info \in InfoType
      /\ UNCHANGED <<bindKind, stream, reachedEnd, atEnd, table, last, segAdd, addAmt, count>>
  BY CurrentOpcode DEF ScanError, TypeInv
<1>2. WorkTypes'
  BY <1>1 DEF TypeInv, WorkTypes
<1>3. NoneLeft \notin RunOps
  BY DEF NoneLeft, RunOps
<1>4. CASE info.error # "None" /\ Yield(info.error)
  <2>1. info.error \in Errors
    BY <1>1 DEF InfoType
  <2> QED
    BY <1>1, <1>2, <1>3, <1>4, <2>1, YieldFields DEF Yields, NotReady
<1>5. CASE Scanning({"Unrecognized"}) /\ Yield("UnrecognizedBindOpcode")
  <2>1. "UnrecognizedBindOpcode" \in Errors
    BY DEF Errors, FatalErrors
  <2>2. Byte.op = "Unrecognized" /\ info.error = "None"
    BY <1>5 DEF Scanning
  <2> QED
    BY <1>1, <1>2, <1>3, <1>5, <2>1, <2>2, YieldFields DEF Yields, NotReady
<1> QED
  BY <1>4, <1>5 DEF ScanError

LEMMA ScanSetupStep == ASSUME TypeInv, CurrentInv, ScanSetup PROVE Moves /\ WorkTypes'
<1> DEFINE new == info.newSymbolName \/ Byte.op = "SetSymbolTrailingFlagsImm"
           a == IF Byte.op = "SetSegmentAndOffsetUleb" THEN info.segOffset ELSE info.addrInSeg
           i == [info EXCEPT !.newSymbolName = new, !.addrInSeg = a]
<1>1. /\ pc = "advance" /\ last = NoneLeft /\ ~atEnd /\ stream # <<>> /\ info \in InfoType
      /\ info.error = "None" /\ Byte.op \notin {"Threaded", "Unrecognized"}
      /\ UNCHANGED <<bindKind, pc, table, last, segAdd, addAmt, count>>
  BY ScanningFields DEF ScanSetup, DylibOpcodes, TypeInv
<1>2. NextOpcode(i)
  BY DEF ScanSetup
<1>3. new \in BOOLEAN /\ a \in 0..UMax
  BY <1>1 DEF InfoType
<1> HIDE DEF new, a
<1>4. i \in InfoType /\ KnowsAs(i, info) /\ i.newSymbolName = new
  BY <1>1, <1>3 DEF InfoType, KnowsAs
<1> HIDE DEF i
<1>5. Moves
  BY <1>1, <1>2, <1>4 DEF Moves, new
<1> QED
  BY <1>1, <1>5 DEF TypeInv, WorkTypes

LEMMA ScanAddAddrStep ==
  ASSUME TypeInv, CurrentInv, ScanAddAddr PROVE (Moves \/ Yields) /\ WorkTypes'
<1> DEFINE sum == info.addrInSeg + info.addAddr
<1>1. /\ pc = "advance" /\ last = NoneLeft /\ ~atEnd /\ stream # <<>> /\ info \in InfoType
      /\ info.error = "None" /\ Byte.op = "AddAddrUleb" /\ NoneLeft \notin RunOps
      /\ UNCHANGED <<bindKind, table, last, segAdd, addAmt, count>>
  BY ScanningFields DEF ScanAddAddr, TypeInv
<1>2. WorkTypes'
  BY <1>1 DEF TypeInv, WorkTypes
<1>3. CASE FitsUnsigned(sum)
  <2> DEFINE i == [info EXCEPT !.addrInSeg = sum]
  <2>1. i \in InfoType /\ KnowsAs(i, info) /\ i.newSymbolName = info.newSymbolName
    BY <1>1, <1>3, AddressMoved DEF FitsUnsigned
  <2>2. NextOpcode(i) /\ UNCHANGED pc
    BY <1>3 DEF ScanAddAddr
  <2> HIDE DEF i
  <2>3. info.newSymbolName \in BOOLEAN
    BY <1>1 DEF InfoType
  <2>4. Moves
    BY <1>1, <2>1, <2>2, <2>3 DEF Moves
  <2> QED
    BY <1>2, <2>4
<1>4. CASE ~FitsUnsigned(sum)
  <2>1. Yield("OutOfBoundsSegmentAddr") /\ UNCHANGED <<stream, reachedEnd, atEnd>>
    BY <1>4 DEF ScanAddAddr
  <2>2. "OutOfBoundsSegmentAddr" \in Errors
    BY DEF Errors
  <2> QED
    BY <1>1, <1>2, <2>1, <2>2, YieldFields DEF Yields, NotReady
<1> QED
  BY <1>3, <1>4

LEMMA ScanBindStep == ASSUME TypeInv, CurrentInv, ScanBind PROVE Yields /\ WorkTypes'
<1> DEFINE fails == AddChangeFails(segAdd, PtrSize)
           full == ~fails /\ info.threadedCount # 0 /\ ThreadedTableIsFull
           e == IF fails THEN "OutOfBoundsSegmentAddr"
                ELSE IF full THEN "TooManyThreadedBinds" ELSE "None"
<1>1. /\ pc = "advance" /\ last = NoneLeft /\ ~atEnd /\ stream # <<>> /\ info \in InfoType
      /\ info.error = "None" /\ Byte.op = "DoBind" /\ NoneLeft \notin RunOps
      /\ UNCHANGED <<bindKind, stream, reachedEnd, atEnd, addAmt, count>>
  BY ScanningFields DEF ScanBind, TypeInv
<1>2. CASE CheckIfCanBind # "None"
  <2>1. Yield(CheckIfCanBind) /\ UNCHANGED <<segAdd, table, last>>
    BY <1>2 DEF ScanBind
  <2>2. Yields
    BY <1>1, <1>2, <2>1, CheckIfCanBindFits, YieldFields DEF Yields, NotReady
  <2> QED
    BY <1>1, <2>1, <2>2 DEF TypeInv, WorkTypes
<1>3. CASE CheckIfCanBind = "None"
  <2>1. /\ segAdd' = AddChange(segAdd, PtrSize) /\ Yield(e)
        /\ table' = IF ~fails /\ ~full /\ info.threadedCount # 0
                    THEN [table EXCEPT !.size = @ + 1] ELSE table
        /\ last' = IF fails \/ full THEN last ELSE Byte.op
    BY <1>3 DEF ScanBind
  <2>2. e \in Errors \ NotReady
    BY DEF Errors, NotReady
  <2>3. segAdd' \in Signed
    BY <2>1, Widths, AddChangeFits DEF TypeInv, WorkTypes
  <2>4. table' \in [cap : Nat, size : Nat] /\ table'.size <= table'.cap
    <3>1. table \in [cap : Nat, size : Nat] /\ table.size <= table.cap
      BY DEF TypeInv, WorkTypes
    <3>2. ~fails /\ ~full /\ info.threadedCount # 0 => table.size # table.cap
      BY DEF ThreadedTableIsFull
    <3> QED
      BY <2>1, <3>1, <3>2
  <2>5. (last' = NoneLeft \/ (last' = "DoBind" /\ e = "None")) /\ "DoBind" \in RunOps
    BY <1>1, <2>1 DEF RunOps
  <2> HIDE DEF e
  <2>6. Yields
    BY <1>1, <1>3, <2>1, <2>2, <2>5, YieldFields DEF Yields, NotReady
  <2> QED
    BY <1>1, <2>3, <2>4, <2>5, <2>6 DEF TypeInv, WorkTypes
<1> QED
  BY <1>2, <1>3

LEMMA ScanBindAddAddrStep ==
  ASSUME TypeInv, CurrentInv, ScanBindAddAddr PROVE Yields /\ WorkTypes'
<1> DEFINE add == IF Byte.op = "DoBindAddAddrUleb" THEN info.addAddr
                  ELSE PtrSize * info.skip + PtrSize
           afterAdd == AddChange(segAdd, add)
           again == Byte.op = "DoBindAddAddrUleb" /\ AddChangeFails(afterAdd, PtrSize)
<1>1. /\ pc = "advance" /\ last = NoneLeft /\ ~atEnd /\ stream # <<>> /\ info \in InfoType
      /\ info.error = "None" /\ NoneLeft \notin RunOps
      /\ Byte.op \in {"DoBindAddAddrUleb", "DoBindAddAddrImmScaled"}
      /\ UNCHANGED <<bindKind, stream, reachedEnd, atEnd, table, addAmt, count>>
  BY ScanningFields DEF ScanBindAddAddr, TypeInv
<1>2. add \in Int /\ PtrSize \in Int
  BY <1>1, Widths, SMTT(30) DEF InfoType, Signed
<1>3. afterAdd \in Signed
  BY <1>2, AddChangeFits DEF TypeInv, WorkTypes
<1>4. AddChange(afterAdd, PtrSize) \in Signed
  BY <1>2, <1>3, AddChangeFits
<1>5. /\ segAdd' \in {afterAdd, AddChange(afterAdd, PtrSize)}
      /\ \/ Yield("OutOfBoundsSegmentAddr") /\ UNCHANGED last
         \/ Yield("None") /\ last' = IF again THEN last ELSE Byte.op
  BY DEF ScanBindAddAddr
<1> HIDE DEF add, afterAdd, again
<1>6. last' \in {NoneLeft, Byte.op}
  BY <1>1, <1>5
<1>7. {"OutOfBoundsSegmentAddr", "None"} \subseteq Errors
  BY DEF Errors
<1>8. Yields
  BY <1>1, <1>5, <1>6, <1>7, YieldFields DEF Yields, NotReady
<1> QED
  BY <1>1, <1>3, <1>4, <1>5, <1>6, <1>8 DEF TypeInv, WorkTypes, RunOps

LEMMA ScanBindTimesStep ==
  ASSUME TypeInv, CurrentInv, ScanBindTimes PROVE Yields /\ WorkTypes'
<1> DEFINE step == PtrSize + info.skip
           n == ToUnsigned(info.addAddr)
<1>1. /\ pc = "advance" /\ last = NoneLeft /\ ~atEnd /\ stream # <<>> /\ info \in InfoType
      /\ info.error = "None" /\ NoneLeft \notin RunOps
      /\ Byte.op = "DoBindUlebTimesSkippingUleb" /\ Byte.op \in RunOps
      /\ UNCHANGED <<bindKind, stream, reachedEnd, atEnd, table, segAdd>>
  BY ScanningFields DEF ScanBindTimes, TypeInv, RunOps
<1>2. n \in Int /\ step \in Int
  <2>1. info.addAddr \in Int /\ info.skip \in Int
    BY <1>1, Widths DEF InfoType, Signed
  <2> QED
    BY <2>1, UnsignedFits, Widths
<1>3. ToUnsigned(n - 1) \in 0..UMax /\ ToUnsigned(step) \in 0..UMax
  BY <1>2, UnsignedFits
<1>4. \/ /\ last' = Byte.op /\ addAmt' = ToUnsigned(step) /\ count' = ToUnsigned(n - 1)
         /\ Yield("None")
      \/ Yield("OutOfBoundsSegmentAddr") /\ UNCHANGED <<last, addAmt, count>>
  BY DEF ScanBindTimes
<1> HIDE DEF n, step
<1>5. {"OutOfBoundsSegmentAddr", "None"} \subseteq Errors
  BY DEF Errors
<1>6. Yields
  BY <1>1, <1>4, <1>5, YieldFields DEF Yields, NotReady
<1> QED
  BY <1>1, <1>3, <1>4, <1>6 DEF TypeInv, WorkTypes

LEMMA ScanTableSizeStep ==
  ASSUME TypeInv, CurrentInv, ScanTableSize PROVE Yields /\ WorkTypes'
<1>1. /\ pc = "advance" /\ last = NoneLeft /\ ~atEnd /\ stream # <<>> /\ info \in InfoType
      /\ info.error = "None" /\ NoneLeft \notin RunOps /\ Byte.op = "Threaded"
      /\ UNCHANGED <<bindKind, stream, reachedEnd, atEnd, last, segAdd, addAmt, count>>
      /\ Yield("UnrecognizedBindSubOpcode")
      /\ table' \in {[cap |-> info.threadedCount, size |-> 0], table}
  BY ScanningFields DEF ScanTableSize, TypeInv
<1>2. "UnrecognizedBindSubOpcode" \in Errors
  BY DEF Errors
<1>3. Yields
  BY <1>1, <1>2, YieldFields DEF Yields, NotReady
<1>4. table' \in [cap : Nat, size : Nat] /\ table'.size <= table'.cap
  BY <1>1 DEF TypeInv, WorkTypes, InfoType
<1> QED
  BY <1>1, <1>3, <1>4 DEF TypeInv, WorkTypes

LEMMA ScanThreadedApplyStep ==
  ASSUME TypeInv, CurrentInv, ScanThreadedApply PROVE Yields /\ WorkTypes'
<1>1. /\ pc = "advance" /\ last = NoneLeft /\ ~atEnd /\ stream # <<>> /\ info \in InfoType
      /\ info.error = "None" /\ NoneLeft \notin RunOps /\ Byte.op = "Threaded"
      /\ SubOpcode(info) = ThreadedApply
      /\ UNCHANGED <<bindKind, stream, reachedEnd, atEnd, table, last, segAdd, count>>
  BY ScanningFields DEF ScanThreadedApply, TypeInv
<1>2. Byte.m = ThreadedApply /\ info.segmentIndex \in DOMAIN Image
  BY <1>1 DEF CurrentInv
<1>3. addAmt' \in {0, addAmt}
  BY DEF ScanThreadedApply
<1>4. WorkTypes'
  BY <1>1, <1>3, Widths DEF TypeInv, WorkTypes
<1>5. CASE ThreadedTableIsFull /\ HasData(SegVmAddr)
  <2>1. info' = [info EXCEPT !.addrInSeg = ToUnsigned(info.addrInSeg + PtrSize)]
        /\ pc' = "yielded"
    BY <1>5 DEF ScanThreadedApply
  <2>2. ToUnsigned(info.addrInSeg + PtrSize) \in 0..UMax
    <3>1. info.addrInSeg + PtrSize \in Int
      BY <1>1, Widths DEF InfoType
    <3> QED
      BY <3>1, UnsignedFits
  <2>3. /\ info' \in InfoType /\ KnowsAs(info', info) /\ info'.error = info.error
        /\ info'.newSymbolName = info.newSymbolName /\ info'.skip = info.skip
        /\ info'.addrInSeg = ToUnsigned(info.addrInSeg + PtrSize)
    BY <1>1, <2>1, <2>2, AddressMoved
  <2>4. Yields
    BY <1>1, <1>2, <1>5, <2>1, <2>3 DEF Yields, NotReady
  <2> QED
    BY <1>4, <2>4
<1>6. CASE ~(ThreadedTableIsFull /\ HasData(SegVmAddr))
  <2>1. Yield("NotEnoughThreadedBinds") \/ Yield("OutOfBoundsSegmentAddr")
    BY <1>6 DEF ScanThreadedApply
  <2>2. {"NotEnoughThreadedBinds", "OutOfBoundsSegmentAddr"} \subseteq Errors
    BY DEF Errors
  <2>3. Yields
    BY <1>1, <2>1, <2>2, YieldFields DEF Yields, NotReady
  <2> QED
    BY <1>4, <2>3
<1> QED
  BY <1>5, <1>6

LEMMA ScanEndStep == ASSUME TypeInv, CurrentInv, ScanEnd PROVE Ends /\ WorkTypes'
BY DEF ScanEnd, Ends, TypeInv, WorkTypes

LEMMA AdvanceStep ==
  ASSUME TypeInv, CurrentInv, Advance PROVE (Moves \/ Yields \/ Ends) /\ WorkTypes'
BY RepeatBindStep, FinalizeBindStep, ScanErrorStep, ScanSetupStep, ScanAddAddrStep,
   ScanBindStep, ScanBindAddAddrStep, ScanBindTimesStep, ScanTableSizeStep,
   ScanThreadedApplyStep, ScanEndStep DEF Advance


(***************************************************************************)
(* What the lists keep of the opcodes                                      *)
(***************************************************************************)

\* What i knows is what the opcodes of s set last.
KnownFrom(kind, s, i) ==
  /\ i.symbolName = SymbolSet(kind, s, Len(s))
  /\ i.dylibOrdinal = DylibSet(kind, s, Len(s))
  /\ i.addend = AddendSet(kind, s, Len(s))
  /\ i.segmentIndex = SegmentSet(kind, s, Len(s))
  /\ (\A j \in 1..Len(s) : ReadError(kind, s[j]) # "UnrecognizedBindWriteKind") =>
       i.writeKind = KindSet(kind, s, Len(s))

\* Where the opcode of the last action is, 0 if there is none yet.
LastAt == IF list = <<>> THEN 0 ELSE list[Len(list)].at

Going == pc # "end" /\ ~atEnd

\* The name is new while its first action is to come, and else it is listed.
NameIsListed ==
  Going =>
    /\ info.newSymbolName <=> \E j \in (LastAt + 1)..(Len(stream) - 1) :
                                 stream[j].op = "SetSymbolTrailingFlagsImm"
    /\ LastAt = Len(stream) => Byte.op # "SetSymbolTrailingFlagsImm"
    /\ info.symbolName # NoString =>
         \/ info.newSymbolName
         \/ /\ pc = "advance" /\ Byte.op = "SetSymbolTrailingFlagsImm"
            /\ ReadError(bindKind, Byte) = "None"
         \/ \E i \in 1..Len(symbols) : /\ symbols[i].symbol = info.symbolName
                                       /\ symbols[i].at <= Len(stream)
    /\ pc = "yielded" /\ Byte.op = "SetSymbolTrailingFlagsImm" => info.error # "None"

\* A bind that is about to be listed is ready, or is refused for what it lacks.
YieldedIsReady ==
  pc = "yielded" =>
    /\ info.error = "None" /\ Byte.op = "DoBind" =>
         info.dylibOrdinal # -1 /\ info.segmentIndex # -1 /\ info.writeKind # NoWriteKind
    /\ info.error = "NoDylibOrdinal" => info.dylibOrdinal = -1
    /\ info.error = "NoSegmentIndex" => info.segmentIndex = -1
    /\ info.error = "NoWriteKind" => info.writeKind = NoWriteKind

\* What ActionsAreComplete says of action k.
IsComplete(k) ==
  /\ list[k].symbol = SymbolSet(bindKind, stream, list[k].at)
  /\ list[k].dylib = DylibSet(bindKind, stream, list[k].at)
  /\ list[k].addend = AddendSet(bindKind, stream, list[k].at)
  /\ list[k].segment = SegmentSet(bindKind, stream, list[k].at)
  /\ KindsAreKnown(list[k].at) => list[k].kind = KindSet(bindKind, stream, list[k].at)
  /\ list[k].isNew <=>
       \E j \in ((IF k = 1 THEN 0 ELSE list[k - 1].at) + 1)..(list[k].at - 1) :
          stream[j].op = "SetSymbolTrailingFlagsImm"
  /\ list[k].symbol # NoString =>
       \E i \in 1..Len(symbols) : /\ symbols[i].symbol = list[k].symbol
                                  /\ symbols[i].at <= list[k].at
  /\ list[k].error = "None" /\ stream[list[k].at].op = "DoBind" =>
       list[k].dylib # -1 /\ list[k].segment # -1 /\ list[k].kind # NoWriteKind
  /\ list[k].error = "NoDylibOrdinal" => list[k].dylib = -1
  /\ list[k].error = "NoSegmentIndex" => list[k].segment = -1
  /\ list[k].error = "NoWriteKind" => list[k].kind = NoWriteKind

CompleteInv ==
  /\ Going => KnownFrom(bindKind, stream, info)
  /\ NameIsListed
  /\ YieldedIsReady
  /\ \A k \in 1..Len(list) : IsComplete(k)

\* The error of opcode j was lost.
Lost(j) ==
  /\ stream[j].op # "Unrecognized"
  /\ \/ j = 1
     \/ \E k \in 1..Len(list) : list[k].at = j - 1 /\ list[k].error # "None"

FatalInv ==
  /\ FatalErrorsStop
  /\ Going /\ ReadError(bindKind, Byte) \in FatalErrors =>
       \/ info.error \in FatalErrors
       \/ pc = "advance" /\ Byte.op = "Unrecognized"
       \/ Lost(Len(stream))

\* The image has a pointer before this address of the segment.
PointerBefore(index, addr) ==
  InASection(ToUnsigned(Image[index].mem.begin + addr - PtrSize))

\* What the list has from THREADED: the pointer before the address is in the image,
\* and the addresses are a pointer apart.
ThreadedRight(k) ==
  /\ PointerBefore(list[k].segment, list[k].addr)
  /\ k > 1 /\ list[k - 1].at = list[k].at =>
       list[k].addr = ToUnsigned(list[k - 1].addr + PtrSize)

ThreadedListed ==
  \A k \in 1..Len(list) :
    stream[list[k].at].op = "Threaded" /\ list[k].error = "None" => ThreadedRight(k)

ThreadedInv ==
  /\ ThreadedListed
  /\ Going /\ Byte.op = "Threaded" =>
       /\ pc = "yielded" /\ info.error = "None" =>
            PointerBefore(info.segmentIndex, info.addrInSeg)
       /\ LastAt = Len(stream) =>
            LET addr == list[Len(list)].addr
            IN /\ pc = "advance" => info.addrInSeg = addr
               /\ pc = "yielded" /\ info.error = "None" =>
                    info.addrInSeg = ToUnsigned(addr + PtrSize)

(***************************************************************************)
(* What the iterator reads                                                 *)
(***************************************************************************)

\* j is what i becomes with opcode o, but for its error.
Learns(kind, i, o, j) ==
  /\ Learnt(kind, i, o, j)
  /\ o.op = "Threaded" => /\ SubOpcode(j) = o.m
                          /\ o.m = ThreadedApply => j.segmentIndex \in DOMAIN Image

\* After the opcodes of s, the iterator goes to the next opcode or to the last
\* byte, from what i knows; it forgets an error of that opcode or keeps it.
ReadsAfter(s, i, new, forgets) ==
  /\ info' \in InfoType /\ reachedEnd' \in BOOLEAN /\ atEnd' \in BOOLEAN
  /\ info'.newSymbolName = new
  /\ \/ stream' = s /\ atEnd' = TRUE /\ KnowsAs(info', i) /\ info'.error = "None"
     \/ \E o \in Opcodes :
          /\ stream' = Append(s, o) /\ Learns(bindKind', i, o, info')
          /\ info'.error = IF forgets THEN "None" ELSE ReadError(bindKind', o)

Reads(i, new, forgets) == ReadsAfter(stream, i, new, forgets)

LEMMA BeginAdvanceFields ==
  ASSUME NEW i \in InfoType
  PROVE  /\ BeginAdvance(i) \in InfoType /\ KnowsAs(BeginAdvance(i), i)
         /\ BeginAdvance(i).error = "None" /\ BeginAdvance(i).newSymbolName = FALSE
         /\ BeginAdvance(i).addrInSeg = i.addrInSeg /\ BeginAdvance(i).skip = i.skip
<1>1. "None" \in Errors
  BY DEF Errors
<1> QED
  BY <1>1 DEF BeginAdvance, InfoType, KnowsAs

LEMMA InitInfoFits ==
  InitInfo \in InfoType /\ InitInfo.newSymbolName = FALSE /\ InitInfo.error = "None"
<1>1. "None" \in Errors
  BY DEF Errors
<1> QED
  BY <1>1, Widths DEF InitInfo, InfoType, Signed, NoWriteKind

\* An opcode that is read, with or without its error forgotten.
LEMMA AtOpcodeReads ==
  ASSUME NEW i \in InfoType, NEW o \in Opcodes, NEW kind, NEW s, NEW reached \in BOOLEAN,
         NEW r, NEW forgets \in BOOLEAN, bindKind' = kind,
         r = IF forgets THEN BeginAdvance(ReadOpcode(kind, i, o)) ELSE ReadOpcode(kind, i, o),
         AtOpcode(kind, s, reached, o, r)
  PROVE  ReadsAfter(s, i, IF forgets THEN FALSE ELSE i.newSymbolName, forgets)
<1> DEFINE read == ReadOpcode(kind, i, o)
<1>1. /\ read \in InfoType
      /\ read.error = ReadError(kind, o)
      /\ read.newSymbolName = i.newSymbolName
      /\ read.addrInSeg = i.addrInSeg
      /\ Learnt(kind, i, o, read)
      /\ o.op = "Threaded" => SubOpcode(read) = o.m
  BY ReadOpcodeFields
<1> HIDE DEF read
<1>2. /\ r \in InfoType /\ KnowsAs(r, read) /\ r.skip = read.skip
      /\ r.error = IF forgets THEN "None" ELSE ReadError(kind, o)
      /\ r.newSymbolName = IF forgets THEN FALSE ELSE i.newSymbolName
  <2>1. CASE forgets
    <3>1. r = BeginAdvance(read)
      BY <2>1 DEF read
    <3> QED
      BY <1>1, <2>1, <3>1, BeginAdvanceFields, ZenonT(60)
  <2>2. CASE ~forgets
    <3>1. r = read
      BY <2>2 DEF read
    <3> QED
      BY <1>1, <2>2, <3>1 DEF KnowsAs
  <2> QED
    BY <2>1, <2>2
<1>3. /\ HasSegment(r, o) /\ stream' = Append(s, o) /\ info' = r
      /\ reachedEnd' = (reached \/ o.op = "Done")
      /\ IF kind = "Lazy" THEN atEnd' \in BOOLEAN ELSE atEnd' = reachedEnd'
  BY DEF AtOpcode
<1>4. reachedEnd' \in BOOLEAN /\ atEnd' \in BOOLEAN
  BY <1>3
<1>5. Learns(kind, i, o, r)
  BY <1>1, <1>2, <1>3 DEF Learns, Learnt, KnowsAs, SubOpcode, HasSegment
<1> QED
  BY <1>2, <1>3, <1>4, <1>5 DEF ReadsAfter

LEMMA AtLastByteReads ==
  ASSUME NEW i \in InfoType, NEW kind, NEW s, NEW r \in InfoType, NEW new,
         NEW forgets \in BOOLEAN, KnowsAs(r, i), r.error = "None", r.newSymbolName = new,
         AtLastByte(kind, s, r)
  PROVE  ReadsAfter(s, i, new, forgets)
BY DEF AtLastByte, ReadsAfter

LEMMA NextOpcodeReads ==
  ASSUME TypeInv, NEW i \in InfoType, NextOpcode(i), UNCHANGED bindKind
  PROVE  Reads(i, i.newSymbolName, FALSE)
<1>1. CASE AtLastByte(bindKind, stream, [i EXCEPT !.error = "None"])
  <2> DEFINE r == [i EXCEPT !.error = "None"]
  <2>0. "None" \in Errors
    BY DEF Errors
  <2>1. r \in InfoType /\ KnowsAs(r, i) /\ r.error = "None" /\ r.newSymbolName = i.newSymbolName
    BY <2>0 DEF InfoType, KnowsAs
  <2>2. AtLastByte(bindKind, stream, r)
    BY <1>1
  <2> HIDE DEF r
  <2> QED
    BY <2>1, <2>2, AtLastByteReads DEF Reads
<1>2. ASSUME NEW o \in Opcodes,
             AtOpcode(bindKind, stream, reachedEnd, o, ReadOpcode(bindKind, i, o))
      PROVE  Reads(i, i.newSymbolName, FALSE)
  <2>1. reachedEnd \in BOOLEAN
    BY DEF TypeInv
  <2>2. Reads(i, IF FALSE THEN FALSE ELSE i.newSymbolName, FALSE)
    BY <1>2, <2>1, AtOpcodeReads DEF Reads
  <2> QED
    BY <2>2
<1> QED
  BY <1>1, <1>2 DEF NextOpcode

LEMMA ResumeReads ==
  ASSUME TypeInv, Resume, info.error # "None"
  PROVE  Reads(info, FALSE, TRUE)
<1>0. info \in InfoType /\ reachedEnd \in BOOLEAN /\ bindKind' = bindKind
  BY DEF TypeInv, Resume
<1>1. CASE AtLastByte(bindKind, stream, BeginAdvance(info))
  BY <1>0, <1>1, BeginAdvanceFields, AtLastByteReads DEF Reads
<1>2. ASSUME NEW o \in Opcodes,
             AtOpcode(bindKind, stream, reachedEnd, o, BeginAdvance(ReadOpcode(bindKind, info, o)))
      PROVE  Reads(info, FALSE, TRUE)
  <2>2. Reads(info, IF TRUE THEN FALSE ELSE info.newSymbolName, TRUE)
    BY <1>0, <1>2, AtOpcodeReads DEF Reads
  <2> QED
    BY <2>2
<1> QED
  BY <1>1, <1>2 DEF Resume

LEMMA OpenReads ==
  ASSUME NEW kind, Open(kind)
  PROVE  ReadsAfter(<<>>, InitInfo, FALSE, TRUE)
<1>1. CASE AtLastByte(kind, <<>>, InitInfo)
  BY <1>1, InitInfoFits, AtLastByteReads DEF KnowsAs
<1>2. ASSUME NEW o \in Opcodes,
             AtOpcode(kind, <<>>, FALSE, o, BeginAdvance(ReadOpcode(kind, InitInfo, o)))
      PROVE  ReadsAfter(<<>>, InitInfo, FALSE, TRUE)
  <2>1. bindKind' = kind
    BY DEF Open
  <2>2. ReadsAfter(<<>>, InitInfo, IF TRUE THEN FALSE ELSE InitInfo.newSymbolName, TRUE)
    BY <1>2, <2>1, InitInfoFits, AtOpcodeReads
  <2> QED
    BY <2>2
<1> QED
  BY <1>1, <1>2 DEF Open

\* What has been read stays, and the current opcode is a new one.
LEMMA ReadsAfterFields ==
  ASSUME NEW s \in Seq(Opcodes), NEW i, NEW new, NEW forgets, ReadsAfter(s, i, new, forgets)
  PROVE  /\ stream' \in Seq(Opcodes) /\ Len(s) \in Nat
         /\ Len(stream') \in {Len(s), Len(s) + 1}
         /\ \A k \in 1..Len(s) : k \in 1..Len(stream') /\ stream'[k] = s[k]
         /\ ~atEnd' =>
              /\ Len(stream') = Len(s) + 1 /\ stream' # <<>>
              /\ Byte' \in Opcodes
              /\ Learns(bindKind', i, Byte', info')
              /\ info'.error = IF forgets THEN "None" ELSE ReadError(bindKind', Byte')
<1>1. CASE stream' = s /\ atEnd' = TRUE
  BY <1>1
<1>2. ASSUME NEW o \in Opcodes, stream' = Append(s, o), Learns(bindKind', i, o, info'),
             info'.error = IF forgets THEN "None" ELSE ReadError(bindKind', o)
      PROVE  /\ stream' \in Seq(Opcodes) /\ Len(s) \in Nat
             /\ Len(stream') = Len(s) + 1 /\ stream' # <<>>
             /\ \A k \in 1..Len(s) : k \in 1..Len(stream') /\ stream'[k] = s[k]
             /\ Byte' = o
  <2>1. /\ Append(s, o) \in Seq(Opcodes) /\ Len(s) \in Nat
        /\ Len(Append(s, o)) = Len(s) + 1
        /\ Append(s, o)[Len(s) + 1] = o
        /\ \A k \in 1..Len(s) : Append(s, o)[k] = s[k]
    OBVIOUS
  <2>2. Append(s, o) # <<>>
    BY <2>1
  <2> QED
    BY <1>2, <2>1, <2>2 DEF Byte
<1> QED
  BY <1>1, <1>2 DEF ReadsAfter

LEMMA ReadsFields ==
  ASSUME TypeInv, NEW i, NEW new, NEW forgets, Reads(i, new, forgets)
  PROVE  /\ stream' \in Seq(Opcodes) /\ Len(stream) \in Nat
         /\ Len(stream') \in {Len(stream), Len(stream) + 1}
         /\ \A k \in 1..Len(stream) : k \in 1..Len(stream') /\ stream'[k] = stream[k]
         /\ ~atEnd' =>
              /\ Len(stream') = Len(stream) + 1 /\ stream' # <<>>
              /\ Byte' \in Opcodes
              /\ Learns(bindKind', i, Byte', info')
              /\ info'.error = IF forgets THEN "None" ELSE ReadError(bindKind', Byte')
BY ReadsAfterFields DEF TypeInv, Reads

\* Where an opcode was read, or the last byte reached, nothing is resumed.
LEMMA ReadKeepsIterator ==
  ASSUME NEW s \in Seq(Opcodes), NEW i, NEW new, NEW forgets, ReadsAfter(s, i, new, forgets),
         pc' = "advance", last' \notin RunOps, bindKind' \in BindInfoKinds, WorkTypes'
  PROVE  TypeInv' /\ CurrentInv'
<1>1. /\ stream' \in Seq(Opcodes)
      /\ ~atEnd' =>
           /\ stream' # <<>> /\ Learns(bindKind', i, Byte', info')
           /\ info'.error = IF forgets THEN "None" ELSE ReadError(bindKind', Byte')
  BY ReadsAfterFields
<1>2. info' \in InfoType /\ reachedEnd' \in BOOLEAN /\ atEnd' \in BOOLEAN
  BY DEF ReadsAfter
<1>3. TypeInv'
  BY <1>1, <1>2 DEF TypeInv
<1>4. CurrentInv'
  BY <1>1 DEF CurrentInv, Learns
<1> QED
  BY <1>3, <1>4

(***************************************************************************)
(* The iterator keeps its invariants, whoever goes through the list        *)
(***************************************************************************)

LEMMA OpenKeepsIterator ==
  ASSUME NEW kind \in BindInfoKinds, Open(kind)
  PROVE  TypeInv' /\ CurrentInv'
<1>1. /\ bindKind' = kind /\ pc' = "advance" /\ last' = NoneLeft
      /\ table' = [cap |-> 0, size |-> 0] /\ segAdd' = 0 /\ addAmt' = 0 /\ count' = 0
  BY DEF Open
<1>2. WorkTypes'
  BY <1>1, Widths DEF WorkTypes, Signed
<1>3. ReadsAfter(<<>>, InitInfo, FALSE, TRUE)
  BY OpenReads
<1>4. last' \notin RunOps
  BY <1>1 DEF NoneLeft, RunOps
<1>5. <<>> \in Seq(Opcodes)
  OBVIOUS
<1> QED
  BY <1>1, <1>2, <1>3, <1>4, <1>5, ReadKeepsIterator

LEMMA AdvanceKeepsIterator ==
  ASSUME TypeInv, CurrentInv, Advance
  PROVE  TypeInv' /\ CurrentInv'
<1>1. (Moves \/ Yields \/ Ends) /\ WorkTypes'
  BY AdvanceStep
<1>2. CASE Moves
  <2>1. PICK i \in InfoType : NextOpcode(i)
    BY <1>2 DEF Moves
  <2>2. /\ bindKind' = bindKind /\ bindKind \in BindInfoKinds /\ pc' = "advance"
        /\ last' \notin RunOps /\ stream \in Seq(Opcodes)
    BY <1>2 DEF Moves, NoneLeft, RunOps, TypeInv
  <2>3. ReadsAfter(stream, i, i.newSymbolName, FALSE)
    BY <2>1, <2>2, NextOpcodeReads DEF Reads
  <2> QED
    BY <1>1, <2>2, <2>3, ReadKeepsIterator
<1>3. CASE Yields
  <2>1. /\ pc = "advance" /\ pc' = "yielded" /\ ~atEnd /\ ~atEnd' /\ stream # <<>>
        /\ stream' = stream /\ Byte' = Byte /\ bindKind' = bindKind
        /\ reachedEnd' = reachedEnd /\ atEnd' = atEnd /\ info' \in InfoType
    BY <1>3 DEF Yields, Byte
  <2>2. last' \in RunOps => last' = Byte'.op /\ info'.error = "None"
    BY <1>3, <2>1 DEF Yields
  <2>3. SubOpcode(info') = SubOpcode(info) /\ info'.segmentIndex = info.segmentIndex
    BY <1>3 DEF Yields, SubOpcode, KnowsAs
  <2>4. CurrentInv'
    BY <2>1, <2>2, <2>3 DEF CurrentInv
  <2>5. TypeInv'
    BY <1>1, <2>1 DEF TypeInv
  <2> QED
    BY <2>4, <2>5
<1>4. CASE Ends
  BY <1>1, <1>4 DEF Ends, TypeInv, CurrentInv
<1> QED
  BY <1>1, <1>2, <1>3, <1>4

LEMMA ResumeKeepsIterator ==
  ASSUME TypeInv, CurrentInv, pc = "yielded", Resume
  PROVE  TypeInv' /\ CurrentInv'
<1>1. /\ pc' = "advance" /\ UNCHANGED <<bindKind, table, last, segAdd, addAmt, count>>
      /\ bindKind \in BindInfoKinds /\ ~atEnd /\ stream # <<>>
  BY DEF Resume, TypeInv, CurrentInv
<1>2. WorkTypes'
  BY <1>1 DEF TypeInv, WorkTypes
<1>3. CASE info.error = "None"
  <2>1. /\ info' = BeginAdvance(info) /\ UNCHANGED <<stream, reachedEnd, atEnd>>
        /\ Byte' = Byte
    BY <1>3 DEF Resume, Byte
  <2>2. info' \in InfoType /\ info'.error = "None" /\ KnowsAs(info', info) /\ info'.skip = info.skip
    BY <2>1, BeginAdvanceFields DEF TypeInv
  <2>3. SubOpcode(info') = SubOpcode(info) /\ info'.segmentIndex = info.segmentIndex
    BY <2>2 DEF SubOpcode, KnowsAs
  <2>4. CurrentInv'
    BY <1>1, <2>1, <2>2, <2>3 DEF CurrentInv
  <2>5. TypeInv'
    BY <1>1, <1>2, <2>1, <2>2 DEF TypeInv
  <2> QED
    BY <2>4, <2>5
<1>4. CASE info.error # "None"
  <2>1. last' \notin RunOps /\ stream \in Seq(Opcodes)
    BY <1>1, <1>4 DEF CurrentInv, TypeInv
  <2>2. ReadsAfter(stream, info, FALSE, TRUE)
    BY <1>4, ResumeReads DEF Reads
  <2> QED
    BY <1>1, <1>2, <2>1, <2>2, ReadKeepsIterator
<1> QED
  BY <1>3, <1>4

LEMMA InitKeepsIterator == InitIterator => TypeInv /\ CurrentInv
<1> SUFFICES ASSUME InitIterator PROVE TypeInv /\ CurrentInv
  OBVIOUS
<1>1. /\ bindKind = "Normal" /\ pc = "end" /\ stream = <<>> /\ reachedEnd = FALSE
      /\ atEnd = FALSE /\ info = InitInfo /\ table = [cap |-> 0, size |-> 0]
      /\ last = NoneLeft /\ segAdd = 0 /\ addAmt = 0 /\ count = 0
  BY DEF InitIterator
<1>2. WorkTypes
  BY <1>1, Widths DEF WorkTypes, Signed
<1>3. TypeInv
  <2>1. info \in InfoType
    BY <1>1, InitInfoFits
  <2>2. bindKind \in BindInfoKinds /\ pc \in {"advance", "yielded", "end"}
    BY <1>1 DEF BindInfoKinds
  <2>3. atEnd \in BOOLEAN /\ reachedEnd \in BOOLEAN
    BY <1>1
  <2>4. stream \in Seq(Opcodes)
    BY <1>1
  <2> QED
    BY <1>2, <2>1, <2>2, <2>3, <2>4 DEF TypeInv
<1>4. CurrentInv
  BY <1>1 DEF CurrentInv
<1> QED
  BY <1>3, <1>4

(***************************************************************************)
(* The steps of the list                                                   *)
(***************************************************************************)

\* The lists hold actions of opcodes that were read, and nothing before the first
\* list of opcodes is opened.
ListInv ==
  /\ list \in Seq(EntryType) /\ symbols \in Seq(EntryType)
  /\ \A k \in 1..Len(list) : list[k].at \in 1..Len(stream)
  /\ ~opened => /\ pc = "end" /\ stream = <<>> /\ list = <<>> /\ symbols = <<>>
                /\ info = InitInfo

ListsStay == UNCHANGED <<opened, list, symbols>>

Opens ==
  /\ ~opened /\ opened' = TRUE /\ pc' = "advance" /\ last' = NoneLeft
  /\ stream = <<>> /\ list = <<>> /\ symbols = <<>>
  /\ UNCHANGED <<list, symbols>> /\ bindKind' \in BindInfoKinds
  /\ Reads(InitInfo, FALSE, TRUE)

Goes ==
  /\ pc = "advance" /\ pc' = "advance" /\ last' = NoneLeft /\ ~atEnd /\ stream # <<>>
  /\ info.error = "None" /\ Byte.op \notin {"Threaded", "Unrecognized"}
  /\ UNCHANGED bindKind /\ ListsStay
  /\ \E i \in InfoType :
       /\ KnowsAs(i, info)
       /\ Reads(i, info.newSymbolName \/ Byte.op = "SetSymbolTrailingFlagsImm", FALSE)

Keeps ==
  /\ pc = "yielded" /\ info.error \notin FatalErrors /\ pc' = "advance"
  /\ list' = Append(list, GetAction)
  /\ symbols' = IF info.newSymbolName THEN Append(symbols, GetAction) ELSE symbols
  /\ UNCHANGED <<bindKind, opened, last>>

\* An action is listed, and its opcode goes on.
Stays ==
  /\ Keeps /\ info.error = "None" /\ info' = BeginAdvance(info)
  /\ UNCHANGED <<stream, reachedEnd, atEnd>>

\* An error is listed, and its opcode left behind.
Passes == Keeps /\ info.error # "None" /\ Reads(info, FALSE, TRUE)

Rests == ListsStay /\ UNCHANGED <<bindKind, pc, stream, reachedEnd, atEnd, info, last>>

LEMMA NextStep ==
  ASSUME TypeInv, CurrentInv, ListInv, [Next]_vars
  PROVE  /\ WorkTypes'
         /\ \/ Opens \/ Goes \/ (Yields /\ ListsStay) \/ (Ends /\ ListsStay)
            \/ Stays \/ Passes \/ Rests
<1>1. CASE Begin
  <2>1. PICK kind \in Lists : Open(kind)
    BY <1>1 DEF Begin
  <2>2. /\ ~opened /\ opened' = TRUE /\ UNCHANGED <<list, symbols>>
        /\ stream = <<>> /\ list = <<>> /\ symbols = <<>>
    BY <1>1 DEF Begin, CurrentInv, ListInv
  <2>3. Reads(InitInfo, FALSE, TRUE)
    BY <2>1, <2>2, OpenReads DEF Reads
  <2>4. /\ bindKind' = kind /\ pc' = "advance" /\ last' = NoneLeft
        /\ table' = [cap |-> 0, size |-> 0] /\ segAdd' = 0 /\ addAmt' = 0 /\ count' = 0
    BY <2>1 DEF Open
  <2>5. Opens
    BY <2>2, <2>3, <2>4, ListsAssumption DEF Opens
  <2>6. WorkTypes'
    BY <2>4, Widths DEF WorkTypes, Signed
  <2> QED
    BY <2>5, <2>6
<1>2. CASE AdvanceIterator
  <2>1. Advance /\ ListsStay
    BY <1>2 DEF AdvanceIterator, ListsStay
  <2>2. (Moves \/ Yields \/ Ends) /\ WorkTypes'
    BY <2>1, AdvanceStep
  <2>3. CASE Moves
    <3>1. PICK i \in InfoType :
            /\ KnowsAs(i, info)
            /\ i.newSymbolName = (info.newSymbolName \/ Byte.op = "SetSymbolTrailingFlagsImm")
            /\ NextOpcode(i)
      BY <2>3 DEF Moves
    <3>2. UNCHANGED bindKind
      BY <2>3 DEF Moves
    <3>3. Reads(i, i.newSymbolName, FALSE)
      BY <3>1, <3>2, NextOpcodeReads
    <3>4. Reads(i, info.newSymbolName \/ Byte.op = "SetSymbolTrailingFlagsImm", FALSE)
      BY <3>1, <3>3, Zenon
    <3>5. Goes
      BY <2>1, <2>3, <3>1, <3>4, Zenon DEF Moves, Goes
    <3> QED
      BY <2>2, <3>5
  <2> QED
    BY <2>1, <2>2, <2>3
<1>3. CASE ListAction
  <2>1. /\ WorkTypes' /\ Keeps /\ Resume
    <3>1. /\ pc = "yielded" /\ CanIgnoreError(info.error) /\ Resume
          /\ list' = Append(list, GetAction) /\ UNCHANGED <<opened, stopped>>
          /\ symbols' = IF info.newSymbolName THEN Append(symbols, GetAction) ELSE symbols
      BY <1>3 DEF ListAction
    <3>2. pc' = "advance" /\ UNCHANGED <<bindKind, table, last, segAdd, addAmt, count>>
      BY <3>1 DEF Resume
    <3>3. WorkTypes'
      BY <3>2 DEF TypeInv, WorkTypes
    <3>4. info.error \notin FatalErrors
      BY <3>1 DEF CanIgnoreError, FatalErrors
    <3> QED
      BY <3>1, <3>2, <3>3, <3>4 DEF Keeps
  <2>2. CASE info.error = "None"
    <3>1. info' = BeginAdvance(info) /\ UNCHANGED <<stream, reachedEnd, atEnd>>
      BY <2>1, <2>2 DEF Resume
    <3> QED
      BY <2>1, <2>2, <3>1 DEF Stays
  <2>3. CASE info.error # "None"
    BY <2>1, <2>3, ResumeReads DEF Passes
  <2> QED
    BY <2>1, <2>2, <2>3
<1>4. CASE StopAtError
  BY <1>4 DEF StopAtError, iteratorVars, Rests, ListsStay, TypeInv, WorkTypes
<1>5. CASE UNCHANGED vars
  BY <1>5 DEF vars, iteratorVars, Rests, ListsStay, TypeInv, WorkTypes
<1> QED
  BY <1>1, <1>2, <1>3, <1>4, <1>5 DEF Next, Finished

LEMMA GetActionFits ==
  ASSUME TypeInv, ListInv
  PROVE  /\ GetAction \in EntryType /\ GetAction.at = Len(stream)
         /\ GetAction.addr = info.addrInSeg /\ GetAction.error = info.error
         /\ GetAction.symbol = info.symbolName /\ GetAction.isNew = info.newSymbolName
         /\ GetAction.addend = info.addend /\ GetAction.dylib = info.dylibOrdinal
         /\ GetAction.segment = info.segmentIndex /\ GetAction.kind = info.writeKind
<1>1. info \in InfoType /\ Len(stream) \in Nat
  BY DEF TypeInv
<1> QED
  BY <1>1 DEF GetAction, EntryType, InfoType

\* What listing an action does to the two lists.
LEMMA KeepsFields ==
  ASSUME TypeInv, ListInv, Keeps
  PROVE  /\ list' \in Seq(EntryType) /\ symbols' \in Seq(EntryType)
         /\ Len(list) \in Nat /\ Len(list') = Len(list) + 1
         /\ list'[Len(list')] = GetAction /\ list' # <<>>
         /\ \A k \in 1..Len(list) : k \in 1..Len(list') /\ list'[k] = list[k]
         /\ Len(symbols) \in Nat /\ Len(symbols) <= Len(symbols')
         /\ \A k \in 1..Len(symbols) : k \in 1..Len(symbols') /\ symbols'[k] = symbols[k]
         /\ info.newSymbolName =>
              Len(symbols') \in 1..Len(symbols') /\ symbols'[Len(symbols')] = GetAction
<1>1. list \in Seq(EntryType) /\ symbols \in Seq(EntryType) /\ GetAction \in EntryType
  BY GetActionFits DEF TypeInv, ListInv
<1>2. list' = Append(list, GetAction)
  BY DEF Keeps
<1>3. CASE info.newSymbolName
  <2>1. symbols' = Append(symbols, GetAction)
    BY <1>3 DEF Keeps
  <2> QED
    BY <1>1, <1>2, <2>1
<1>4. CASE ~info.newSymbolName
  <2>1. symbols' = symbols
    BY <1>4 DEF Keeps
  <2> QED
    BY <1>1, <1>2, <1>4, <2>1
<1> QED
  BY <1>3, <1>4

LEMMA IteratorStep ==
  ASSUME TypeInv, CurrentInv, [Next]_vars
  PROVE  TypeInv' /\ CurrentInv'
<1>1. CASE Begin
  <2>1. PICK kind \in Lists : Open(kind)
    BY <1>1 DEF Begin
  <2>2. kind \in BindInfoKinds
    BY ListsAssumption
  <2> QED
    BY <2>1, <2>2, OpenKeepsIterator
<1>2. CASE AdvanceIterator
  BY <1>2, AdvanceKeepsIterator DEF AdvanceIterator
<1>3. CASE ListAction
  BY <1>3, ResumeKeepsIterator DEF ListAction
<1>4. CASE StopAtError \/ UNCHANGED vars
  BY <1>4 DEF StopAtError, vars, iteratorVars, TypeInv, WorkTypes, CurrentInv, Byte
<1> QED
  BY <1>1, <1>2, <1>3, <1>4 DEF Next, Finished

LEMMA ListStep ==
  ASSUME TypeInv, CurrentInv, ListInv, [Next]_vars
  PROVE  ListInv'
<1>1. CASE Opens
  BY <1>1 DEF Opens, ListInv
<1>2. CASE Goes
  <2>1. \A k \in 1..Len(stream) : k \in 1..Len(stream')
    BY <1>2, ReadsFields DEF Goes
  <2> QED
    BY <1>2, <2>1 DEF Goes, ListsStay, ListInv
<1>3. CASE (Yields \/ Ends) /\ ListsStay
  BY <1>3 DEF Yields, Ends, ListsStay, ListInv
<1>4. CASE Stays \/ Passes
  <2>1. Keeps /\ opened /\ opened' /\ stream # <<>>
    BY <1>4 DEF Stays, Passes, Keeps, ListInv, CurrentInv
  <2>2. \A k \in 1..Len(stream) : k \in 1..Len(stream')
    BY <1>4, ReadsFields DEF Stays, Passes
  <2>3. Len(stream) \in 1..Len(stream)
    BY <2>1 DEF TypeInv
  <2>4. /\ list' \in Seq(EntryType) /\ symbols' \in Seq(EntryType)
        /\ Len(list) \in Nat /\ Len(list') = Len(list) + 1
        /\ list'[Len(list')] = GetAction
        /\ \A k \in 1..Len(list) : list'[k] = list[k]
    BY <2>1, KeepsFields
  <2>5. \A k \in 1..Len(list') : list'[k].at \in 1..Len(stream')
    BY <2>2, <2>3, <2>4, GetActionFits, SMTT(30) DEF ListInv
  <2> QED
    BY <2>1, <2>4, <2>5 DEF ListInv
<1>5. CASE Rests
  BY <1>5 DEF Rests, ListsStay, ListInv
<1> QED
  BY <1>1, <1>2, <1>3, <1>4, <1>5, NextStep

LEMMA IteratorInvariant == Spec => [](TypeInv /\ CurrentInv /\ ListInv)
<1>1. Init => TypeInv /\ CurrentInv /\ ListInv
  BY InitKeepsIterator DEF Init, InitIterator, ListInv
<1>2. TypeInv /\ CurrentInv /\ ListInv /\ [Next]_vars => TypeInv' /\ CurrentInv' /\ ListInv'
  BY IteratorStep, ListStep
<1> QED
  BY <1>1, <1>2, PTL DEF Spec

(***************************************************************************)
(* Fatal errors                                                            *)
(***************************************************************************)

\* An error that was lost stays so.
LEMMA LostStays ==
  ASSUME NEW j \in 1..Len(stream), Lost(j), stream'[j] = stream[j],
         \A k \in 1..Len(list) : k \in 1..Len(list') /\ list'[k] = list[k]
  PROVE  Lost(j)'
BY DEF Lost

\* What FatalErrorsStop says of the opcodes that were left behind.
LEMMA LeftBehind ==
  FatalErrorsStop <=> \A j \in 1..(Len(stream) - 1) :
                         ReadError(bindKind, stream[j]) \in FatalErrors => Lost(j)
BY DEF FatalErrorsStop, Lost, FatalErrors

LEMMA FatalStep ==
  ASSUME TypeInv, CurrentInv, ListInv, FatalInv, [Next]_vars
  PROVE  FatalInv'
<1> DEFINE Left == \A j \in 1..(Len(stream) - 1) :
                     ReadError(bindKind, stream[j]) \in FatalErrors => Lost(j)
<1>0. Left /\ (FatalErrorsStop' <=> Left') /\ Len(stream) \in Nat
  <2>1. Left /\ Len(stream) \in Nat
    BY LeftBehind DEF FatalInv, TypeInv
  <2>2. FatalErrorsStop' <=> Left'
    BY DEF FatalErrorsStop, Lost, FatalErrors
  <2> QED
    BY <2>1, <2>2
<1>2. CASE Opens
  <2>1. Len(stream) = 0 /\ Len(stream') \in {0, 1} /\ (~atEnd' => Len(stream') = 1)
    <3>1. stream = <<>> /\ Len(stream) = 0 /\ Reads(InitInfo, FALSE, TRUE)
      BY <1>2 DEF Opens
    <3>2. Len(stream') \in {Len(stream), Len(stream) + 1} /\ (~atEnd' => Len(stream') = Len(stream) + 1)
      BY <3>1, ReadsFields
    <3> QED
      BY <3>1, <3>2
  <2>2. Left'
    <3>1. CASE Len(stream') = 0
      BY <3>1
    <3>2. CASE Len(stream') = 1
      BY <3>2
    <3> QED
      BY <2>1, <3>1, <3>2
  <2>3. ~atEnd' /\ Byte'.op # "Unrecognized" => Lost(Len(stream))'
    BY <2>1 DEF Lost, Byte
  <2>4. pc' = "advance"
    BY <1>2 DEF Opens
  <2>5. FatalErrorsStop'
    BY <1>0, <2>2
  <2>6. (Going /\ ReadError(bindKind, Byte) \in FatalErrors =>
       \/ info.error \in FatalErrors
       \/ pc = "advance" /\ Byte.op = "Unrecognized"
       \/ Lost(Len(stream)))'
    BY <2>3, <2>4 DEF Going
  <2> QED
    BY <2>5, <2>6 DEF FatalInv
<1>3. CASE Goes
  <2>1. /\ Len(stream') \in {Len(stream), Len(stream) + 1}
        /\ \A k \in 1..Len(stream) : k \in 1..Len(stream') /\ stream'[k] = stream[k]
        /\ ~atEnd' => info'.error = ReadError(bindKind', Byte')
    BY <1>3, ReadsFields DEF Goes
  <2>2. bindKind' = bindKind /\ list' = list /\ Len(stream) \in 1..Len(stream)
    BY <1>0, <1>3 DEF Goes, ListsStay, TypeInv
  <2>3. ReadError(bindKind, Byte) \in FatalErrors => Lost(Len(stream))
    <3>1. Going /\ info.error = "None" /\ Byte.op # "Unrecognized"
      BY <1>3 DEF Going, Goes
    <3>2. "None" \notin FatalErrors
      BY DEF FatalErrors
    <3> QED
      BY <3>1, <3>2 DEF FatalInv
  <2>4. Left'
    <3> SUFFICES ASSUME NEW j \in 1..(Len(stream') - 1),
                        ReadError(bindKind', stream'[j]) \in FatalErrors
                 PROVE  Lost(j)'
      OBVIOUS
    <3>1. j \in 1..Len(stream) /\ stream'[j] = stream[j]
      BY <1>0, <2>1
    <3>2. Lost(j)
      BY <1>0, <2>2, <2>3, <3>1 DEF Byte
    <3> QED
      BY <2>2, <3>1, <3>2, LostStays
  <2> QED
    BY <1>0, <2>1, <2>4 DEF FatalInv, Going
<1>4. CASE Yields /\ ListsStay
  <2>1. /\ stream' = stream /\ list' = list /\ bindKind' = bindKind /\ Going /\ Byte' = Byte
        /\ pc' = "yielded"
    BY <1>4 DEF Yields, ListsStay, Byte, Going
  <2>2. Lost(Len(stream)) => Lost(Len(stream))'
    BY <2>1 DEF Lost
  <2>3. Left'
    BY <1>0, <2>1 DEF Lost
  <2>4. ReadError(bindKind, Byte) \in FatalErrors =>
          info'.error \in FatalErrors \/ Lost(Len(stream))
    <3>1. info.error \in FatalErrors => info'.error \in FatalErrors
      BY <1>4 DEF Yields, FatalErrors
    <3>2. Byte.op = "Unrecognized" /\ ReadError(bindKind, Byte) \in FatalErrors =>
            info'.error \in FatalErrors
      <4>1. info.error = "None" \/ info.error = ReadError(bindKind, Byte)
        BY <2>1, <1>4 DEF CurrentInv, Yields
      <4>2. "UnrecognizedBindOpcode" \in FatalErrors
        BY DEF FatalErrors
      <4> QED
        BY <1>4, <3>1, <4>1, <4>2 DEF Yields
    <3> QED
      BY <2>1, <3>1, <3>2 DEF FatalInv
  <2> QED
    BY <1>0, <2>1, <2>2, <2>3, <2>4 DEF FatalInv
<1>5. CASE Ends /\ ListsStay
  <2>1. /\ stream' = stream /\ list' = list /\ bindKind' = bindKind /\ atEnd' = atEnd /\ atEnd
    BY <1>5 DEF Ends, ListsStay
  <2> QED
    BY <1>0, <2>1 DEF FatalInv, Lost, Going
<1>6. CASE Keeps /\ (Stays \/ Passes)
  <2>1. /\ bindKind' = bindKind /\ Going /\ info.error \notin FatalErrors /\ pc = "yielded"
        /\ Len(stream) \in 1..Len(stream) /\ pc' = "advance"
    BY <1>0, <1>6 DEF Keeps, Going, CurrentInv, TypeInv
  <2>2. ReadError(bindKind, Byte) \in FatalErrors => Lost(Len(stream))
    BY <2>1 DEF FatalInv
  <2>3. /\ Len(list) \in Nat /\ Len(list') = Len(list) + 1
        /\ list'[Len(list')] = GetAction
        /\ \A k \in 1..Len(list) : k \in 1..Len(list') /\ list'[k] = list[k]
    BY <1>6, KeepsFields
  <2>4. CASE Stays
    <3>1. stream' = stream /\ Byte' = Byte
      BY <2>4 DEF Stays, Byte
    <3>2. \A j \in 1..Len(stream) : Lost(j) => Lost(j)'
      BY <2>3, <3>1, LostStays
    <3>3. Left'
      BY <1>0, <2>1, <3>1, <3>2
    <3> QED
      BY <1>0, <2>1, <2>2, <3>1, <3>2, <3>3 DEF FatalInv
  <2>5. CASE Passes
    <3>1. /\ Len(stream') \in {Len(stream), Len(stream) + 1}
          /\ \A k \in 1..Len(stream) : k \in 1..Len(stream') /\ stream'[k] = stream[k]
          /\ ~atEnd' => Len(stream') = Len(stream) + 1
      BY <2>5, ReadsFields DEF Passes
    <3>2. Left'
      <4> SUFFICES ASSUME NEW j \in 1..(Len(stream') - 1),
                          ReadError(bindKind', stream'[j]) \in FatalErrors
                   PROVE  Lost(j)'
        OBVIOUS
      <4>1. j \in 1..Len(stream) /\ stream'[j] = stream[j]
        BY <1>0, <3>1
      <4>2. Lost(j)
        BY <1>0, <2>1, <2>2, <4>1 DEF Byte
      <4> QED
        BY <2>3, <4>1, <4>2, LostStays
    <3>3. ~atEnd' /\ Byte'.op # "Unrecognized" => Lost(Len(stream))'
      <4>1. GetAction.at = Len(stream) /\ GetAction.error # "None"
        BY <2>5, GetActionFits DEF Passes
      <4>2. Len(list') \in 1..Len(list')
        BY <2>3
      <4>3. SUFFICES ASSUME ~atEnd', Byte'.op # "Unrecognized"
                     PROVE  Lost(Len(stream))'
        OBVIOUS
      <4>4. list'[Len(list')].at = Len(stream') - 1 /\ list'[Len(list')].error # "None"
        BY <1>0, <2>3, <3>1, <4>1, <4>3
      <4>5. stream'[Len(stream')].op # "Unrecognized"
        BY <4>3 DEF Byte
      <4> QED
        BY <4>2, <4>4, <4>5 DEF Lost
    <3>4. FatalErrorsStop'
      BY <1>0, <3>2
    <3>5. (Going /\ ReadError(bindKind, Byte) \in FatalErrors =>
         \/ info.error \in FatalErrors
         \/ pc = "advance" /\ Byte.op = "Unrecognized"
         \/ Lost(Len(stream)))'
      BY <2>1, <3>3 DEF Going
    <3> QED
      BY <3>4, <3>5 DEF FatalInv
  <2> QED
    BY <1>6, <2>4, <2>5
<1>8. CASE Rests
  <2>1. Byte' = Byte
    BY <1>8 DEF Rests, Byte
  <2> QED
    BY <1>0, <1>8, <2>1 DEF Rests, ListsStay, FatalInv, Going, Lost
<1> QED
  BY <1>2, <1>3, <1>4, <1>5, <1>6, <1>8, NextStep DEF Stays, Passes

\* The listing stops at an opcode that could not be read, but for the two places
\* where BindActionIteratorBase loses its error.
THEOREM FatalErrorsAreKept == Spec => []FatalErrorsStop
<1>1. Init => FatalInv
  BY DEF Init, InitIterator, FatalInv, FatalErrorsStop, Going
<1>2. TypeInv /\ CurrentInv /\ ListInv /\ FatalInv /\ [Next]_vars => FatalInv'
  BY FatalStep
<1>3. FatalInv => FatalErrorsStop
  BY DEF FatalInv
<1> QED
  BY <1>1, <1>2, <1>3, IteratorInvariant, PTL DEF Spec

(***************************************************************************)
(* Bounds                                                                  *)
(***************************************************************************)

LEMMA UnsignedSame == \A n \in 0..UMax : ToUnsigned(n) = n
BY Widths DEF ToUnsigned

\* An address that has moved by a pointer is a pointer after where it was.
LEMMA UnsignedWraps ==
  ASSUME NEW n \in 0..UMax
  PROVE  /\ ToUnsigned(n) = n /\ ToUnsigned(n - (UMax + 1)) = n
         /\ ToUnsigned(n + (UMax + 1)) = n
<1>1. TopBit \in Nat /\ TopBit >= 1 /\ n \in Int /\ UMax \in Nat /\ UMax + 1 = 2 * TopBit
  BY Widths
<1>2. (n - 2 * TopBit) % (2 * TopBit) = n
  BY <1>1
<1>3. (n + 2 * TopBit) % (2 * TopBit) = n
  BY <1>1
<1> QED
  BY <1>1, <1>2, <1>3, UnsignedSame DEF ToUnsigned

LEMMA UnsignedBack ==
  ASSUME NEW b \in 0..UMax, NEW a \in 0..UMax
  PROVE  ToUnsigned(b + ToUnsigned(a + PtrSize) - PtrSize) = ToUnsigned(b + a)
<1> DEFINE W == UMax + 1
<1>1. W \in Nat /\ W > 0 /\ UMax = W - 1 /\ PtrSize \in 0..W /\ a \in Nat /\ b \in Nat
      /\ a < W /\ b < W
  BY Widths
<1>2. \A n \in 0..UMax : ToUnsigned(n) = n /\ ToUnsigned(n - W) = n /\ ToUnsigned(n + W) = n
  BY UnsignedWraps
<1> HIDE DEF W
<1>3. ToUnsigned(a + PtrSize) \in {a + PtrSize, a + PtrSize - W}
  <2>1. CASE a + PtrSize < W
    <3>1. a + PtrSize \in 0..UMax
      BY <1>1, <2>1
    <3> QED
      BY <1>2, <3>1
  <2>2. CASE a + PtrSize >= W
    <3>1. PICK n \in 0..UMax : n = a + PtrSize - W
      BY <1>1, <2>2
    <3>2. ToUnsigned(n + W) = n
      BY <1>2
    <3>3. a + PtrSize = n + W
      BY <1>1, <3>1
    <3> QED
      BY <3>1, <3>2, <3>3
  <2> QED
    BY <1>1, <2>1, <2>2
<1>4. b + ToUnsigned(a + PtrSize) - PtrSize \in {b + a, b + a - W}
  <2>1. CASE ToUnsigned(a + PtrSize) = a + PtrSize
    BY <1>1, <2>1
  <2>2. CASE ToUnsigned(a + PtrSize) = a + PtrSize - W
    BY <1>1, <2>2
  <2> QED
    BY <1>3, <2>1, <2>2
<1>5. ToUnsigned(b + a - W) = ToUnsigned(b + a)
  <2>1. CASE b + a < W
    <3>1. PICK n \in 0..UMax : n = b + a
      BY <1>1, <2>1
    <3>2. ToUnsigned(n) = n /\ ToUnsigned(n - W) = n
      BY <1>2
    <3> QED
      BY <1>1, <3>1, <3>2
  <2>2. CASE b + a >= W
    <3>1. PICK n \in 0..UMax : n = b + a - W
      BY <1>1, <2>2
    <3>2. ToUnsigned(n) = n /\ ToUnsigned(n + W) = n
      BY <1>2
    <3>3. b + a = n + W
      BY <1>1, <3>1
    <3> QED
      BY <3>1, <3>2, <3>3
  <2> QED
    BY <1>1, <2>1, <2>2
<1> QED
  BY <1>4, <1>5

\* Where the iterator finds data for a pointer, a section has all of it.
LEMMA DataIsInASection ==
  ASSUME NEW addr \in 0..UMax, HasData(addr)
  PROVE  InASection(addr)
<1>1. PICK segment \in DOMAIN Image : \E section \in Image[segment].sections :
        R!ContainsRange(section, R!Range(addr, PtrSize))
  BY DEF HasData
<1>2. PICK section \in Image[segment].sections :
        R!ContainsRange(section, R!Range(addr, PtrSize))
  BY <1>1
<1>3. section.begin \in 0..UMax /\ section.size \in 0..UMax
  BY ImageAssumption DEF Extents
<1>4. /\ addr >= section.begin /\ addr - section.begin < section.size
      /\ section.size - (addr - section.begin) >= PtrSize
  BY <1>2 DEF R!ContainsRange, R!Range, R!HasLocation
<1>5. addr..(addr + PtrSize - 1) \subseteq section.begin..(section.begin + section.size - 1)
  BY <1>3, <1>4, Widths
<1> QED
  BY <1>2, <1>5 DEF InASection, R!Locations

LEMMA ThreadedStep ==
  ASSUME TypeInv, CurrentInv, ListInv, ThreadedInv, [Next]_vars
  PROVE  ThreadedInv'
<1>0. Len(stream) \in Nat /\ info \in InfoType /\ list \in Seq(EntryType) /\ Len(list) \in Nat
  BY DEF TypeInv, ListInv
<1>1. \A k \in 1..Len(list) : list[k].at \in 1..Len(stream)
  BY DEF CurrentInv, ListInv
<1>2. CASE Opens
  <2>1. list' = <<>> /\ Len(list') = 0 /\ pc' = "advance" /\ stream = <<>> /\ Len(stream) = 0
        /\ Reads(InitInfo, FALSE, TRUE)
    BY <1>2 DEF Opens
  <2>2. ~atEnd' => Len(stream') = 1
    <3>1. ~atEnd' => Len(stream') = Len(stream) + 1
      BY <2>1, ReadsFields
    <3> QED
      BY <2>1, <3>1
  <2>3. LastAt' = 0
    BY <2>1 DEF LastAt
  <2>4. ThreadedListed'
    BY <2>1 DEF ThreadedListed
  <2>5. ~atEnd' => LastAt' # Len(stream')
    BY <2>2, <2>3
  <2>6. pc' = "advance"
    BY <2>1
  <2> QED
    BY <2>4, <2>5, <2>6 DEF ThreadedInv, Going
<1>3. CASE Goes
  <2>1. /\ Len(stream') \in {Len(stream), Len(stream) + 1}
        /\ \A k \in 1..Len(stream) : k \in 1..Len(stream') /\ stream'[k] = stream[k]
        /\ ~atEnd' => Len(stream') = Len(stream) + 1
    BY <1>3, ReadsFields DEF Goes
  <2>2. list' = list /\ pc' = "advance" /\ Byte.op # "Threaded"
    BY <1>3 DEF Goes, ListsStay
  <2>3. LastAt <= Len(stream) /\ LastAt' = LastAt /\ LastAt \in Nat
    BY <1>0, <1>1, <2>2 DEF LastAt
  <2>4. ThreadedListed'
    <3> SUFFICES ASSUME NEW k \in 1..Len(list), stream'[list[k].at].op = "Threaded",
                        list[k].error = "None"
                 PROVE  ThreadedRight(k)
      BY <2>2 DEF ThreadedListed, ThreadedRight, PointerBefore
    <3>1. stream'[list[k].at] = stream[list[k].at]
      BY <1>1, <2>1
    <3> QED
      BY <3>1 DEF ThreadedInv, ThreadedListed
  <2> QED
    BY <1>0, <2>1, <2>2, <2>3, <2>4 DEF ThreadedInv, Going
<1>4. CASE Yields /\ ListsStay
  <2>1. /\ stream' = stream /\ list' = list /\ Going /\ Byte' = Byte /\ pc = "advance"
        /\ pc' = "yielded" /\ info'.segmentIndex = info.segmentIndex /\ LastAt' = LastAt
    BY <1>4 DEF Yields, ListsStay, Byte, Going, KnowsAs, LastAt
  <2>2. ThreadedListed'
    BY <2>1 DEF ThreadedInv, ThreadedListed, ThreadedRight, PointerBefore
  <2>3. ASSUME info'.error = "None", Byte.op = "Threaded"
        PROVE  /\ info'.addrInSeg = ToUnsigned(info.addrInSeg + PtrSize)
               /\ PointerBefore(info.segmentIndex, info'.addrInSeg)
    <3>1. /\ Byte.m = ThreadedApply /\ HasData(SegVmAddr)
          /\ info'.addrInSeg = ToUnsigned(info.addrInSeg + PtrSize)
      BY <1>4, <2>3 DEF Yields
    <3>2. info.segmentIndex \in DOMAIN Image
      BY <2>1, <2>3, <3>1 DEF CurrentInv, Going
    <3> DEFINE b == Image[info.segmentIndex].mem.begin
    <3>3. b \in 0..UMax /\ info.addrInSeg \in 0..UMax
      BY <1>0, <3>2, ImageAssumption DEF InfoType, Extents
    <3>4. SegVmAddr = ToUnsigned(b + info.addrInSeg)
      BY DEF SegVmAddr
    <3> HIDE DEF b
    <3>5. ToUnsigned(b + info.addrInSeg) \in 0..UMax
      <4>1. b + info.addrInSeg \in Int
        BY <3>3, Widths
      <4> QED
        BY <4>1, UnsignedFits
    <3>6. InASection(ToUnsigned(b + info.addrInSeg))
      BY <3>1, <3>4, <3>5, DataIsInASection
    <3>7. InASection(ToUnsigned(b + info'.addrInSeg - PtrSize))
      BY <3>1, <3>3, <3>6, UnsignedBack
    <3> QED
      BY <3>1, <3>7 DEF PointerBefore, b
  <2> QED
    BY <2>1, <2>2, <2>3 DEF ThreadedInv
<1>5. CASE Ends /\ ListsStay
  <2>1. stream' = stream /\ list' = list /\ info' = info /\ pc' = "end"
    BY <1>5 DEF Ends, ListsStay
  <2> QED
    BY <2>1 DEF ThreadedInv, ThreadedListed, ThreadedRight, PointerBefore, Going
<1>6. CASE Keeps /\ (Stays \/ Passes)
  <2>1. Going /\ pc = "yielded" /\ pc' = "advance" /\ Len(stream) \in 1..Len(stream)
    BY <1>0, <1>6 DEF Keeps, Going, CurrentInv, TypeInv
  <2>2. /\ Len(list') = Len(list) + 1 /\ list' # <<>>
        /\ list'[Len(list')] = GetAction
        /\ \A k \in 1..Len(list) : k \in 1..Len(list') /\ list'[k] = list[k]
    BY <1>6, KeepsFields
  <2>3. GetAction.at = Len(stream) /\ GetAction.addr = info.addrInSeg
        /\ GetAction.error = info.error /\ GetAction.segment = info.segmentIndex
    BY GetActionFits
  <2>4. Byte.op = "Threaded" /\ info.error = "None" =>
          /\ PointerBefore(info.segmentIndex, info.addrInSeg)
          /\ Len(list) > 0 /\ list[Len(list)].at = Len(stream) =>
               info.addrInSeg = ToUnsigned(list[Len(list)].addr + PtrSize)
    BY <1>0, <2>1 DEF ThreadedInv, LastAt
  <2>5. LastAt' = Len(stream)
    BY <2>2, <2>3 DEF LastAt
  <2>6. CASE Stays
    <3>1. /\ stream' = stream /\ info'.segmentIndex = info.segmentIndex /\ Byte' = Byte
          /\ info'.addrInSeg = info.addrInSeg
      BY <1>0, <2>6, BeginAdvanceFields DEF Stays, Byte, KnowsAs
    <3>2. ThreadedListed'
      <4> SUFFICES ASSUME NEW k \in 1..Len(list'), stream'[list'[k].at].op = "Threaded",
                          list'[k].error = "None"
                   PROVE  /\ PointerBefore(list'[k].segment, list'[k].addr)
                          /\ k > 1 /\ list'[k - 1].at = list'[k].at =>
                               list'[k].addr = ToUnsigned(list'[k - 1].addr + PtrSize)
        BY DEF ThreadedListed, ThreadedRight, PointerBefore
      <4>1. CASE k \in 1..Len(list)
        <5>1. list'[k] = list[k] /\ (k > 1 => list'[k - 1] = list[k - 1])
          BY <2>2, <4>1
        <5> QED
          BY <3>1, <4>1, <5>1 DEF ThreadedInv, ThreadedListed, ThreadedRight
      <4>2. CASE k = Len(list) + 1
        <5>1. list'[k] = GetAction /\ k - 1 = Len(list) /\ (k > 1 => list'[k - 1] = list[k - 1])
          BY <1>0, <2>2, <4>2
        <5> QED
          BY <1>0, <2>3, <2>4, <3>1, <4>2, <5>1 DEF Byte
      <4> QED
        BY <1>0, <2>2, <4>1, <4>2
    <3> QED
      BY <2>1, <2>2, <2>3, <3>1, <3>2 DEF ThreadedInv
  <2>7. CASE Passes
    <3>1. /\ Len(stream') \in {Len(stream), Len(stream) + 1}
          /\ \A k \in 1..Len(stream) : k \in 1..Len(stream') /\ stream'[k] = stream[k]
          /\ ~atEnd' => Len(stream') = Len(stream) + 1
          /\ stream' = stream => info'.segmentIndex = info.segmentIndex
      <4>1. stream' = stream => info'.segmentIndex = info.segmentIndex
        <5>1. \A o \in Opcodes : stream # Append(stream, o)
          <6>1. stream \in Seq(Opcodes)
            BY DEF TypeInv
          <6>2. \A o \in Opcodes : Len(Append(stream, o)) = Len(stream) + 1
            BY <6>1
          <6> QED
            BY <1>0, <6>2
        <5> QED
          BY <2>7, <5>1 DEF Passes, Reads, ReadsAfter, KnowsAs
      <4> QED
        BY <2>7, <4>1, ReadsFields DEF Passes
    <3>2. info.error # "None"
      BY <2>7 DEF Passes
    <3>3. Len(stream') = Len(stream) => stream' = stream
      <4>1. stream \in Seq(Opcodes)
        BY DEF TypeInv
      <4>2. \A o \in Opcodes : Len(Append(stream, o)) = Len(stream) + 1
        BY <4>1
      <4> QED
        BY <1>0, <2>7, <4>2 DEF Passes, Reads, ReadsAfter
    <3>4. ThreadedListed'
      <4> SUFFICES ASSUME NEW k \in 1..Len(list'), stream'[list'[k].at].op = "Threaded",
                          list'[k].error = "None"
                   PROVE  /\ PointerBefore(list'[k].segment, list'[k].addr)
                          /\ k > 1 /\ list'[k - 1].at = list'[k].at =>
                               list'[k].addr = ToUnsigned(list'[k - 1].addr + PtrSize)
        BY DEF ThreadedListed, ThreadedRight, PointerBefore
      <4>1. k # Len(list')
        BY <2>2, <2>3, <3>2
      <4>2. k \in 1..Len(list)
        BY <1>0, <2>2, <4>1
      <4>3. list'[k] = list[k] /\ (k > 1 => list'[k - 1] = list[k - 1])
        BY <2>2, <4>2
      <4>4. list[k].at \in 1..Len(stream) /\ stream'[list[k].at] = stream[list[k].at]
        BY <1>1, <3>1, <4>2
      <4>5. /\ PointerBefore(list[k].segment, list[k].addr)
            /\ k > 1 /\ list[k - 1].at = list[k].at =>
                 list[k].addr = ToUnsigned(list[k - 1].addr + PtrSize)
        BY <4>2, <4>3, <4>4 DEF ThreadedInv, ThreadedListed, ThreadedRight
      <4> QED
        BY <4>3, <4>5
    <3> QED
      BY <1>0, <2>1, <2>5, <3>1, <3>4 DEF ThreadedInv, Going
  <2> QED
    BY <1>6, <2>6, <2>7
<1>8. CASE Rests
  <2>1. Byte' = Byte /\ LastAt' = LastAt
    BY <1>8 DEF Rests, ListsStay, Byte, LastAt
  <2> QED
    BY <1>8, <2>1 DEF Rests, ListsStay, ThreadedInv, ThreadedListed, ThreadedRight,
       PointerBefore, Going
<1> QED
  BY <1>2, <1>3, <1>4, <1>5, <1>6, <1>8, NextStep DEF Stays, Passes

LEMMA TypesFit == TypeInv => TypeOK
<1> SUFFICES ASSUME TypeInv PROVE TypeOK
  OBVIOUS
<1>1. \A n \in {info.segOffset, info.skip, info.addrInSeg, addAmt, count} : FitsUnsigned(n)
  BY DEF TypeInv, WorkTypes, InfoType, FitsUnsigned
<1>2. \A n \in {info.addAddr, segAdd} : FitsSigned(n)
  BY DEF TypeInv, WorkTypes, InfoType, FitsSigned, Signed
<1> QED
  BY <1>1, <1>2 DEF TypeInv, WorkTypes, TypeOK, RunOps

LEMMA ThreadedFits == TypeInv /\ ListInv /\ ThreadedListed => ThreadedStaysInData
<1> SUFFICES ASSUME TypeInv, ListInv, ThreadedListed, NEW k \in 1..Len(list),
                    stream[list[k].at].op = "Threaded", list[k].error = "None"
             PROVE  /\ \E late \in {0, PtrSize} : InASection(ToUnsigned(
                          Image[list[k].segment].mem.begin + list[k].addr - late))
                    /\ k > 1 /\ list[k - 1].at = list[k].at =>
                         list[k].addr = ToUnsigned(list[k - 1].addr + PtrSize)
  BY DEF ThreadedStaysInData
<1> QED
  BY DEF ThreadedListed, ThreadedRight, PointerBefore

\* No integer leaves its type, no threaded bind its table, and no pointer that
\* THREADED lists the data of the image; and the pointers are side by side.
THEOREM BindsStayInBounds == Spec => []StaysInBounds
<1>1. Init => ThreadedInv
  BY DEF Init, InitIterator, ThreadedInv, ThreadedListed, Going
<1>2. TypeInv /\ CurrentInv /\ ListInv /\ ThreadedInv /\ [Next]_vars => ThreadedInv'
  BY ThreadedStep
<1>3. TypeInv /\ ListInv /\ ThreadedInv => StaysInBounds
  BY TypesFit, ThreadedFits DEF ThreadedInv, StaysInBounds
<1> QED
  BY <1>1, <1>2, <1>3, IteratorInvariant, PTL DEF Spec

(***************************************************************************)
(* The symbols, and what a bind needs                                      *)
(***************************************************************************)

\* One of a set of positions is the last.
LEMMA LastOf ==
  ASSUME NEW k \in Nat, NEW S \in SUBSET (1..k), S # {}
  PROVE  LET m == CHOOSE j \in S : \A i \in S : i <= j
         IN  m \in S /\ \A i \in S : i <= m
<1>1. S \in SUBSET (0..k)
  OBVIOUS
<1>2. \E j \in S : \A i \in S : i <= j
  BY <1>1, Ind!GreatestExists
<1> QED
  BY <1>2

\* The last of the first k opcodes that set what opcodes of ops set, 0 if none.
TopOf(S) == CHOOSE j \in S : \A i \in S : i <= j
ReadLast(kind, s, ops, k) ==
  IF Readable(kind, s, ops, k) = {} THEN 0 ELSE TopOf(Readable(kind, s, ops, k))

LEMMA ReadLastFits ==
  ASSUME NEW kind, NEW s, NEW ops, NEW k \in Nat
  PROVE  /\ ReadLast(kind, s, ops, k) \in 0..k
         /\ Readable(kind, s, ops, k) = {} <=> ReadLast(kind, s, ops, k) = 0
<1> DEFINE read == Readable(kind, s, ops, k)
           m == TopOf(read)
<1>1. read \in SUBSET (1..k)
  BY DEF Readable
<1>2. ReadLast(kind, s, ops, k) = IF read = {} THEN 0 ELSE m
  BY Zenon DEF ReadLast
<1>3. read # {} => m \in read
  <2> HIDE DEF read
  <2> QED
    BY <1>1, LastOf DEF TopOf
<1> HIDE DEF m
<1> QED
  BY <1>1, <1>2, <1>3

\* It depends on no more than the opcodes up to k.
LEMMA SameRead ==
  ASSUME NEW kind, NEW s, NEW t, NEW ops, NEW k \in Nat, \A j \in 1..k : t[j] = s[j]
  PROVE  ReadLast(kind, t, ops, k) = ReadLast(kind, s, ops, k)
<1>1. Readable(kind, t, ops, k) = Readable(kind, s, ops, k)
  BY DEF Readable
<1> QED
  BY <1>1, Zenon DEF ReadLast

\* One more opcode may set it again.
LEMMA NextRead ==
  ASSUME NEW kind, NEW t, NEW ops, NEW k \in Nat
  PROVE  ReadLast(kind, t, ops, k + 1) = IF Sets(kind, t[k + 1], ops) THEN k + 1
                                         ELSE ReadLast(kind, t, ops, k)
<1>1. CASE Sets(kind, t[k + 1], ops)
  <2> DEFINE read == Readable(kind, t, ops, k + 1)
             m == TopOf(read)
  <2>1. k + 1 \in read /\ read \in SUBSET (1..(k + 1)) /\ k + 1 \in Nat
    BY <1>1 DEF Readable, Sets
  <2>2. ReadLast(kind, t, ops, k + 1) = IF read = {} THEN 0 ELSE m
    BY Zenon DEF ReadLast
  <2> HIDE DEF read
  <2>3. m \in read /\ \A i \in read : i <= m
    BY <2>1, LastOf DEF TopOf
  <2> HIDE DEF m
  <2> QED
    BY <1>1, <2>1, <2>2, <2>3
<1>2. CASE ~Sets(kind, t[k + 1], ops)
  <2>1. Readable(kind, t, ops, k + 1) = Readable(kind, t, ops, k)
    BY <1>2 DEF Readable, Sets
  <2>2. ReadLast(kind, t, ops, k + 1) = ReadLast(kind, t, ops, k)
    BY <2>1, Zenon DEF ReadLast
  <2> QED
    BY <1>2, <2>2
<1> QED
  BY <1>1, <1>2

\* What is set is what the last opcode set that sets it.
LEMMA SetByLast ==
  ASSUME NEW kind, NEW s, NEW k \in Nat
  PROVE  /\ SymbolSet(kind, s, k) = LET l == ReadLast(kind, s, {"SetSymbolTrailingFlagsImm"}, k)
                                    IN IF l = 0 THEN NoString ELSE s[l].s
         /\ DylibSet(kind, s, k) = LET l == ReadLast(kind, s, DylibOpcodes, k)
                                   IN IF l = 0 THEN -1 ELSE OrdinalOf(s[l])
         /\ AddendSet(kind, s, k) = LET l == ReadLast(kind, s, {"SetAddendSleb"}, k)
                                    IN IF l = 0 THEN 0 ELSE s[l].n
         /\ SegmentSet(kind, s, k) = LET l == ReadLast(kind, s, {"SetSegmentAndOffsetUleb"}, k)
                                     IN IF l = 0 THEN -1 ELSE s[l].m
         /\ KindSet(kind, s, k) = LET l == ReadLast(kind, s, {"SetKindImm"}, k)
                                  IN IF l = 0 THEN NoWriteKind ELSE s[l].n
<1>1. ASSUME NEW ops
      PROVE  Readable(kind, s, ops, k) = {} <=> ReadLast(kind, s, ops, k) = 0
  BY ReadLastFits
<1> DEFINE read(ops) == Readable(kind, s, ops, k)
           top(ops) == TopOf(read(ops))
<1>2. ASSUME NEW ops
      PROVE  ReadLast(kind, s, ops, k) = IF read(ops) = {} THEN 0 ELSE top(ops)
  BY Zenon DEF ReadLast
<1>3. /\ SymbolSet(kind, s, k) = IF read({"SetSymbolTrailingFlagsImm"}) = {} THEN NoString
                                 ELSE s[top({"SetSymbolTrailingFlagsImm"})].s
      /\ DylibSet(kind, s, k) = IF read(DylibOpcodes) = {} THEN -1
                                ELSE OrdinalOf(s[top(DylibOpcodes)])
      /\ AddendSet(kind, s, k) = IF read({"SetAddendSleb"}) = {} THEN 0
                                 ELSE s[top({"SetAddendSleb"})].n
      /\ SegmentSet(kind, s, k) = IF read({"SetSegmentAndOffsetUleb"}) = {} THEN -1
                                  ELSE s[top({"SetSegmentAndOffsetUleb"})].m
      /\ KindSet(kind, s, k) = IF read({"SetKindImm"}) = {} THEN NoWriteKind
                               ELSE s[top({"SetKindImm"})].n
  BY Zenon DEF SymbolSet, DylibSet, AddendSet, SegmentSet, KindSet, SetLast, TopOf, NameIn,
               NumberOf, SegmentIn
<1>4. ASSUME NEW ops
      PROVE  read(ops) = {} <=> ReadLast(kind, s, ops, k) = 0
  BY <1>1
<1> HIDE DEF read, top
<1> QED
  BY <1>2, <1>3, <1>4

\* All of it depends on no more than the opcodes up to k.
LEMMA SameSet ==
  ASSUME NEW kind, NEW s, NEW t, NEW k \in Nat, \A j \in 1..k : t[j] = s[j]
  PROVE  /\ SymbolSet(kind, t, k) = SymbolSet(kind, s, k)
         /\ DylibSet(kind, t, k) = DylibSet(kind, s, k)
         /\ AddendSet(kind, t, k) = AddendSet(kind, s, k)
         /\ SegmentSet(kind, t, k) = SegmentSet(kind, s, k)
         /\ KindSet(kind, t, k) = KindSet(kind, s, k)
<1>1. ASSUME NEW ops
      PROVE  LET l == ReadLast(kind, s, ops, k)
             IN ReadLast(kind, t, ops, k) = l /\ (l = 0 \/ t[l] = s[l])
  BY SameRead, ReadLastFits
<1>2. SymbolSet(kind, t, k) = SymbolSet(kind, s, k)
  BY <1>1, SetByLast
<1>3. DylibSet(kind, t, k) = DylibSet(kind, s, k)
  BY <1>1, SetByLast
<1>4. AddendSet(kind, t, k) = AddendSet(kind, s, k)
  BY <1>1, SetByLast
<1>5. SegmentSet(kind, t, k) = SegmentSet(kind, s, k)
  BY <1>1, SetByLast
<1>6. KindSet(kind, t, k) = KindSet(kind, s, k)
  BY <1>1, SetByLast
<1> QED
  BY <1>2, <1>3, <1>4, <1>5, <1>6

\* What the first opcodes set and the next one sets are set together.
LEMMA NextSet ==
  ASSUME NEW kind, NEW t, NEW k \in Nat
  PROVE  LET o == t[k + 1]
         IN  /\ SymbolSet(kind, t, k + 1) = IF Sets(kind, o, {"SetSymbolTrailingFlagsImm"})
                                            THEN o.s ELSE SymbolSet(kind, t, k)
             /\ DylibSet(kind, t, k + 1) = IF Sets(kind, o, DylibOpcodes)
                                           THEN OrdinalOf(o) ELSE DylibSet(kind, t, k)
             /\ AddendSet(kind, t, k + 1) = IF Sets(kind, o, {"SetAddendSleb"})
                                            THEN o.n ELSE AddendSet(kind, t, k)
             /\ SegmentSet(kind, t, k + 1) = IF Sets(kind, o, {"SetSegmentAndOffsetUleb"})
                                             THEN o.m ELSE SegmentSet(kind, t, k)
             /\ KindSet(kind, t, k + 1) = IF Sets(kind, o, {"SetKindImm"})
                                          THEN o.n ELSE KindSet(kind, t, k)
<1>0. k + 1 \in Nat /\ k + 1 # 0
  OBVIOUS
<1>1. ASSUME NEW ops
      PROVE  /\ Sets(kind, t[k + 1], ops) =>
                  ReadLast(kind, t, ops, k + 1) = k + 1 /\ ReadLast(kind, t, ops, k + 1) # 0
             /\ ~Sets(kind, t[k + 1], ops) =>
                  ReadLast(kind, t, ops, k + 1) = ReadLast(kind, t, ops, k)
  BY <1>0, NextRead
<1> DEFINE o == t[k + 1]
<1>2. SymbolSet(kind, t, k + 1) = IF Sets(kind, o, {"SetSymbolTrailingFlagsImm"})
                                  THEN o.s ELSE SymbolSet(kind, t, k)
  BY <1>0, <1>1, SetByLast
<1>3. DylibSet(kind, t, k + 1) = IF Sets(kind, o, DylibOpcodes)
                                 THEN OrdinalOf(o) ELSE DylibSet(kind, t, k)
  BY <1>0, <1>1, SetByLast
<1>4. AddendSet(kind, t, k + 1) = IF Sets(kind, o, {"SetAddendSleb"})
                                  THEN o.n ELSE AddendSet(kind, t, k)
  BY <1>0, <1>1, SetByLast
<1>5. SegmentSet(kind, t, k + 1) = IF Sets(kind, o, {"SetSegmentAndOffsetUleb"})
                                   THEN o.m ELSE SegmentSet(kind, t, k)
  BY <1>0, <1>1, SetByLast
<1>6. KindSet(kind, t, k + 1) = IF Sets(kind, o, {"SetKindImm"})
                                THEN o.n ELSE KindSet(kind, t, k)
  BY <1>0, <1>1, SetByLast
<1> QED
  BY <1>2, <1>3, <1>4, <1>5, <1>6

LEMMA InitInfoKnown == ASSUME NEW kind PROVE KnownFrom(kind, <<>>, InitInfo)
<1>1. Len(<<>>) = 0 /\ 0 \in Nat
  OBVIOUS
<1>2. \A ops : ReadLast(kind, <<>>, ops, 0) = 0
  BY <1>1, ReadLastFits
<1>3. /\ SymbolSet(kind, <<>>, 0) = NoString /\ DylibSet(kind, <<>>, 0) = -1
      /\ AddendSet(kind, <<>>, 0) = 0 /\ SegmentSet(kind, <<>>, 0) = -1
      /\ KindSet(kind, <<>>, 0) = NoWriteKind
  BY <1>1, <1>2, SetByLast
<1> QED
  BY <1>1, <1>3 DEF KnownFrom, InitInfo

LEMMA SameKnown ==
  ASSUME NEW kind, NEW s, NEW i, NEW j, KnownFrom(kind, s, j), KnowsAs(i, j)
  PROVE  KnownFrom(kind, s, i)
BY DEF KnownFrom, KnowsAs

\* What another opcode has set is known from it.
LEMMA LearntIsKnown ==
  ASSUME NEW kind, NEW s \in Seq(Opcodes), NEW t \in Seq(Opcodes), NEW i, NEW j,
         KnownFrom(kind, s, i), Len(t) = Len(s) + 1,
         \A k \in 1..Len(s) : t[k] = s[k], Learns(kind, i, t[Len(t)], j)
  PROVE  KnownFrom(kind, t, j)
<1> DEFINE o == t[Len(s) + 1]
<1>1. /\ Len(s) \in Nat /\ Len(t) = Len(s) + 1 /\ t[Len(t)] = o
      /\ \A k \in 1..Len(s) : k \in 1..Len(t) /\ t[k] = s[k]
      /\ Len(s) + 1 \in 1..Len(t)
  OBVIOUS
<1>2. Learnt(kind, i, o, j)
  BY <1>1 DEF Learns
<1>3. /\ SymbolSet(kind, t, Len(s)) = SymbolSet(kind, s, Len(s))
      /\ DylibSet(kind, t, Len(s)) = DylibSet(kind, s, Len(s))
      /\ AddendSet(kind, t, Len(s)) = AddendSet(kind, s, Len(s))
      /\ SegmentSet(kind, t, Len(s)) = SegmentSet(kind, s, Len(s))
      /\ KindSet(kind, t, Len(s)) = KindSet(kind, s, Len(s))
  BY <1>1, SameSet
<1>4. /\ SymbolSet(kind, t, Len(s) + 1) = IF Sets(kind, o, {"SetSymbolTrailingFlagsImm"})
                                          THEN o.s ELSE SymbolSet(kind, t, Len(s))
      /\ DylibSet(kind, t, Len(s) + 1) = IF Sets(kind, o, DylibOpcodes)
                                         THEN OrdinalOf(o) ELSE DylibSet(kind, t, Len(s))
      /\ AddendSet(kind, t, Len(s) + 1) = IF Sets(kind, o, {"SetAddendSleb"})
                                          THEN o.n ELSE AddendSet(kind, t, Len(s))
      /\ SegmentSet(kind, t, Len(s) + 1) = IF Sets(kind, o, {"SetSegmentAndOffsetUleb"})
                                           THEN o.m ELSE SegmentSet(kind, t, Len(s))
      /\ KindSet(kind, t, Len(s) + 1) = IF Sets(kind, o, {"SetKindImm"})
                                        THEN o.n ELSE KindSet(kind, t, Len(s))
  BY <1>1, NextSet
<1>5. ASSUME \A k \in 1..Len(t) : ReadError(kind, t[k]) # "UnrecognizedBindWriteKind"
      PROVE  /\ ReadError(kind, o) # "UnrecognizedBindWriteKind"
             /\ \A k \in 1..Len(s) : ReadError(kind, s[k]) # "UnrecognizedBindWriteKind"
  BY <1>1, <1>5
<1> HIDE DEF o
<1> QED
  BY <1>1, <1>2, <1>3, <1>4, <1>5 DEF KnownFrom, Learnt

LEMMA KnownStep ==
  ASSUME TypeInv, CurrentInv, ListInv, Going => KnownFrom(bindKind, stream, info), [Next]_vars, Going'
  PROVE  KnownFrom(bindKind', stream', info')
<1>0. stream \in Seq(Opcodes)
  BY DEF TypeInv
<1>2. CASE Opens
  <2>1. stream = <<>> /\ Reads(InitInfo, FALSE, TRUE) /\ ~atEnd'
    BY <1>2 DEF Opens, Going
  <2>2. KnownFrom(bindKind', stream, InitInfo)
    BY <2>1, InitInfoKnown
  <2>3. /\ stream' \in Seq(Opcodes) /\ Len(stream') = Len(stream) + 1
        /\ \A k \in 1..Len(stream) : stream'[k] = stream[k]
        /\ Learns(bindKind', InitInfo, Byte', info')
    BY <2>1, ReadsFields
  <2>4. Learns(bindKind', InitInfo, stream'[Len(stream')], info')
    BY <2>3 DEF Byte
  <2> QED
    BY <1>0, <2>2, <2>3, <2>4, LearntIsKnown
<1>3. CASE Goes
  <2>1. PICK i \in InfoType :
          /\ KnowsAs(i, info)
          /\ Reads(i, info.newSymbolName \/ Byte.op = "SetSymbolTrailingFlagsImm", FALSE)
    BY <1>3, Zenon DEF Goes
  <2>2. Going /\ bindKind' = bindKind /\ ~atEnd'
    BY <1>3 DEF Goes, Going
  <2>3. KnownFrom(bindKind', stream, i)
    BY <2>1, <2>2, SameKnown
  <2>4. /\ stream' \in Seq(Opcodes) /\ Len(stream') = Len(stream) + 1
        /\ \A k \in 1..Len(stream) : stream'[k] = stream[k]
        /\ Learns(bindKind', i, Byte', info')
    BY <2>1, <2>2, ReadsFields
  <2>5. Learns(bindKind', i, stream'[Len(stream')], info')
    BY <2>4 DEF Byte
  <2> QED
    BY <1>0, <2>3, <2>4, <2>5, LearntIsKnown
<1>4. CASE Yields /\ ListsStay
  BY <1>4, SameKnown DEF Yields, Going
<1>5. CASE Ends /\ ListsStay
  BY <1>5 DEF Ends, Going
<1>6. CASE Stays
  <2>1. KnowsAs(info', info)
    BY <1>6, BeginAdvanceFields DEF Stays, TypeInv
  <2>2. Going /\ bindKind' = bindKind /\ stream' = stream
    BY <1>6 DEF Stays, Keeps, Going
  <2> QED
    BY <2>1, <2>2, SameKnown
<1>7. CASE Passes
  <2>1. Reads(info, FALSE, TRUE) /\ ~atEnd' /\ Going /\ bindKind' = bindKind
    BY <1>7 DEF Passes, Keeps, Going, CurrentInv
  <2>2. /\ stream' \in Seq(Opcodes) /\ Len(stream') = Len(stream) + 1
        /\ \A k \in 1..Len(stream) : stream'[k] = stream[k]
        /\ Learns(bindKind', info, Byte', info')
    BY <2>1, ReadsFields
  <2>3. Learns(bindKind', info, stream'[Len(stream')], info')
    BY <2>2 DEF Byte
  <2> QED
    BY <1>0, <2>1, <2>2, <2>3, LearntIsKnown
<1>8. CASE Rests
  BY <1>8 DEF Rests, Going
<1> QED
  BY <1>2, <1>3, <1>4, <1>5, <1>6, <1>7, <1>8, NextStep

LEMMA ReadyStep ==
  ASSUME TypeInv, CurrentInv, ListInv, YieldedIsReady, [Next]_vars
  PROVE  YieldedIsReady'
<1>2. CASE Opens \/ Goes \/ Stays \/ Passes
  <2>1. pc' = "advance"
    BY <1>2 DEF Opens, Goes, Stays, Passes, Keeps
  <2> QED
    BY <2>1 DEF YieldedIsReady
<1>4. CASE Yields /\ ListsStay
  <2>1. Byte' = Byte /\ KnowsAs(info', info)
    BY <1>4 DEF Yields, Byte
  <2>2. /\ CheckIfCanBind = "None" =>
             info.dylibOrdinal # -1 /\ info.segmentIndex # -1 /\ info.writeKind # NoWriteKind
        /\ CheckIfCanBind = "NoDylibOrdinal" => info.dylibOrdinal = -1
        /\ CheckIfCanBind = "NoSegmentIndex" => info.segmentIndex = -1
        /\ CheckIfCanBind = "NoWriteKind" => info.writeKind = NoWriteKind
    BY DEF CheckIfCanBind
  <2>3. info'.error = "None" /\ Byte.op = "DoBind" => CheckIfCanBind = "None"
    BY <1>4 DEF Yields
  <2>4. info.error \notin NotReady
    <3>1. info.error \in {"None", ReadError(bindKind, Byte)}
      BY <1>4 DEF Yields, CurrentInv
    <3>2. ReadError(bindKind, Byte) \notin NotReady /\ "None" \notin NotReady
      BY DEF ReadError, NotReady
    <3> QED
      BY <3>1, <3>2
  <2>5. info'.error \in NotReady => info'.error = CheckIfCanBind
    BY <1>4, <2>4 DEF Yields
  <2> QED
    BY <2>1, <2>2, <2>3, <2>5 DEF YieldedIsReady, KnowsAs, NotReady
<1>5. CASE Ends /\ ListsStay
  BY <1>5 DEF Ends, YieldedIsReady
<1>8. CASE Rests
  <2>1. Byte' = Byte
    BY <1>8 DEF Rests, Byte
  <2> QED
    BY <1>8, <2>1 DEF Rests, YieldedIsReady
<1> QED
  BY <1>2, <1>4, <1>5, <1>8, NextStep

\* The parts of NameIsListed.
NewlyNamed ==
  \E j \in (LastAt + 1)..(Len(stream) - 1) : stream[j].op = "SetSymbolTrailingFlagsImm"

Named ==
  \/ info.symbolName = NoString
  \/ info.newSymbolName
  \/ /\ pc = "advance" /\ Byte.op = "SetSymbolTrailingFlagsImm"
     /\ ReadError(bindKind, Byte) = "None"
  \/ \E i \in 1..Len(symbols) : /\ symbols[i].symbol = info.symbolName
                                /\ symbols[i].at <= Len(stream)

LEMMA NameParts ==
  NameIsListed <=>
    (Going => /\ info.newSymbolName <=> NewlyNamed
              /\ LastAt = Len(stream) => Byte.op # "SetSymbolTrailingFlagsImm"
              /\ Named
              /\ pc = "yielded" /\ Byte.op = "SetSymbolTrailingFlagsImm" => info.error # "None")
BY DEF NameIsListed, NewlyNamed, Named

LEMMA LastAtFits ==
  ASSUME TypeInv, CurrentInv, ListInv
  PROVE  LastAt \in 0..Len(stream) /\ Len(stream) \in Nat
<1>1. Len(list) \in Nat /\ Len(stream) \in Nat /\ (list # <<>> => Len(list) \in 1..Len(list))
  BY DEF TypeInv, ListInv
<1> QED
  BY <1>1 DEF LastAt, CurrentInv, ListInv

\* After an action is listed, the last one is the one of the current opcode.
LEMMA KeepsLast == ASSUME TypeInv, ListInv, Keeps PROVE LastAt' = Len(stream)
BY KeepsFields, GetActionFits DEF LastAt

\* The name of an action that was listed is listed.
LEMMA KeepsName ==
  ASSUME TypeInv, ListInv, Keeps, Named, NEW k \in Nat, Len(stream) <= k
  PROVE  \/ info.symbolName = NoString
         \/ \E i \in 1..Len(symbols') : /\ symbols'[i].symbol = info.symbolName
                                        /\ symbols'[i].at <= k
<1>1. /\ Len(symbols) \in Nat /\ Len(symbols) <= Len(symbols')
      /\ \A i \in 1..Len(symbols) : i \in 1..Len(symbols') /\ symbols'[i] = symbols[i]
      /\ info.newSymbolName =>
           Len(symbols') \in 1..Len(symbols') /\ symbols'[Len(symbols')] = GetAction
  BY KeepsFields
<1>2. GetAction.symbol = info.symbolName /\ GetAction.at = Len(stream) /\ Len(stream) \in Nat
  BY GetActionFits DEF TypeInv
<1>3. CASE info.newSymbolName
  BY <1>1, <1>2, <1>3
<1>4. ASSUME NEW i \in 1..Len(symbols), symbols[i].symbol = info.symbolName,
             symbols[i].at <= Len(stream)
      PROVE  \E n \in 1..Len(symbols') : /\ symbols'[n].symbol = info.symbolName
                                         /\ symbols'[n].at <= k
  <2>1. symbols[i] \in EntryType
    BY DEF TypeInv, ListInv
  <2>2. symbols[i].at \in Nat
    BY <2>1 DEF EntryType
  <2> QED
    BY <1>1, <1>2, <1>4, <2>2
<1>5. pc # "advance"
  BY DEF Keeps
<1> QED
  BY <1>3, <1>4, <1>5 DEF Named

LEMMA NameStep ==
  ASSUME TypeInv, CurrentInv, ListInv, NameIsListed, [Next]_vars
  PROVE  NameIsListed'
<1> SUFFICES ASSUME Going'
             PROVE  /\ info'.newSymbolName <=> NewlyNamed'
                    /\ LastAt' = Len(stream') => Byte'.op # "SetSymbolTrailingFlagsImm"
                    /\ Named'
                    /\ pc' = "yielded" /\ Byte'.op = "SetSymbolTrailingFlagsImm" =>
                         info'.error # "None"
  BY DEF NameIsListed, NewlyNamed, Named
<1>0. LastAt \in 0..Len(stream) /\ Len(stream) \in Nat
  BY LastAtFits
<1>1. ~atEnd' /\ pc' # "end"
  BY DEF Going
<1>2. CASE Opens
  <2>1. /\ Reads(InitInfo, FALSE, TRUE) /\ pc' = "advance" /\ stream = <<>> /\ list' = <<>>
        /\ Len(stream) = 0
    BY <1>2 DEF Opens
  <2>2. Len(stream') = Len(stream) + 1 /\ Learns(bindKind', InitInfo, Byte', info')
    BY <1>1, <2>1, ReadsFields
  <2>3. Len(stream') = 1
    BY <2>1, <2>2
  <2>4. info'.newSymbolName = FALSE
    BY <2>1 DEF Reads, ReadsAfter
  <2>5. LastAt' = 0
    BY <2>1 DEF LastAt
  <2>6. ~NewlyNamed'
    BY <2>3, <2>5 DEF NewlyNamed
  <2>7. Named'
    <3>1. InitInfo.symbolName = NoString
      BY DEF InitInfo
    <3> QED
      BY <2>1, <2>2, <3>1 DEF Learns, Learnt, Sets, Named
  <2> QED
    BY <2>1, <2>3, <2>4, <2>5, <2>6, <2>7
<1>3. CASE Goes
  <2>1. PICK i \in InfoType :
          /\ KnowsAs(i, info)
          /\ Reads(i, info.newSymbolName \/ Byte.op = "SetSymbolTrailingFlagsImm", FALSE)
    BY <1>3, Zenon DEF Goes
  <2>2. Going /\ bindKind' = bindKind /\ list' = list /\ symbols' = symbols /\ pc' = "advance"
    BY <1>3 DEF Goes, Going, ListsStay
  <2>3. /\ info.newSymbolName <=> NewlyNamed
        /\ LastAt = Len(stream) => Byte.op # "SetSymbolTrailingFlagsImm"
        /\ Named
    BY <2>2, NameParts
  <2>4. /\ Len(stream') = Len(stream) + 1
        /\ \A k \in 1..Len(stream) : stream'[k] = stream[k]
        /\ Learns(bindKind', i, Byte', info')
    BY <1>1, <2>1, ReadsFields
  <2>5. info'.newSymbolName = (info.newSymbolName \/ Byte.op = "SetSymbolTrailingFlagsImm")
    BY <2>1, Zenon DEF Reads, ReadsAfter
  <2>6. LastAt' = LastAt
    BY <2>2 DEF LastAt
  <2>7. NewlyNamed' <=> NewlyNamed \/ Byte.op = "SetSymbolTrailingFlagsImm"
    <3>1. NewlyNamed' <=> \E j \in (LastAt + 1)..Len(stream) :
                             stream[j].op = "SetSymbolTrailingFlagsImm"
      <4>1. Len(stream') - 1 = Len(stream)
        BY <1>0, <2>4
      <4>2. \A j \in (LastAt + 1)..Len(stream) : stream'[j] = stream[j]
        BY <1>0, <2>4
      <4> QED
        BY <2>6, <4>1, <4>2 DEF NewlyNamed
    <3>2. CASE LastAt = Len(stream)
      BY <1>0, <2>3, <3>1, <3>2 DEF NewlyNamed
    <3>3. CASE LastAt # Len(stream)
      BY <1>0, <3>1, <3>3 DEF NewlyNamed, Byte
    <3> QED
      BY <3>2, <3>3
  <2>8. info'.newSymbolName <=> NewlyNamed'
    BY <2>3, <2>5, <2>7, Zenon
  <2>9. Named'
    <3>1. CASE Byte'.op = "SetSymbolTrailingFlagsImm" /\ ReadError(bindKind', Byte') = "None"
      BY <2>2, <3>1 DEF Named
    <3>2. CASE ~(Byte'.op = "SetSymbolTrailingFlagsImm" /\ ReadError(bindKind', Byte') = "None")
      <4>1. info'.symbolName = info.symbolName
        BY <2>1, <2>4, <3>2 DEF Learns, Learnt, Sets, KnowsAs
      <4>2. info.newSymbolName \/ Byte.op = "SetSymbolTrailingFlagsImm" => info'.newSymbolName
        BY <2>5, Zenon
      <4>3. ASSUME NEW n \in 1..Len(symbols), symbols[n].symbol = info.symbolName,
                   symbols[n].at <= Len(stream)
            PROVE  Named'
        <5>0. symbols[n] \in EntryType
          BY DEF TypeInv, ListInv
        <5>1. symbols[n].at \in Nat
          BY <5>0 DEF EntryType
        <5>2. symbols'[n].at <= Len(stream') /\ n \in 1..Len(symbols')
          BY <1>0, <2>2, <2>4, <4>3, <5>1
        <5> QED
          BY <2>2, <4>1, <4>3, <5>2 DEF Named
      <4> QED
        BY <2>3, <4>1, <4>2, <4>3 DEF Named
    <3> QED
      BY <3>1, <3>2
  <2> QED
    BY <1>0, <2>2, <2>4, <2>6, <2>8, <2>9
<1>4. CASE Yields /\ ListsStay
  <2>1. /\ stream' = stream /\ list' = list /\ symbols' = symbols /\ bindKind' = bindKind
        /\ Going /\ Byte' = Byte /\ pc = "advance" /\ ~atEnd
    BY <1>4 DEF Yields, ListsStay, Byte, Going
  <2>2. /\ info.newSymbolName <=> NewlyNamed
        /\ LastAt = Len(stream) => Byte.op # "SetSymbolTrailingFlagsImm"
        /\ Named
    BY <2>1, NameParts
  <2>3. /\ LastAt' = LastAt /\ (NewlyNamed' <=> NewlyNamed)
    BY <2>1 DEF LastAt, NewlyNamed
  <2>4. info'.newSymbolName = info.newSymbolName
    BY <1>4 DEF Yields
  <2>5. /\ info'.symbolName = info.symbolName
        /\ Byte.op = "SetSymbolTrailingFlagsImm" => info.error # "None"
        /\ info.error # "None" => info'.error = info.error
    BY <1>4 DEF Yields, KnowsAs
  <2>6. info.error \in {"None", ReadError(bindKind, Byte)}
    BY <2>1 DEF CurrentInv
  <2>7. Named'
    BY <2>1, <2>2, <2>4, <2>5, <2>6 DEF Named
  <2>8. info'.newSymbolName <=> NewlyNamed'
    BY <2>2, <2>3, <2>4, Zenon
  <2> QED
    BY <2>1, <2>2, <2>3, <2>5, <2>7, <2>8
<1>5. CASE Ends /\ ListsStay
  BY <1>1, <1>5 DEF Ends
<1>6. CASE Keeps /\ (Stays \/ Passes)
  <2>1. Going /\ pc' = "advance" /\ pc = "yielded"
    BY <1>6 DEF Keeps, Going, CurrentInv
  <2>2. /\ Named
        /\ Byte.op = "SetSymbolTrailingFlagsImm" => info.error # "None"
    BY <2>1, NameParts
  <2>3. LastAt' = Len(stream)
    BY <1>6, KeepsLast
  <2>4. CASE Stays
    <3>1. stream' = stream /\ Byte' = Byte /\ info.error = "None"
      BY <2>4 DEF Stays, Byte
    <3>2. ~NewlyNamed'
      BY <1>0, <2>3, <3>1 DEF NewlyNamed
    <3>3. info'.newSymbolName = FALSE
      BY <2>4, BeginAdvanceFields DEF Stays, TypeInv
    <3>4. info'.symbolName = info.symbolName
      BY <2>4, BeginAdvanceFields DEF Stays, TypeInv, KnowsAs
    <3>5. \/ info.symbolName = NoString
          \/ \E i \in 1..Len(symbols') : /\ symbols'[i].symbol = info.symbolName
                                         /\ symbols'[i].at <= Len(stream)
      BY <1>0, <1>6, <2>2, KeepsName
    <3>6. Named'
      BY <3>1, <3>4, <3>5 DEF Named
    <3> QED
      BY <2>1, <2>2, <3>1, <3>2, <3>3, <3>6
  <2>5. CASE Passes
    <3>1. Reads(info, FALSE, TRUE)
      BY <2>5 DEF Passes
    <3>2. Len(stream') = Len(stream) + 1 /\ Learns(bindKind', info, Byte', info')
      BY <1>1, <3>1, ReadsFields
    <3>3. info'.newSymbolName = FALSE
      BY <3>1 DEF Reads, ReadsAfter
    <3>4. ~NewlyNamed'
      <4>1. Len(stream') - 1 = Len(stream)
        BY <1>0, <3>2
      <4> QED
        BY <1>0, <2>3, <4>1 DEF NewlyNamed
    <3>5. Named'
      <4>1. CASE Byte'.op = "SetSymbolTrailingFlagsImm" /\ ReadError(bindKind', Byte') = "None"
        BY <2>1, <4>1 DEF Named
      <4>2. CASE ~(Byte'.op = "SetSymbolTrailingFlagsImm" /\ ReadError(bindKind', Byte') = "None")
        <5>1. info'.symbolName = info.symbolName
          BY <3>2, <4>2 DEF Learns, Learnt, Sets
        <5>2. Len(stream') \in Nat /\ Len(stream) <= Len(stream')
          BY <1>0, <3>2
        <5>3. \/ info.symbolName = NoString
              \/ \E i \in 1..Len(symbols') : /\ symbols'[i].symbol = info.symbolName
                                             /\ symbols'[i].at <= Len(stream')
          BY <1>6, <2>2, <5>2, KeepsName
        <5> QED
          BY <5>1, <5>3 DEF Named
      <4> QED
        BY <4>1, <4>2
    <3> QED
      BY <1>0, <2>1, <2>3, <3>2, <3>3, <3>4, <3>5
  <2> QED
    BY <1>6, <2>4, <2>5
<1>8. CASE Rests
  <2>1. /\ stream' = stream /\ list' = list /\ symbols' = symbols /\ bindKind' = bindKind
        /\ Going /\ Byte' = Byte /\ pc' = pc /\ info' = info
    BY <1>1, <1>8 DEF Rests, ListsStay, Byte, Going
  <2>2. LastAt' = LastAt /\ (NewlyNamed' <=> NewlyNamed) /\ (Named' <=> Named)
    BY <2>1 DEF LastAt, NewlyNamed, Named
  <2> QED
    BY <2>1, <2>2, NameParts
<1> QED
  BY <1>2, <1>3, <1>4, <1>5, <1>6, <1>8, NextStep DEF Stays, Passes

LEMMA EntryAt ==
  ASSUME TypeInv, CurrentInv, ListInv, NEW k \in 1..Len(list)
  PROVE  list[k].at \in 1..Len(stream) /\ (k # 1 => list[k - 1].at \in 1..Len(stream))
<1>1. k # 1 => k - 1 \in 1..Len(list)
  BY DEF TypeInv
<1> QED
  BY <1>1 DEF CurrentInv, ListInv

\* An action that is complete stays so.
LEMMA CompleteStays ==
  ASSUME TypeInv, CurrentInv, ListInv, NEW k \in 1..Len(list), IsComplete(k),
         bindKind' = bindKind, \A j \in 1..Len(stream) : stream'[j] = stream[j],
         list'[k] = list[k], k # 1 => list'[k - 1] = list[k - 1],
         \A i \in 1..Len(symbols) : i \in 1..Len(symbols') /\ symbols'[i] = symbols[i]
  PROVE  IsComplete(k)'
<1> DEFINE at == list[k].at
           before == IF k = 1 THEN 0 ELSE list[k - 1].at
<1>1. /\ at \in 1..Len(stream) /\ before \in 0..Len(stream) /\ Len(stream) \in Nat
      /\ list'[k].at = at /\ (IF k = 1 THEN 0 ELSE list'[k - 1].at) = before
  BY EntryAt DEF TypeInv
<1>2. at \in Nat /\ (\A j \in 1..at : stream'[j] = stream[j]) /\ stream'[at] = stream[at]
  BY <1>1
<1>3. /\ SymbolSet(bindKind, stream', at) = SymbolSet(bindKind, stream, at)
      /\ DylibSet(bindKind, stream', at) = DylibSet(bindKind, stream, at)
      /\ AddendSet(bindKind, stream', at) = AddendSet(bindKind, stream, at)
      /\ SegmentSet(bindKind, stream', at) = SegmentSet(bindKind, stream, at)
      /\ KindSet(bindKind, stream', at) = KindSet(bindKind, stream, at)
  BY <1>2, SameSet
<1>4. \A j \in (before + 1)..(at - 1) : stream'[j] = stream[j]
  BY <1>1, <1>2
<1>5. KindsAreKnown(at)' => KindsAreKnown(at)
  BY <1>2 DEF KindsAreKnown
<1> HIDE DEF at, before
<1>6. /\ list'[k].symbol = SymbolSet(bindKind', stream', list'[k].at)
      /\ list'[k].dylib = DylibSet(bindKind', stream', list'[k].at)
      /\ list'[k].addend = AddendSet(bindKind', stream', list'[k].at)
      /\ list'[k].segment = SegmentSet(bindKind', stream', list'[k].at)
      /\ KindsAreKnown(at)' => list'[k].kind = KindSet(bindKind', stream', list'[k].at)
  BY <1>1, <1>3, <1>5 DEF IsComplete, at
<1>7. list'[k].isNew <=>
       \E j \in ((IF k = 1 THEN 0 ELSE list'[k - 1].at) + 1)..(list'[k].at - 1) :
          stream'[j].op = "SetSymbolTrailingFlagsImm"
  <2>1. list[k].isNew <=> \E j \in (before + 1)..(at - 1) :
                             stream[j].op = "SetSymbolTrailingFlagsImm"
    BY DEF IsComplete, before, at
  <2>2. list[k].isNew <=> \E j \in (before + 1)..(at - 1) :
                             stream'[j].op = "SetSymbolTrailingFlagsImm"
    BY <1>4, <2>1
  <2> QED
    BY <1>1, <2>2
<1>8. list'[k].symbol # NoString =>
       \E i \in 1..Len(symbols') : /\ symbols'[i].symbol = list'[k].symbol
                                   /\ symbols'[i].at <= list'[k].at
  BY DEF IsComplete
<1>9. /\ list'[k].error = "None" /\ stream'[list'[k].at].op = "DoBind" =>
           list'[k].dylib # -1 /\ list'[k].segment # -1 /\ list'[k].kind # NoWriteKind
      /\ list'[k].error = "NoDylibOrdinal" => list'[k].dylib = -1
      /\ list'[k].error = "NoSegmentIndex" => list'[k].segment = -1
      /\ list'[k].error = "NoWriteKind" => list'[k].kind = NoWriteKind
  BY <1>1, <1>2 DEF IsComplete, at
<1> QED
  BY <1>6, <1>7, <1>8, <1>9 DEF IsComplete, KindsAreKnown, at

\* The action that is listed is complete.
LEMMA ListedIsComplete ==
  ASSUME TypeInv, CurrentInv, ListInv, CompleteInv, Keeps, NEW k, k = Len(list'),
         \A j \in 1..Len(stream) : stream'[j] = stream[j]
  PROVE  IsComplete(k)'
<1>0. Going /\ pc = "yielded" /\ bindKind' = bindKind /\ bindKind \in BindInfoKinds
  BY DEF Keeps, Going, CurrentInv, TypeInv
<1>1. /\ list'[k].at = Len(stream) /\ list'[k].error = info.error
      /\ list'[k].symbol = info.symbolName /\ list'[k].isNew = info.newSymbolName
      /\ list'[k].addend = info.addend /\ list'[k].dylib = info.dylibOrdinal
      /\ list'[k].segment = info.segmentIndex /\ list'[k].kind = info.writeKind
  BY KeepsFields, GetActionFits
<1>2. Len(stream) \in Nat /\ Len(stream) \in 1..Len(stream) /\ Byte = stream[Len(stream)]
      /\ stream'[Len(stream)] = Byte
  <2>1. Len(stream) \in 1..Len(stream) /\ Len(stream) \in Nat
    BY <1>0, CurrentOpcode DEF TypeInv, Going
  <2> QED
    BY <2>1 DEF Byte
<1>3. (IF k = 1 THEN 0 ELSE list'[k - 1].at) = LastAt
  <2>1. /\ Len(list) \in Nat /\ k = Len(list) + 1
        /\ \A n \in 1..Len(list) : list'[n] = list[n]
        /\ (list = <<>> <=> Len(list) = 0)
    BY KeepsFields DEF TypeInv
  <2> QED
    BY <2>1 DEF LastAt
<1>4. /\ info.newSymbolName <=> NewlyNamed
      /\ Named /\ YieldedIsReady /\ KnownFrom(bindKind, stream, info)
  BY <1>0, NameParts DEF CompleteInv
<1>5. /\ list'[k].symbol = SymbolSet(bindKind', stream', list'[k].at)
      /\ list'[k].dylib = DylibSet(bindKind', stream', list'[k].at)
      /\ list'[k].addend = AddendSet(bindKind', stream', list'[k].at)
      /\ list'[k].segment = SegmentSet(bindKind', stream', list'[k].at)
      /\ (\A j \in 1..list'[k].at : ReadError(bindKind', stream'[j]) # "UnrecognizedBindWriteKind")
           => list'[k].kind = KindSet(bindKind', stream', list'[k].at)
  <2>1. /\ SymbolSet(bindKind, stream', Len(stream)) = SymbolSet(bindKind, stream, Len(stream))
        /\ DylibSet(bindKind, stream', Len(stream)) = DylibSet(bindKind, stream, Len(stream))
        /\ AddendSet(bindKind, stream', Len(stream)) = AddendSet(bindKind, stream, Len(stream))
        /\ SegmentSet(bindKind, stream', Len(stream)) = SegmentSet(bindKind, stream, Len(stream))
        /\ KindSet(bindKind, stream', Len(stream)) = KindSet(bindKind, stream, Len(stream))
    BY <1>2, SameSet
  <2>2. (\A j \in 1..Len(stream) : ReadError(bindKind, stream'[j]) # "UnrecognizedBindWriteKind")
        => \A j \in 1..Len(stream) : ReadError(bindKind, stream[j]) # "UnrecognizedBindWriteKind"
    OBVIOUS
  <2> QED
    BY <1>0, <1>1, <1>4, <2>1, <2>2 DEF KnownFrom
<1>6. list'[k].isNew <=>
       \E j \in ((IF k = 1 THEN 0 ELSE list'[k - 1].at) + 1)..(list'[k].at - 1) :
          stream'[j].op = "SetSymbolTrailingFlagsImm"
  <2>1. \A j \in (LastAt + 1)..(Len(stream) - 1) : stream'[j] = stream[j]
    BY <1>2, LastAtFits
  <2>2. NewlyNamed <=> \E j \in (LastAt + 1)..(Len(stream) - 1) :
                          stream'[j].op = "SetSymbolTrailingFlagsImm"
    BY <2>1 DEF NewlyNamed
  <2>3. list'[k].isNew <=> NewlyNamed
    BY <1>1, <1>4, Zenon
  <2> QED
    BY <1>1, <1>3, <2>2, <2>3
<1>7. list'[k].symbol # NoString =>
       \E i \in 1..Len(symbols') : /\ symbols'[i].symbol = list'[k].symbol
                                   /\ symbols'[i].at <= list'[k].at
  <2>1. \/ info.symbolName = NoString
        \/ \E i \in 1..Len(symbols') : /\ symbols'[i].symbol = info.symbolName
                                       /\ symbols'[i].at <= Len(stream)
    BY <1>2, <1>4, KeepsName
  <2> QED
    BY <1>1, <2>1
<1>8. /\ list'[k].error = "None" /\ stream'[list'[k].at].op = "DoBind" =>
           list'[k].dylib # -1 /\ list'[k].segment # -1 /\ list'[k].kind # NoWriteKind
      /\ list'[k].error = "NoDylibOrdinal" => list'[k].dylib = -1
      /\ list'[k].error = "NoSegmentIndex" => list'[k].segment = -1
      /\ list'[k].error = "NoWriteKind" => list'[k].kind = NoWriteKind
  BY <1>0, <1>1, <1>2, <1>4 DEF YieldedIsReady
<1> QED
  BY <1>5, <1>6, <1>7, <1>8 DEF IsComplete, KindsAreKnown

LEMMA CompleteStep ==
  ASSUME TypeInv, CurrentInv, ListInv, CompleteInv, [Next]_vars
  PROVE  \A k \in 1..Len(list') : IsComplete(k)'
<1>0. \A k \in 1..Len(list) : IsComplete(k)
  BY DEF CompleteInv
<1>2. CASE Opens
  <2>1. list' = <<>> /\ Len(list') = 0
    BY <1>2 DEF Opens
  <2> QED
    BY <2>1
<1>3. CASE UNCHANGED <<list, symbols, bindKind>> /\ \A j \in 1..Len(stream) : stream'[j] = stream[j]
  BY <1>0, <1>3, CompleteStays
<1>4. CASE Keeps /\ \A j \in 1..Len(stream) : stream'[j] = stream[j]
  <2> SUFFICES ASSUME NEW k \in 1..Len(list') PROVE IsComplete(k)'
    OBVIOUS
  <2>1. /\ Len(list) \in Nat /\ Len(list') = Len(list) + 1 /\ bindKind' = bindKind
        /\ \A n \in 1..Len(list) : n \in 1..Len(list') /\ list'[n] = list[n]
        /\ \A n \in 1..Len(symbols) : n \in 1..Len(symbols') /\ symbols'[n] = symbols[n]
    BY <1>4, KeepsFields DEF Keeps
  <2>2. CASE k \in 1..Len(list)
    <3>1. list'[k] = list[k] /\ (k # 1 => list'[k - 1] = list[k - 1])
      BY <2>1, <2>2
    <3> QED
      BY <1>0, <1>4, <2>1, <2>2, <3>1, CompleteStays
  <2>3. CASE k = Len(list')
    BY <1>4, <2>3, ListedIsComplete
  <2> QED
    BY <2>1, <2>2, <2>3
<1>5. CASE Goes
  <2>1. \A j \in 1..Len(stream) : stream'[j] = stream[j]
    BY <1>5, ReadsFields DEF Goes
  <2> QED
    BY <1>3, <1>5, <2>1 DEF Goes, ListsStay
<1>6. CASE Passes
  <2>1. \A j \in 1..Len(stream) : stream'[j] = stream[j]
    BY <1>6, ReadsFields DEF Passes
  <2> QED
    BY <1>4, <1>6, <2>1 DEF Passes
<1>7. CASE Stays
  BY <1>4, <1>7 DEF Stays
<1>8. CASE (Yields \/ Ends \/ Rests) /\ ListsStay
  BY <1>3, <1>8 DEF Yields, Ends, Rests, ListsStay
<1> QED
  BY <1>2, <1>5, <1>6, <1>7, <1>8, NextStep DEF Rests

\* CompleteInv is an invariant: what the iterator knows is what the bytes
\* it took set, and each action is listed with it.
LEMMA CompleteInvHolds == Spec => []CompleteInv
<1>1. Init => CompleteInv
  <2> SUFFICES ASSUME Init PROVE CompleteInv
    OBVIOUS
  <2>1. pc = "end" /\ list = <<>> /\ Len(list) = 0
    BY DEF Init, InitIterator
  <2> QED
    BY <2>1 DEF CompleteInv, Going, NameIsListed, YieldedIsReady
<1>2. TypeInv /\ CurrentInv /\ ListInv /\ CompleteInv /\ [Next]_vars => CompleteInv'
  <2> SUFFICES ASSUME TypeInv, CurrentInv, ListInv, CompleteInv, [Next]_vars PROVE CompleteInv'
    OBVIOUS
  <2>1. (Going => KnownFrom(bindKind, stream, info))'
    BY KnownStep DEF CompleteInv
  <2>2. NameIsListed' /\ YieldedIsReady'
    BY NameStep, ReadyStep DEF CompleteInv
  <2>3. (\A k \in 1..Len(list) : IsComplete(k))'
    BY CompleteStep
  <2> QED
    BY <2>1, <2>2, <2>3 DEF CompleteInv
<1> QED
  BY <1>1, <1>2, IteratorInvariant, PTL DEF Spec

LEMMA CompleteParts ==
  ASSUME TypeInv, CurrentInv, ListInv, \A k \in 1..Len(list) : IsComplete(k)
  PROVE  ActionsAreComplete
<1>1. \A k \in 1..Len(list) : list[k].at \in 1..Len(stream)
  BY EntryAt
<1>2. ActionsHaveWhatWasSet
  BY Zenon DEF ActionsHaveWhatWasSet, ActionsOf, IsComplete
<1>3. NewNamesAreMarked /\ EverySymbolListed
  BY Zenon DEF NewNamesAreMarked, EverySymbolListed, IsComplete
<1>4. BindsAreRefusedRightly
  <2> SUFFICES ASSUME NEW at \in 1..Len(stream), stream[at].op = "DoBind", KindsAreKnown(at),
                      NEW k \in ActionsOf(at)
               PROVE  /\ list[k].error = "None" => Missing(at) \subseteq CannotSet
                      /\ list[k].error \in NotReady => list[k].error \in Missing(at)
    BY Zenon DEF BindsAreRefusedRightly, NotReady
  <2>1. k \in 1..Len(list) /\ list[k].at = at
    BY DEF ActionsOf
  <2>2. /\ list[k].dylib = DylibSet(bindKind, stream, at)
        /\ list[k].segment = SegmentSet(bindKind, stream, at)
        /\ list[k].kind = KindSet(bindKind, stream, at)
        /\ list[k].error = "None" =>
             list[k].dylib # -1 /\ list[k].segment # -1 /\ list[k].kind # NoWriteKind
        /\ list[k].error = "NoDylibOrdinal" => list[k].dylib = -1
        /\ list[k].error = "NoSegmentIndex" => list[k].segment = -1
        /\ list[k].error = "NoWriteKind" => list[k].kind = NoWriteKind
    BY <2>1 DEF IsComplete
  <2>3. \A e : e \in Missing(at) <=>
               \/ e = "NoDylibOrdinal" /\ DylibSet(bindKind, stream, at) = -1
               \/ e = "NoSegmentIndex" /\ SegmentSet(bindKind, stream, at) = -1
               \/ e = "NoWriteKind" /\ KindSet(bindKind, stream, at) = NoWriteKind
    BY DEF Missing
  <2> QED
    BY <2>2, <2>3 DEF NotReady
<1> QED
  BY <1>2, <1>3, <1>4 DEF ActionsAreComplete

\* Every action is listed with what the opcodes before it set last, the first of
\* each name is marked and the list of symbols has the name, and DO_BIND is refused
\* for what was not set, and only for that.
THEOREM ActionsKeepTheirParts == Spec => []ActionsAreComplete
<1>1. TypeInv /\ CurrentInv /\ ListInv /\ CompleteInv => ActionsAreComplete
  BY CompleteParts DEF CompleteInv
<1> QED
  BY <1>1, CompleteInvHolds, IteratorInvariant, PTL

(***************************************************************************)
(* The locations of a stream                                               *)
(***************************************************************************)

\* The ranges of a run's operands, and of an opcode that can be read.
LEMMA RunRanges ==
  ASSUME NEW o \in Opcodes, o.op = "DoBindUlebTimesSkippingUleb"
  PROVE  o.n \in 0..UMax /\ o.m \in Signed
<1>1. Counts \subseteq 0..UMax /\ Skips \subseteq Signed /\ 0 \in Signed /\ 0 \in 0..UMax
  BY BindOperandsAssumption, Widths DEF Signed
<1>2. CASE o \in Opcode("DoBindUlebTimesSkippingUleb", Counts, Skips, {NoString})
  <2>1. o.n \in Counts /\ o.m \in Skips
    BY <1>2, OpcodeParts
  <2> QED
    BY <1>1, <2>1
<1>3. CASE o \in {Rejected(op, 0) : op \in UlebOpcodes}
                 \cup {Rejected("SetSymbolTrailingFlagsImm", 1), Rejected("Threaded", SetTableSize)}
  <2>1. o.n = 0 /\ o.m \in {0, 1}
    BY <1>3 DEF Rejected, SetTableSize
  <2>2. o.m = 0
    BY <1>3, <2>1 DEF Rejected, SetTableSize
  <2> QED
    BY <1>1, <2>1, <2>2
<1>4. CASE o \in UNION {Opcode("Done", {0}, {0}, {NoString}),
            Opcode("SetDylibOrdinalImm", Ordinals, {0}, {NoString}),
            Opcode("SetDylibOrdinalUleb", Ordinals, {0}, {NoString}),
            Opcode("SetDylibSpecialImm", Specials, {0}, {NoString}),
            Opcode("SetSymbolTrailingFlagsImm", {0}, {0, 1}, Symbols),
            Opcode("SetKindImm", WriteKinds, {0}, {NoString}),
            Opcode("SetAddendSleb", Addends, {0}, {NoString}),
            Opcode("SetSegmentAndOffsetUleb", Offsets, Segments, {NoString}),
            Opcode("AddAddrUleb", Adds, {0}, {NoString}),
            Opcode("DoBind", {0}, {0}, {NoString}),
            Opcode("DoBindAddAddrUleb", Adds, {0}, {NoString}),
            Opcode("DoBindAddAddrImmScaled", Scales, {0}, {NoString}),
            Opcode("Threaded", TableSizes, {SetTableSize}, {NoString}),
            Opcode("Threaded", {0}, {ThreadedApply, 2}, {NoString}),
            Opcode("Unrecognized", {0}, {0}, {NoString})}
  <2>1. o.op \in {"Done", "SetDylibOrdinalImm", "SetDylibOrdinalUleb", "SetDylibSpecialImm",
                  "SetSymbolTrailingFlagsImm", "SetKindImm", "SetAddendSleb",
                  "SetSegmentAndOffsetUleb", "AddAddrUleb", "DoBind", "DoBindAddAddrUleb",
                  "DoBindAddAddrImmScaled", "Threaded", "Unrecognized"}
    BY <1>4, OpcodeParts
  <2> QED
    BY <2>1
<1> QED
  BY <1>2, <1>3, <1>4, SMTT(30) DEF Opcodes

\* Products of integers are integers.
LEMMA ProductType == \A a, b \in Int : a * b \in Int
OBVIOUS

\* An opcode moves the cursor to an integer.
LEMMA MovedType ==
  ASSUME NEW c \in Int, NEW o \in Opcodes
  PROVE  Moved(c, o) \in Int
<1>1. o.n \in Int /\ o.m \in Int /\ PtrSize \in Int
  BY OpcodeFields, Widths
<1>2. StepSize(o) \in Int
  BY <1>1 DEF StepSize
<1>3. o.n * PtrSize \in Int /\ o.n * StepSize(o) \in Int
  BY <1>1, <1>2, ProductType
<1> QED
  BY <1>1, <1>3 DEF Moved

\* The cursor after an opcode is the one before it, moved.
LEMMA CursorMoves ==
  ASSUME NEW s, NEW n, n \in Nat, \A k \in 1..n : s[k] \in Opcodes
  PROVE  /\ CursorAt(s, 0) = 0
         /\ \A k \in 0..n : CursorAt(s, k) \in Int
         /\ \A k \in 1..n : CursorAt(s, k) = Moved(CursorAt(s, k - 1), s[k])
<1>1. n \in Nat /\ 0 \in 0..n /\ 0 \in Int
      /\ \A k \in 1..n : k \in 0..n /\ k - 1 \in 0..n /\ s[k] \in Opcodes
  OBVIOUS
<1>2. \A c \in Int, k \in 1..n : Moved(c, s[k]) \in Int
  BY <1>1, MovedType
<1>3. PICK step : step \in [Int \X (1..n) -> Int] /\
        \A c \in Int, k \in 1..n : step[<<c, k>>] = Moved(c, s[k])
  <2> DEFINE step_1 == [q \in Int \X (1..n) |-> Moved(q[1], s[q[2]])]
  <2>1. step_1 \in [Int \X (1..n) -> Int]
        /\ \A c \in Int, k \in 1..n : step_1[<<c, k>>] = Moved(c, s[k])
    BY <1>2
  <2> HIDE DEF step_1
  <2> QED
    BY <2>1
<1>4. PICK f : Ind!IsRecursion(f, Int, 0, n, step)
  BY <1>1, <1>3, Ind!FunctionByRecursion
<1>5. f \in [0..n -> Int] /\ f[0] = 0 /\ \A k \in 1..n : f[k] = Moved(f[k - 1], s[k])
  BY <1>1, <1>3, <1>4 DEF Ind!IsRecursion
<1>6. ASSUME NEW m \in 0..n PROVE CursorAt(s, m) = f[m]
  <2> DEFINE Equation(h) == h = [j \in 0..m |-> IF j = 0 THEN 0 ELSE Moved(h[j - 1], s[j])]
             r == [j \in 0..m |-> f[j]]
  <2>0. m \in 0..m /\ \A j \in 0..m : j \in 0..n /\ (j # 0 => j \in 1..n /\ j - 1 \in 0..m)
    BY <1>1
  <2>1. \A j \in 0..m : r[j] = IF j = 0 THEN 0 ELSE Moved(r[j - 1], s[j])
    BY <1>5, <2>0
  <2>2. Equation(r)
    BY <2>1
  <2>3. PICK g : Equation(g) /\ CursorAt(s, m) = g[m]
    BY <2>2 DEF CursorAt
  <2>5. \A j \in 0..m : g[j] = IF j = 0 THEN 0 ELSE Moved(g[j - 1], s[j])
    BY <2>3
  <2> HIDE DEF Equation, r
  <2>6. \A j \in 0..m : g[j] = f[j]
    <3> DEFINE S == {j \in Nat : j <= m => g[j] = f[j]}
    <3>1. 0 \in S
      BY <1>1, <1>5, <2>5
    <3>2. ASSUME NEW j \in Nat, j \in S PROVE j + 1 \in S
      <4> SUFFICES ASSUME j + 1 <= m PROVE g[j + 1] = f[j + 1]
        OBVIOUS
      <4>1. j + 1 \in 1..n /\ j + 1 \in 0..m /\ (j + 1) - 1 = j /\ j <= m /\ j + 1 # 0
        BY <1>1
      <4>2. g[j] = f[j]
        BY <3>2, <4>1
      <4> QED
        BY <1>5, <2>5, <4>1, <4>2
    <3> HIDE DEF S
    <3>3. Nat \subseteq S
      BY <3>1, <3>2, Ind!SetInduction
    <3> QED
      BY <1>1, <3>3 DEF S
  <2> QED
    BY <2>0, <2>3, <2>6
<1>7. \A k \in 1..n : CursorAt(s, k) = Moved(CursorAt(s, k - 1), s[k])
  BY <1>1, <1>5, <1>6
<1> QED
  BY <1>1, <1>5, <1>6, <1>7

\* Two streams have the same cursor as long as they are the same.
LEMMA CursorStays ==
  ASSUME NEW s \in Seq(Opcodes), NEW t \in Seq(Opcodes), Len(s) <= Len(t),
         \A k \in 1..Len(s) : s[k] = t[k], NEW m \in 0..Len(s)
  PROVE  CursorAt(t, m) = CursorAt(s, m)
<1> DEFINE S == {j \in Nat : j <= Len(s) => CursorAt(t, j) = CursorAt(s, j)}
<1>0. Len(s) \in Nat /\ Len(t) \in Nat /\ \A k \in 1..Len(s) : s[k] \in Opcodes /\ t[k] \in Opcodes
  OBVIOUS
<1>1. 0 \in S
  BY <1>0, CursorMoves
<1>2. ASSUME NEW j \in Nat, j \in S PROVE j + 1 \in S
  <2> SUFFICES ASSUME j + 1 <= Len(s)
               PROVE  CursorAt(t, j + 1) = CursorAt(s, j + 1)
    OBVIOUS
  <2>1. j + 1 \in 1..Len(s) /\ (j + 1) - 1 = j /\ j <= Len(s)
    BY <1>0
  <2>2. CursorAt(t, j) = CursorAt(s, j) /\ s[j + 1] = t[j + 1]
    BY <1>2, <2>1
  <2>3. CursorAt(s, j + 1) = Moved(CursorAt(s, j), s[j + 1])
    BY <1>0, <2>1, CursorMoves, ZenonT(60)
  <2>4. CursorAt(t, j + 1) = Moved(CursorAt(t, j), t[j + 1])
    BY <1>0, <2>1, CursorMoves, ZenonT(60)
  <2> QED
    BY <2>2, <2>3, <2>4
<1> HIDE DEF S
<1>3. Nat \subseteq S
  BY <1>1, <1>2, Ind!SetInduction
<1> QED
  BY <1>0, <1>3 DEF S

\* The opcodes that bind at one address.
BindsOne == {"DoBind", "DoBindAddAddrUleb", "DoBindAddAddrImmScaled"}

\* The locations that are listed for an opcode: the one, those of a run but the
\* last, or none.
Listed(c, o) == IF Len(Bound(c, o)) > 1 THEN Front(Bound(c, o)) ELSE Bound(c, o)

LocationsOf(s, k) == LocationsWithout(LongRuns(s), s, k)
ListedLocations == LocationsOf(stream, Len(stream))

\* What a run lists of its addresses: all but the last, one after the other.
LEMMA ListedFacts ==
  ASSUME NEW c \in Int, NEW o \in Opcodes
  PROVE  /\ Listed(c, o) \in Seq(Int)
         /\ o.op = "DoBindUlebTimesSkippingUleb" /\ o.n > 1 =>
              /\ Len(Listed(c, o)) = o.n - 1
              /\ \A i \in 1..(o.n - 1) : Listed(c, o)[i] = c + (i - 1) * StepSize(o)
         /\ o.op \in BindsOne \/ (o.op = "DoBindUlebTimesSkippingUleb" /\ o.n = 1) =>
              Listed(c, o) = <<c>>
         /\ o.op \notin RunOps => Listed(c, o) = <<>>
<1>1. /\ o.n \in Int /\ o.m \in Int /\ PtrSize \in Int
      /\ o.op = "DoBindUlebTimesSkippingUleb" => o.n \in Nat
  BY OpcodeFields, RunRanges, Widths
<1>2. StepSize(o) \in Int
  BY <1>1 DEF StepSize
<1>3. CASE o.op = "DoBindUlebTimesSkippingUleb"
  <2> DEFINE f == [i \in 1..o.n |-> c + (i - 1) * StepSize(o)]
  <2>1. Bound(c, o) = f /\ o.op \notin BindsOne /\ o.n \in Nat
    BY <1>1, <1>3 DEF Bound, BindsOne
  <2>2. \A i \in 1..o.n : c + (i - 1) * StepSize(o) \in Int
    <3> SUFFICES ASSUME NEW i \in 1..o.n PROVE c + (i - 1) * StepSize(o) \in Int
      OBVIOUS
    <3>1. (i - 1) * StepSize(o) \in Int
      BY <1>2, ProductType
    <3> QED
      BY <3>1
  <2>3. f \in Seq(Int) /\ Len(f) = o.n /\ \A i \in 1..o.n : f[i] = c + (i - 1) * StepSize(o)
    BY <2>1, <2>2
  <2> HIDE DEF f
  <2>4. CASE o.n > 1
    <3>1. Listed(c, o) = SubSeq(f, 1, o.n - 1)
      BY <2>1, <2>3, <2>4 DEF Listed, Front
    <3>2. SubSeq(f, 1, o.n - 1) \in Seq(Int) /\ Len(SubSeq(f, 1, o.n - 1)) = o.n - 1
          /\ \A i \in 1..(o.n - 1) : SubSeq(f, 1, o.n - 1)[i] = f[i]
      BY <2>1, <2>3, <2>4
    <3>3. \A i \in 1..(o.n - 1) : i \in 1..o.n
      BY <2>1
    <3> QED
      BY <1>3, <2>1, <2>3, <2>4, <3>1, <3>2, <3>3 DEF RunOps
  <2>5. CASE ~(o.n > 1)
    <3>1. Listed(c, o) = f
      BY <2>1, <2>3, <2>5 DEF Listed
    <3>2. ASSUME o.n = 1 PROVE f = <<c>>
      <4>1. Len(f) = 1 /\ f[1] = c + (1 - 1) * StepSize(o) /\ (1 - 1) * StepSize(o) = 0
        BY <1>2, <2>3, <3>2
      <4> QED
        BY <2>3, <4>1
    <3> QED
      BY <1>3, <2>1, <2>3, <2>5, <3>1, <3>2 DEF RunOps
  <2> QED
    BY <2>4, <2>5
<1>4. CASE o.op \in BindsOne
  BY <1>4 DEF Listed, Bound, BindsOne, RunOps
<1>5. CASE o.op \notin RunOps
  BY <1>5 DEF Listed, Bound, BindsOne, RunOps
<1> QED
  BY <1>3, <1>4, <1>5 DEF BindsOne, RunOps

\* Each opcode adds those it lists.
LEMMA LocationsGrow ==
  ASSUME NEW s, Len(s) \in Nat, NEW n, n \in Nat, n <= Len(s), \A k \in 1..n : s[k] \in Opcodes
  PROVE  /\ LocationsOf(s, 0) = <<>>
         /\ \A k \in 0..n : LocationsOf(s, k) \in Seq(Int)
         /\ \A k \in 1..n :
              LocationsOf(s, k)
                = LocationsOf(s, k - 1) \o Listed(CursorAt(s, k - 1), s[k])
<1> DEFINE bound(j) == Bound(CursorAt(s, j - 1), s[j])
           L(j) == IF j \in LongRuns(s) THEN Front(bound(j)) ELSE bound(j)
<1>1. n \in Nat /\ 0 \in 0..n /\ <<>> \in Seq(Int)
      /\ \A k \in 1..n : k \in 0..n /\ k - 1 \in 0..n /\ s[k] \in Opcodes /\ k \in 1..Len(s)
  OBVIOUS
<1>2. ASSUME NEW k \in 1..n
      PROVE  L(k) \in Seq(Int) /\ L(k) = Listed(CursorAt(s, k - 1), s[k])
  <2>1. PICK c \in Int, o \in Opcodes : c = CursorAt(s, k - 1) /\ o = s[k]
    BY <1>1, CursorMoves
  <2>2. k \in LongRuns(s) <=> o.op = "DoBindUlebTimesSkippingUleb" /\ o.n > 1
    BY <1>1, <2>1 DEF LongRuns
  <2>3. o.op = "DoBindUlebTimesSkippingUleb" => Len(Bound(c, o)) = o.n
    <3> SUFFICES ASSUME o.op = "DoBindUlebTimesSkippingUleb" PROVE Len(Bound(c, o)) = o.n
      OBVIOUS
    <3>1. o.n \in Nat
      BY RunRanges, Widths
    <3>2. Bound(c, o) = [i \in 1..o.n |-> c + (i - 1) * StepSize(o)]
      BY DEF Bound
    <3> QED
      BY <3>1, <3>2
  <2>4. o.op # "DoBindUlebTimesSkippingUleb" => Len(Bound(c, o)) \in {0, 1}
    <3>1. o.op \in {"DoBind", "DoBindAddAddrUleb", "DoBindAddAddrImmScaled"} => Bound(c, o) = <<c>>
      BY DEF Bound
    <3>2. o.op \notin {"DoBind", "DoBindAddAddrUleb", "DoBindAddAddrImmScaled",
                      "DoBindUlebTimesSkippingUleb"} => Bound(c, o) = <<>>
      BY DEF Bound
    <3>3. Len(<<c>>) = 1 /\ Len(<<>>) = 0
      OBVIOUS
    <3> HIDE DEF Bound
    <3> QED
      BY <3>1, <3>2, <3>3
  <2>5. k \in LongRuns(s) <=> Len(Bound(c, o)) > 1
    <3>1. CASE o.op = "DoBindUlebTimesSkippingUleb"
      BY <2>2, <2>3, <3>1
    <3>2. CASE o.op # "DoBindUlebTimesSkippingUleb"
      <4>1. ~(0 > 1) /\ ~(1 > 1)
        OBVIOUS
      <4> QED
        BY <2>2, <2>4, <3>2, <4>1, Zenon
    <3> QED
      BY <3>1, <3>2
  <2>6. L(k) = Listed(c, o)
    BY <2>1, <2>5 DEF Listed
  <2>7. Listed(c, o) \in Seq(Int)
    BY ListedFacts
  <2> HIDE DEF L
  <2> QED
    BY <2>1, <2>6, <2>7
<1> HIDE DEF L
<1>3. PICK step : step \in [Seq(Int) \X (1..n) -> Seq(Int)] /\
        \A c \in Seq(Int), k \in 1..n : step[<<c, k>>] = c \o L(k)
  <2> DEFINE step_1 == [q \in Seq(Int) \X (1..n) |-> q[1] \o L(q[2])]
  <2>1. \A c \in Seq(Int), k \in 1..n : c \o L(k) \in Seq(Int)
    BY <1>2
  <2>2. step_1 \in [Seq(Int) \X (1..n) -> Seq(Int)]
        /\ \A c \in Seq(Int), k \in 1..n : step_1[<<c, k>>] = c \o L(k)
    BY <2>1
  <2> HIDE DEF step_1
  <2> QED
    BY <2>2
<1>4. PICK f : Ind!IsRecursion(f, Seq(Int), <<>>, n, step)
  BY <1>1, <1>3, Ind!FunctionByRecursion
<1>5. f \in [0..n -> Seq(Int)] /\ f[0] = <<>>
      /\ \A k \in 1..n : f[k] = f[k - 1] \o L(k)
  BY <1>1, <1>3, <1>4 DEF Ind!IsRecursion
<1>6. ASSUME NEW m \in 0..n PROVE LocationsOf(s, m) = f[m]
  <2> DEFINE Equation(h) == h = [j \in 0..m |-> IF j = 0 THEN <<>> ELSE h[j - 1] \o L(j)]
             r == [j \in 0..m |-> f[j]]
  <2>0. m \in 0..m /\ \A j \in 0..m : j \in 0..n /\ (j # 0 => j \in 1..n /\ j - 1 \in 0..m)
    BY <1>1
  <2>3. PICK g : Equation(g) /\ LocationsOf(s, m) = g[m]
    <3>1. \A j \in 0..m : r[j] = IF j = 0 THEN <<>> ELSE r[j - 1] \o L(j)
      BY <1>5, <2>0
    <3>2. Equation(r)
      BY <3>1
    <3> HIDE DEF r
    <3> QED
      BY <3>2 DEF LocationsOf, LocationsWithout, L
  <2>5. \A j \in 0..m : g[j] = IF j = 0 THEN <<>> ELSE g[j - 1] \o L(j)
    BY <2>3
  <2> HIDE DEF Equation, r
  <2>6. \A j \in 0..m : g[j] = f[j]
    <3> DEFINE S == {j \in Nat : j <= m => g[j] = f[j]}
    <3>1. 0 \in S
      BY <1>1, <1>5, <2>5
    <3>2. ASSUME NEW j \in Nat, j \in S PROVE j + 1 \in S
      <4> SUFFICES ASSUME j + 1 <= m PROVE g[j + 1] = f[j + 1]
        OBVIOUS
      <4>1. j + 1 \in 1..n /\ j + 1 \in 0..m /\ (j + 1) - 1 = j /\ j <= m /\ j + 1 # 0
        BY <1>1
      <4>2. g[j] = f[j]
        BY <3>2, <4>1
      <4> QED
        BY <1>5, <2>5, <4>1, <4>2
    <3> HIDE DEF S
    <3>3. Nat \subseteq S
      BY <3>1, <3>2, Ind!SetInduction
    <3> QED
      BY <1>1, <3>3 DEF S
  <2> QED
    BY <2>0, <2>3, <2>6
<1>7. \A k \in 0..n : LocationsOf(s, k) \in Seq(Int)
  BY <1>5, <1>6
<1>8. ASSUME NEW k \in 1..n
      PROVE  LocationsOf(s, k)
               = LocationsOf(s, k - 1) \o Listed(CursorAt(s, k - 1), s[k])
  <2>1. LocationsOf(s, k) = f[k] /\ LocationsOf(s, k - 1) = f[k - 1]
    BY <1>1, <1>6
  <2>2. f[k] = f[k - 1] \o L(k)
    BY <1>5
  <2> QED
    BY <1>2, <2>1, <2>2
<1> QED
  BY <1>1, <1>5, <1>6, <1>7, <1>8

\* The locations of the first opcodes stay when opcodes are added.
LEMMA LocationsStay ==
  ASSUME NEW s \in Seq(Opcodes), NEW t \in Seq(Opcodes), Len(s) <= Len(t),
         \A k \in 1..Len(s) : s[k] = t[k], NEW m \in 0..Len(s)
  PROVE  LocationsOf(t, m) = LocationsOf(s, m)
<1> DEFINE S == {j \in Nat : j <= Len(s) => LocationsOf(t, j) = LocationsOf(s, j)}
<1>0. Len(s) \in Nat /\ Len(t) \in Nat /\ \A k \in 1..Len(s) : s[k] \in Opcodes /\ t[k] \in Opcodes
  OBVIOUS
<1>a. Len(s) <= Len(s) /\ Len(s) <= Len(t)
  BY <1>0
<1>1. 0 \in S
  BY <1>0, <1>a, LocationsGrow
<1>2. ASSUME NEW j \in Nat, j \in S PROVE j + 1 \in S
  <2> SUFFICES ASSUME j + 1 <= Len(s)
               PROVE  LocationsOf(t, j + 1) = LocationsOf(s, j + 1)
    OBVIOUS
  <2>1. PICK k \in 1..Len(s) : k = j + 1 /\ k - 1 = j /\ j <= Len(s) /\ j \in 0..Len(s)
    BY <1>0
  <2>2. LocationsOf(t, j) = LocationsOf(s, j) /\ s[k] = t[k]
        /\ CursorAt(t, j) = CursorAt(s, j)
    BY <1>2, <2>1, CursorStays
  <2>3. LocationsOf(s, k)
          = LocationsOf(s, k - 1) \o Listed(CursorAt(s, k - 1), s[k])
    BY <1>0, <1>a, LocationsGrow
  <2>4. LocationsOf(t, k)
          = LocationsOf(t, k - 1) \o Listed(CursorAt(t, k - 1), t[k])
    BY <1>0, <1>a, LocationsGrow
  <2> QED
    BY <2>1, <2>2, <2>3, <2>4
<1> HIDE DEF S
<1>3. Nat \subseteq S
  BY <1>1, <1>2, Ind!SetInduction
<1> QED
  BY <1>0, <1>3 DEF S

(***************************************************************************)
(* The addresses follow the stream                                         *)
(***************************************************************************)

\* A signed number stays as it is when it is taken back.
LEMMA SignedSame ==
  ASSUME NEW n \in Signed
  PROVE  ToSigned(n) = n /\ ToUnsigned(ToSigned(n)) = ToUnsigned(n)
<1>1. TopBit \in Nat /\ TopBit >= 1 /\ SMax \in Nat /\ n \in Int
  BY Widths DEF Signed
<1>2. CASE n >= 0
  <2>1. n \in 0..UMax /\ n <= SMax
    BY <1>1, <1>2 DEF SMax, UMax, Signed
  <2> QED
    BY <2>1, UnsignedSame DEF ToSigned
<1>3. CASE n < 0
  <2>1. n + 2 * TopBit \in 0..UMax /\ n + 2 * TopBit > SMax
    BY <1>1, <1>3 DEF SMax, UMax, Signed
  <2>2. n % (2 * TopBit) = n + 2 * TopBit
    BY <1>1, <1>3, <2>1 DEF SMax, UMax
  <2> QED
    BY <1>1, <2>1, <2>2 DEF ToSigned, ToUnsigned, SMax
<1> QED
  BY <1>1, <1>2, <1>3

\* An unsigned number that was stored as a signed one can be had back.
LEMMA SignedBack ==
  ASSUME NEW n \in 0..UMax
  PROVE  ToUnsigned(ToSigned(n)) = n
<1>1. TopBit \in Nat /\ TopBit >= 1 /\ SMax \in Nat /\ n \in Int /\ UMax \in Nat
  BY Widths
<1>2. ToUnsigned(n) = n
  BY UnsignedSame
<1>3. CASE n <= SMax
  BY <1>2, <1>3 DEF ToSigned
<1>4. CASE n > SMax
  <2>1. ToSigned(n) = n - 2 * TopBit
    BY <1>1, <1>2, <1>4 DEF ToSigned
  <2>2. (n - 2 * TopBit) % (2 * TopBit) = n
    BY <1>1, Widths
  <2> QED
    BY <2>1, <2>2 DEF ToUnsigned
<1> QED
  BY <1>1, <1>3, <1>4

\* What the opcode iterator has of an opcode that it could read.
Operands(i, o) ==
  /\ o.op = "SetSegmentAndOffsetUleb" => i.segOffset = o.n
  /\ o.op \in {"AddAddrUleb", "DoBindAddAddrUleb"} => i.addAddr = o.n
  /\ o.op = "DoBindAddAddrImmScaled" => i.skip = o.n
  /\ o.op = "DoBindUlebTimesSkippingUleb" =>
       i.addAddr = ToSigned(o.n) /\ i.skip = ToUnsigned(o.m)

\* An opcode without an error is read with its operands.
LEMMA ReadsOperands ==
  ASSUME NEW kind, NEW i \in InfoType, NEW o \in Opcodes
  PROVE  /\ ReadOpcode(kind, i, o).addrInSeg = i.addrInSeg
         /\ ReadError(kind, o) = "None" => Operands(ReadOpcode(kind, i, o), o)
<1>1. ReadOpcode(kind, i, o).addrInSeg = i.addrInSeg
  BY ReadOpcodeFields
<1>2. ASSUME ReadError(kind, o) = "None" PROVE Operands(ReadOpcode(kind, i, o), o)
  <2> DEFINE j == [i EXCEPT !.error = "None"]
  <2>1. j \in [error : {"None"}, addend : Int, dylibOrdinal : Int,
               symbolName : Symbols \cup {NoString},
               segmentIndex : Int, segOffset : 0..UMax, threadedCount : Nat, addAddr : Signed,
               skip : 0..UMax, flags : Int, writeKind : Nat, addrInSeg : 0..UMax,
               newSymbolName : BOOLEAN]
    BY DEF InfoType
  <2>2. CASE o.op = "SetSegmentAndOffsetUleb"
    <3>1. ReadOpcode(kind, i, o) = [j EXCEPT !.segOffset = o.n, !.segmentIndex = o.m]
      BY <1>2, <2>2 DEF ReadOpcode, DylibOpcodes
    <3> HIDE DEF j
    <3> QED
      BY <2>1, <2>2, <3>1 DEF Operands
  <2>3. CASE o.op \in {"AddAddrUleb", "DoBindAddAddrUleb"}
    <3>1. ReadOpcode(kind, i, o) = [j EXCEPT !.addAddr = o.n]
      BY <1>2, <2>3 DEF ReadOpcode, DylibOpcodes
    <3> HIDE DEF j
    <3> QED
      BY <2>1, <2>3, <3>1 DEF Operands
  <2>4. CASE o.op = "DoBindAddAddrImmScaled"
    <3>1. ReadOpcode(kind, i, o) = [j EXCEPT !.skip = o.n]
      BY <1>2, <2>4 DEF ReadOpcode, DylibOpcodes
    <3> HIDE DEF j
    <3> QED
      BY <2>1, <2>4, <3>1 DEF Operands
  <2>5. CASE o.op = "DoBindUlebTimesSkippingUleb"
    <3>1. ReadOpcode(kind, i, o)
            = [j EXCEPT !.addAddr = ToSigned(o.n), !.skip = ToUnsigned(o.m)]
      BY <1>2, <2>5 DEF ReadOpcode, DylibOpcodes
    <3> HIDE DEF j
    <3> QED
      BY <2>1, <2>5, <3>1 DEF Operands
  <2> QED
    BY <2>2, <2>3, <2>4, <2>5 DEF Operands
<1> QED
  BY <1>1, <1>2

\* Where the first m opcodes have led.
At(m) == CursorAt(stream, m)

\* The list has the locations of the first m opcodes, and r of those of the next.
HasListed(m, r) ==
  /\ Len(list) = Len(LocationsOf(stream, m)) + r
  /\ \A j \in 1..Len(LocationsOf(stream, m)) :
       list[j].addr = LocationsOf(stream, m)[j]
  /\ \A j \in 1..r : list[Len(LocationsOf(stream, m)) + j].addr
                       = Listed(At(m), stream[m + 1])[j]

\* Between two opcodes the address is the cursor, unless it went astray; an opcode
\* that was taken for the end has nothing to list.
Between ==
  /\ segAdd = 0
  /\ ~atEnd => /\ ~Astray(bindKind, stream, Len(stream)) => info.addrInSeg = At(Len(stream) - 1)
               /\ HasListed(Len(stream) - 1, 0)
  /\ atEnd => HasListed(Len(stream), 0)

\* In a run, r addresses have been passed.
InRun(r) ==
  /\ Byte.op = "DoBindUlebTimesSkippingUleb"
  /\ segAdd = 0 /\ addAmt = StepSize(Byte)
  /\ r \in 0..(Byte.n - 1) /\ (Byte.n > 1 => r < Byte.n - 1) /\ count = Byte.n - 1 - r
  /\ info.addrInSeg = At(Len(stream) - 1) + r * StepSize(Byte)
  /\ HasListed(Len(stream) - 1, IF pc = "yielded" THEN r ELSE r + 1)

\* In a bind of one location, the cursor is still to be moved.
InBind ==
  /\ Byte.op \in BindsOne
  /\ info.addrInSeg + segAdd = At(Len(stream))
  /\ info.addrInSeg = At(Len(stream) - 1)
  /\ HasListed(Len(stream) - 1, IF pc = "yielded" THEN 0 ELSE 1)

\* The inductive invariant: where the iterator is in the opcode that LastByte
\* has, and what has been listed up to there.
Follows ==
  /\ pc # "end" /\ ~atEnd => Operands(info, Byte)
  /\ pc = "advance" => last \in RunOps \cup {NoneLeft}
  /\ pc = "advance" /\ last = NoneLeft => Between
  /\ pc # "end" /\ last = "DoBindUlebTimesSkippingUleb" => \E r \in Nat : InRun(r)
  /\ pc # "end" /\ last \in BindsOne => InBind
  /\ pc = "yielded" => last \in RunOps
  /\ pc = "end" => HasListed(Len(stream), 0)

\* DONE ends a list that is not lazy.
DoneInv ==
  ~atEnd /\ bindKind # "Lazy" =>
    reachedEnd = FALSE /\ \A k \in 1..Len(stream) : stream[k].op # "Done"

\* The invariant of the address: the iterator has stopped at the end of its
\* list, and follows the opcodes while they stay in the segment.
AddressInv ==
  /\ stopped => pc = "yielded" /\ info.error # "None"
  /\ DoneInv
  /\ Regular => Follows

\* An opcode that has listed all its locations is done.
LEMMA OpcodeDone ==
  ASSUME TypeInv, ListInv, stream # <<>>,
         HasListed(Len(stream) - 1,
                   Len(Listed(At(Len(stream) - 1), stream[Len(stream)])))
  PROVE  HasListed(Len(stream), 0)
<1>1. PICK n \in Nat \ {0} : n = Len(stream) /\ n \in 1..Len(stream) /\ n - 1 \in 0..Len(stream)
                             /\ (n - 1) + 1 = n
  BY DEF TypeInv
<1>2. stream \in Seq(Opcodes) /\ stream[n] \in Opcodes /\ \A k \in 1..n : stream[k] \in Opcodes
      /\ Len(stream) \in Nat /\ n <= Len(stream)
  BY <1>1 DEF TypeInv
<1> DEFINE a == LocationsOf(stream, n - 1)
           b == Listed(At(n - 1), stream[n])
<1>3. a \in Seq(Int) /\ b \in Seq(Int) /\ LocationsOf(stream, n) = a \o b
  <2>1. n \in Nat /\ n - 1 \in 0..n /\ n \in 1..n
    BY <1>1
  <2>2. At(n - 1) \in Int
    BY <1>2, <2>1, CursorMoves DEF At
  <2>3. b \in Seq(Int)
    BY <1>2, <2>2, ListedFacts
  <2>4. a \in Seq(Int)
    BY <1>2, <2>1, LocationsGrow
  <2>5. LocationsOf(stream, n) = a \o b
    BY <1>2, <2>1, LocationsGrow DEF At
  <2> QED
    BY <2>3, <2>4, <2>5
<1>4. /\ Len(list) = Len(a) + Len(b)
      /\ \A j \in 1..Len(a) : list[j].addr = a[j]
      /\ \A j \in 1..Len(b) : list[Len(a) + j].addr = b[j]
  BY <1>1 DEF HasListed
<1> HIDE DEF a, b
<1>5. /\ Len(a \o b) = Len(a) + Len(b) /\ Len(a) \in Nat /\ Len(b) \in Nat
      /\ \A j \in 1..(Len(a) + Len(b)) : (a \o b)[j] = IF j <= Len(a) THEN a[j] ELSE b[j - Len(a)]
  BY <1>3
<1>6. \A j \in 1..(Len(a) + Len(b)) : list[j].addr = (a \o b)[j]
  <2> SUFFICES ASSUME NEW j \in 1..(Len(a) + Len(b)) PROVE list[j].addr = (a \o b)[j]
    OBVIOUS
  <2>1. CASE j <= Len(a)
    BY <1>4, <1>5, <2>1
  <2>2. CASE ~(j <= Len(a))
    <3>1. j - Len(a) \in 1..Len(b) /\ Len(a) + (j - Len(a)) = j
      BY <1>5, <2>2
    <3> QED
      BY <1>4, <1>5, <2>2, <3>1
  <2> QED
    BY <2>1, <2>2
<1>7. 1..0 = {}
  OBVIOUS
<1>8. PICK l : l = LocationsOf(stream, n) /\ l = a \o b
  BY <1>3
<1>9. Len(l) = Len(a) + Len(b) /\ Len(list) = Len(l) + 0
      /\ \A j \in 1..Len(l) : list[j].addr = l[j]
  BY <1>4, <1>5, <1>6, <1>8
<1> QED
  BY <1>1, <1>7, <1>8, <1>9 DEF HasListed

\* An action is listed at the address of the iterator.
LEMMA ListsNext ==
  ASSUME TypeInv, ListInv, list' = Append(list, GetAction), UNCHANGED <<bindKind, stream>>,
         NEW m, NEW r \in Nat, HasListed(m, r), m \in 0..Len(stream),
         info.addrInSeg = Listed(At(m), stream[m + 1])[r + 1]
  PROVE  HasListed(m, r + 1)'
<1>1. /\ list \in Seq(EntryType) /\ GetAction \in EntryType /\ GetAction.addr = info.addrInSeg
      /\ stream \in Seq(Opcodes) /\ Len(stream) \in Nat
      /\ \A k \in 1..Len(stream) : stream[k] \in Opcodes
  BY GetActionFits DEF TypeInv, ListInv
<1>2. /\ Len(list') = Len(list) + 1 /\ \A k \in 1..Len(list) : list'[k] = list[k]
      /\ list'[Len(list) + 1].addr = info.addrInSeg
  BY <1>1
<1> DEFINE a == LocationsOf(stream, m)
           b == Listed(At(m), stream[m + 1])
<1>3. Len(a) \in Nat
  <2>1. Len(stream) <= Len(stream)
    BY <1>1
  <2> QED
    BY <1>1, <2>1, LocationsGrow
<1>4. /\ Len(list) = Len(a) + r
      /\ \A j \in 1..Len(a) : list[j].addr = a[j]
      /\ \A j \in 1..r : list[Len(a) + j].addr = b[j]
      /\ info.addrInSeg = b[r + 1]
  BY DEF HasListed
<1>5. HasListed(m, r + 1)' =
        (/\ Len(list') = Len(a) + (r + 1)
         /\ \A j \in 1..Len(a) : list'[j].addr = a[j]
         /\ \A j \in 1..(r + 1) : list'[Len(a) + j].addr = b[j])
  BY DEF HasListed, At
<1> HIDE DEF a, b
<1>6. \A j \in 1..Len(a) : list'[j].addr = a[j]
  <2>1. \A j \in 1..Len(a) : j \in 1..Len(list)
    BY <1>3, <1>4
  <2> QED
    BY <1>2, <1>4, <2>1
<1>7. \A j \in 1..(r + 1) : list'[Len(a) + j].addr = b[j]
  <2> SUFFICES ASSUME NEW j \in 1..(r + 1) PROVE list'[Len(a) + j].addr = b[j]
    OBVIOUS
  <2>1. CASE j = r + 1
    <3>1. Len(a) + j = Len(list) + 1
      BY <1>3, <1>4, <2>1
    <3> QED
      BY <1>2, <1>4, <2>1, <3>1
  <2>2. CASE j # r + 1
    <3>1. j \in 1..r /\ Len(a) + j \in 1..Len(list)
      BY <1>3, <1>4, <2>2
    <3> QED
      BY <1>2, <1>4, <3>1
  <2> QED
    BY <2>1, <2>2
<1>8. Len(list') = Len(a) + (r + 1)
  BY <1>2, <1>3, <1>4
<1> QED
  BY <1>5, <1>6, <1>7, <1>8

\* What is listed depends on the stream and the list only.
LEMMA KeepsListed ==
  ASSUME UNCHANGED <<bindKind, stream, list>>, NEW m, NEW r
  PROVE  HasListed(m, r)' = HasListed(m, r) /\ At(m)' = At(m)
BY DEF HasListed, At

\* The stream and the list grow.
Grows ==
  /\ UNCHANGED bindKind /\ stream' \in Seq(Opcodes)
  /\ Len(stream) <= Len(stream') /\ \A k \in 1..Len(stream) : stream[k] = stream'[k]
  /\ Len(list) <= Len(list') /\ \A k \in 1..Len(list) : list'[k] = list[k]
  /\ Len(list') \in Nat

\* Whether the iterator is astray depends on the opcodes before alone.
LEMMA AstrayStays ==
  ASSUME NEW kind, NEW s, NEW t, NEW k \in Int, \A j \in 1..(k - 1) : s[j] = t[j]
  PROVE  Astray(kind, s, k) <=> Astray(kind, t, k)
<1> DEFINE Stray(u, j) ==
             /\ LosesPlace(kind, u[j])
             /\ \A i \in (j + 1)..(k - 1) : u[i].op # "SetSegmentAndOffsetUleb"
<1>1. ASSUME NEW j \in 1..(k - 1) PROVE Stray(s, j) <=> Stray(t, j)
  <2>1. s[j] = t[j] /\ \A i \in (j + 1)..(k - 1) : i \in 1..(k - 1)
    OBVIOUS
  <2> QED
    BY <2>1
<1>2. \A u : Astray(kind, u, k) <=> \E j \in 1..(k - 1) : Stray(u, j)
  BY DEF Astray
<1> HIDE DEF Stray
<1> QED
  BY <1>1, <1>2

\* An opcode that sets no segment is not a way back.
LEMMA AstrayGoesOn ==
  ASSUME NEW kind, NEW s, NEW k \in Nat, k >= 1, ~Astray(kind, s, k + 1),
         s[k].op # "SetSegmentAndOffsetUleb"
  PROVE  ~Astray(kind, s, k) /\ ~LosesPlace(kind, s[k])
<1>1. (k + 1) - 1 = k /\ k \in 1..k
  OBVIOUS
<1>2. ASSUME NEW j \in 1..(k - 1), LosesPlace(kind, s[j]),
             \A i \in (j + 1)..(k - 1) : s[i].op # "SetSegmentAndOffsetUleb"
      PROVE  FALSE
  <2>1. j \in 1..k /\ \A i \in (j + 1)..k : i = k \/ i \in (j + 1)..(k - 1)
    OBVIOUS
  <2> QED
    BY <1>1, <1>2, <2>1 DEF Astray
<1>3. ~LosesPlace(kind, s[k])
  <2>1. (k + 1)..k = {}
    OBVIOUS
  <2> QED
    BY <1>1, <2>1 DEF Astray
<1> QED
  BY <1>2, <1>3 DEF Astray

\* The opcodes that depend on where the iterator is.
PlaceOps == {"AddAddrUleb", "DoBind", "DoBindAddAddrUleb", "DoBindAddAddrImmScaled",
             "DoBindUlebTimesSkippingUleb"}

\* A stream that will be regular has been so.
LEMMA RegularBefore ==
  ASSUME TypeInv, ListInv, Grows, Regular', info.error = "None"
  PROVE  Regular
<1>1. /\ stream \in Seq(Opcodes) /\ stream' \in Seq(Opcodes) /\ Len(stream) \in Nat
      /\ Len(stream') \in Nat /\ list \in Seq(EntryType) /\ Len(list) \in Nat
      /\ Len(list') \in Nat /\ bindKind' = bindKind
  BY DEF TypeInv, ListInv, Grows
<1>2. Len(stream) <= Len(stream') /\ \A k \in 1..Len(stream) : stream[k] = stream'[k]
  BY DEF Grows
<1>3. \A k \in 0..Len(stream) :
        CursorAt(stream', k) = CursorAt(stream, k)
  BY <1>1, <1>2, CursorStays
<1>4. \A k \in 1..Len(stream) : k \in 1..Len(stream') /\ k \in 0..Len(stream) /\ k - 1 \in 0..Len(stream)
  BY <1>1, <1>2
<1>5. /\ WithinSegment(stream') /\ NoReadErrors(bindKind, stream')
      /\ KeepsPlace(bindKind, stream')
      /\ \A k \in 1..Len(stream') : stream'[k].op # "Threaded"
  BY <1>1 DEF Regular
<1>6. WithinSegment(stream) /\ \A k \in 1..Len(stream) : stream[k].op # "Threaded"
  <2> SUFFICES ASSUME NEW k \in 1..Len(stream)
               PROVE  /\ CursorAt(stream, k) \in 0..SMax
                      /\ stream[k].op = "DoBindAddAddrUleb" => CursorAt(stream, k) >= PtrSize
                      /\ stream[k].op = "DoBindUlebTimesSkippingUleb" =>
                            stream[k].n > 0 /\ stream[k].m >= 0
                      /\ stream[k].op # "Threaded"
    BY DEF WithinSegment
  <2>1. stream'[k] = stream[k] /\ k \in 1..Len(stream')
        /\ CursorAt(stream', k) = CursorAt(stream, k)
    BY <1>2, <1>3, <1>4
  <2> QED
    BY <1>5, <2>1 DEF WithinSegment
<1>a. KeepsPlace(bindKind, stream)
  <2> SUFFICES ASSUME NEW k \in 1..Len(stream), stream[k].op \in PlaceOps
               PROVE  ~Astray(bindKind, stream, k)
    BY DEF KeepsPlace, PlaceOps
  <2>1. k \in Int /\ \A j \in 1..(k - 1) : j \in 1..Len(stream)
    BY <1>1
  <2>2. Astray(bindKind, stream, k) <=> Astray(bindKind, stream', k)
    BY <1>2, <2>1, AstrayStays
  <2>3. k \in 1..Len(stream') /\ stream'[k].op \in PlaceOps
    BY <1>2, <1>4
  <2> QED
    BY <1>5, <2>2, <2>3 DEF KeepsPlace, PlaceOps
<1>7. NoReadErrors(bindKind, stream)
  BY <1>2, <1>4, <1>5 DEF NoReadErrors
<1>8. \A k \in 1..Len(list) : list[k].error = "None"
  <2>1. \A k \in 1..Len(list) : k \in 1..Len(list') /\ list'[k] = list[k]
    BY <1>1 DEF Grows
  <2>2. \A k \in 1..Len(list') : list'[k].error = "None"
    BY DEF Regular, NoErrorYet
  <2> QED
    BY <2>1, <2>2
<1> QED
  BY <1>6, <1>7, <1>8, <1>a DEF Regular, NoErrorYet

\* Products of natural numbers grow with their factors.
LEMMA ProductGrows == \A a, b, s \in Nat : a <= b => a * s <= b * s /\ a * s \in Nat
<1> SUFFICES ASSUME NEW a \in Nat, NEW b \in Nat, NEW s \in Nat, a <= b
             PROVE  a * s <= b * s /\ a * s \in Nat
  OBVIOUS
<1>1. PICK d \in Nat : b = a + d
  <2>1. b - a \in Nat /\ b = a + (b - a)
    OBVIOUS
  <2> QED
    BY <2>1
<1>2. b * s = a * s + d * s /\ d * s \in Nat /\ a * s \in Nat
  BY <1>1
<1> QED
  BY <1>2

\* The cursor stays in the segment, and moves with each opcode.
LEMMA CursorInSegment ==
  ASSUME TypeInv, ListInv, WithinSegment(stream), NEW k \in 0..Len(stream)
  PROVE  At(k) \in 0..SMax
<1>1. stream \in Seq(Opcodes) /\ Len(stream) \in Nat /\ 0 \in 0..SMax
      /\ \A j \in 1..Len(stream) : stream[j] \in Opcodes
  BY Widths DEF TypeInv
<1>2. CASE k = 0
  BY <1>1, <1>2, CursorMoves DEF At
<1>3. CASE k # 0
  <2>1. k \in 1..Len(stream)
    BY <1>1, <1>3
  <2> QED
    BY <2>1 DEF WithinSegment, At
<1> QED
  BY <1>2, <1>3

\* What is known of the current opcode of a stream that stays in the segment.
LEMMA ByteMoves ==
  ASSUME TypeInv, ListInv, WithinSegment(stream), stream # <<>>
  PROVE  /\ Len(stream) \in Nat \ {0} /\ Byte \in Opcodes /\ Byte = stream[Len(stream)]
         /\ Len(stream) - 1 \in 0..Len(stream)
         /\ At(Len(stream) - 1) \in 0..SMax /\ At(Len(stream)) \in 0..SMax
         /\ At(Len(stream)) = Moved(At(Len(stream) - 1), Byte)
         /\ Byte.op = "DoBindAddAddrUleb" => At(Len(stream)) >= PtrSize
<1>1. /\ Len(stream) \in 1..Len(stream) /\ Len(stream) - 1 \in 0..Len(stream)
      /\ Len(stream) \in 0..Len(stream) /\ Len(stream) \in Nat
      /\ \A j \in 1..Len(stream) : stream[j] \in Opcodes
  BY DEF TypeInv
<1>2. At(Len(stream) - 1) \in 0..SMax /\ At(Len(stream)) \in 0..SMax
  BY <1>1, CursorInSegment
<1>3. At(Len(stream)) = Moved(At(Len(stream) - 1), stream[Len(stream)])
  BY <1>1, CursorMoves DEF At
<1>4. stream[Len(stream)].op = "DoBindAddAddrUleb" => At(Len(stream)) >= PtrSize
  BY <1>1 DEF WithinSegment, At
<1> QED
  BY <1>1, <1>2, <1>3, <1>4 DEF Byte

\* What a run of n steps of s passes from the cursor c on.
RunFacts(c, n, s) ==
  /\ c \in 0..SMax /\ n \in Nat /\ s \in Nat \ {0}
  /\ c = At(Len(stream) - 1) /\ n = Byte.n /\ s = StepSize(Byte)
  /\ n > 0 /\ n \in 0..UMax /\ Byte.m \in 0..SMax
  /\ At(Len(stream)) = c + n * s
  /\ n * s \in 0..SMax /\ s \in 0..SMax /\ c + n * s \in 0..SMax
  /\ \A r \in 0..n : r * s \in Nat /\ c + r * s \in 0..SMax /\ (r + 1) * s = r * s + s

\* A run that stays in the segment has its addresses in it.
LEMMA RunBounds ==
  ASSUME TypeInv, ListInv, WithinSegment(stream), stream # <<>>,
         Byte.op = "DoBindUlebTimesSkippingUleb"
  PROVE  \E c, n, s : RunFacts(c, n, s)
<1>1. PICK k \in Nat \ {0} : k = Len(stream) /\ k \in 1..Len(stream)
  BY DEF TypeInv
<1>2. Byte = stream[k] /\ Byte \in Opcodes
  BY <1>1, ByteMoves
<1>3. PICK c \in 0..SMax : c = At(k - 1)
  BY <1>1, ByteMoves
<1>4. Byte.n > 0 /\ Byte.m >= 0 /\ At(k) \in 0..SMax
  BY <1>1, <1>2, <1>3 DEF WithinSegment, At
<1>5. PICK n \in Nat : n = Byte.n /\ n > 0 /\ n \in 0..UMax
  BY <1>2, <1>4, RunRanges, Widths
<1>6. Byte.m \in 0..SMax
  BY <1>2, <1>4, RunRanges, Widths DEF Signed
<1>7. PICK s \in Nat \ {0} : s = StepSize(Byte)
  BY <1>6, Widths DEF StepSize
<1>8. Moved(c, Byte) = c + n * s
  BY <1>5, <1>7 DEF Moved
<1>9. At(k) = c + n * s
  BY <1>1, <1>3, <1>8, ByteMoves
<1>10. n * s \in Nat /\ SMax \in Nat /\ c \in Nat
  BY <1>7, ProductGrows, Widths
<1>11. n * s \in 0..SMax /\ c + n * s \in 0..SMax
  BY <1>4, <1>9, <1>10
<1>12. s \in 0..SMax
  <2>1. 1 * s <= n * s /\ 1 * s = s
    BY <1>5, <1>7, ProductGrows
  <2> QED
    BY <1>10, <1>11, <2>1
<1>13. ASSUME NEW r \in 0..n
       PROVE  r * s \in Nat /\ c + r * s \in 0..SMax /\ (r + 1) * s = r * s + s
  <2>1. r \in Nat /\ r <= n
    BY <1>5
  <2>2. r * s <= n * s /\ r * s \in Nat
    BY <1>5, <1>7, <2>1, ProductGrows
  <2>3. (r + 1) * s = r * s + s
    BY <1>7, <2>1
  <2>4. c + r * s \in Nat /\ c + r * s <= c + n * s
    BY <1>10, <2>2
  <2> QED
    BY <1>10, <1>11, <2>2, <2>3, <2>4
<1> QED
  BY <1>1, <1>3, <1>5, <1>6, <1>7, <1>9, <1>11, <1>12, <1>13, ZenonT(60) DEF RunFacts

\* An opcode that is taken for the end binds nothing.
LEMMA AtOpcodeEnds ==
  ASSUME NEW kind, NEW s \in Seq(Opcodes), NEW reached \in BOOLEAN, NEW o \in Opcodes, NEW r,
         AtOpcode(kind, s, reached, o, r), bindKind' = kind,
         kind # "Lazy" => reached = FALSE /\ \A k \in 1..Len(s) : s[k].op # "Done"
  PROVE  (atEnd' => o.op \notin RunOps) /\ DoneInv'
<1>1. /\ stream' = Append(s, o) /\ reachedEnd' = (reached \/ o.op = "Done")
      /\ IF kind = "Lazy"
         THEN /\ atEnd' \in BOOLEAN
              /\ atEnd' => reachedEnd' /\ HasOperand(kind, o)
         ELSE atEnd' = reachedEnd'
  BY DEF AtOpcode
<1>2. CASE kind = "Lazy"
  <2>1. atEnd' => HasOperand(kind, o)
    BY <1>1, <1>2
  <2>2. HasOperand(kind, o) => o.op \notin RunOps
    BY <1>2 DEF HasOperand, Illegal, UlebOpcodes, RunOps
  <2> QED
    BY <1>2, <2>1, <2>2 DEF DoneInv
<1>3. CASE kind # "Lazy"
  <2>1. atEnd' = (o.op = "Done") /\ reachedEnd' = (o.op = "Done")
    BY <1>1, <1>3
  <2>2. atEnd' => o.op \notin RunOps
    BY <2>1 DEF RunOps
  <2>3. Len(s) \in Nat /\ Len(stream') = Len(s) + 1
        /\ \A k \in 1..Len(stream') : stream'[k] = IF k = Len(s) + 1 THEN o ELSE s[k]
    BY <1>1
  <2>4. ASSUME ~atEnd', NEW k \in 1..Len(stream') PROVE stream'[k].op # "Done"
    <3>1. k \in 1..Len(s) \/ k = Len(s) + 1
      BY <2>3
    <3> QED
      BY <1>3, <2>1, <2>3, <2>4, <3>1
  <2>5. DoneInv'
    BY <2>1, <2>4 DEF DoneInv
  <2> QED
    BY <2>2, <2>5
<1> QED
  BY <1>2, <1>3

\* Going to the next opcode: the last byte is passed, or an opcode is read.
ReadsOne(i, o) ==
  /\ stream' = Append(stream, o) /\ info' = ReadOpcode(bindKind, i, o)
  /\ atEnd' \in BOOLEAN /\ (atEnd' => o.op \notin RunOps)

\* Going for an opcode ends the list, or takes one.
LEMMA NextOpcodeGoes ==
  ASSUME TypeInv, ListInv, DoneInv, ~atEnd, NEW i, NextOpcode(i), UNCHANGED bindKind
  PROVE  /\ DoneInv'
         /\ \/ stream' = stream /\ atEnd' = TRUE /\ info' = [i EXCEPT !.error = "None"]
            \/ \E o \in Opcodes : ReadsOne(i, o)
<1>1. stream \in Seq(Opcodes) /\ reachedEnd \in BOOLEAN
  BY DEF TypeInv
<1>2. CASE AtLastByte(bindKind, stream, [i EXCEPT !.error = "None"])
  BY <1>2 DEF AtLastByte, DoneInv
<1>3. ASSUME NEW o \in Opcodes,
             AtOpcode(bindKind, stream, reachedEnd, o, ReadOpcode(bindKind, i, o))
      PROVE  DoneInv' /\ ReadsOne(i, o)
  <2>1. bindKind # "Lazy" => reachedEnd = FALSE /\ \A k \in 1..Len(stream) : stream[k].op # "Done"
    BY DEF DoneInv
  <2>2. (atEnd' => o.op \notin RunOps) /\ DoneInv'
    BY <1>1, <1>3, <2>1, AtOpcodeEnds
  <2>3. stream' = Append(stream, o) /\ info' = ReadOpcode(bindKind, i, o)
    BY <1>3 DEF AtOpcode
  <2>4. atEnd' \in BOOLEAN
    BY <1>1, <1>3 DEF AtOpcode
  <2> QED
    BY <2>2, <2>3, <2>4 DEF ReadsOne
<1> QED
  BY <1>2, <1>3 DEF NextOpcode

\* A longer stream has the same cursor and the same locations up to there.
LEMMA ReadKeepsListed ==
  ASSUME TypeInv, ListInv, NEW o \in Opcodes, stream' = Append(stream, o), UNCHANGED <<bindKind, list>>,
         HasListed(Len(stream), 0)
  PROVE  /\ stream' \in Seq(Opcodes) /\ Len(stream') = Len(stream) + 1 /\ Byte' = o
         /\ Len(stream') - 1 = Len(stream) /\ Len(stream') \in 1..Len(stream')
         /\ stream'[Len(stream')] = o
         /\ CursorAt(stream', Len(stream)) = At(Len(stream))
         /\ LocationsOf(stream', Len(stream)) = LocationsOf(stream, Len(stream))
         /\ HasListed(Len(stream) - 1, 0)'
<1>1. PICK k \in Nat : k = Len(stream) /\ k \in 0..Len(stream)
  BY DEF TypeInv
<1>2. stream \in Seq(Opcodes)
  BY DEF TypeInv
<1>3. /\ stream' \in Seq(Opcodes) /\ Len(stream') = k + 1 /\ Byte' = o
      /\ \A j \in 1..k : stream[j] = stream'[j]
      /\ stream'[k + 1] = o
  BY <1>1, <1>2 DEF Byte
<1>9. /\ Len(stream) <= Len(stream') /\ \A j \in 1..Len(stream) : stream[j] = stream'[j]
      /\ Len(stream) \in 0..Len(stream)
  BY <1>1, <1>3
<1>4. CursorAt(stream', Len(stream)) = CursorAt(stream, Len(stream))
  BY <1>2, <1>3, <1>9, CursorStays
<1>5. LocationsOf(stream', Len(stream)) = LocationsOf(stream, Len(stream))
  BY <1>2, <1>3, <1>9, LocationsStay
<1>6. 1..0 = {}
  OBVIOUS
<1>8. Len(stream') - 1 = Len(stream) /\ Len(stream') \in 1..Len(stream')
  BY <1>1, <1>3
<1>7. HasListed(Len(stream) - 1, 0)'
  BY <1>5, <1>6, <1>8 DEF HasListed
<1> QED
  BY <1>1, <1>3, <1>4, <1>5, <1>7, <1>8 DEF At

\* An opcode that was taken for the end adds nothing to what was listed.
LEMMA NothingToList ==
  ASSUME TypeInv, ListInv, NEW o \in Opcodes, stream' = Append(stream, o), UNCHANGED <<bindKind, list>>,
         HasListed(Len(stream), 0), o.op \notin RunOps
  PROVE  HasListed(Len(stream), 0)'
<1>1. PICK k \in Nat : k = Len(stream) /\ k \in 0..Len(stream)
  BY DEF TypeInv
<1>2. /\ stream' \in Seq(Opcodes) /\ Len(stream') = k + 1 /\ stream'[k + 1] = o
      /\ LocationsOf(stream', k) = LocationsOf(stream, k)
      /\ CursorAt(stream', k) = At(k)
  BY <1>1, ReadKeepsListed
<1>3. PICK n \in Nat : n = k + 1 /\ n - 1 = k /\ n \in 1..n /\ k \in 0..n /\ n = Len(stream')
  BY <1>1, <1>2
<1>4. (\A j \in 1..n : stream'[j] \in Opcodes) /\ Len(stream') \in Nat /\ n <= Len(stream')
  BY <1>2, <1>3
<1>5. LocationsOf(stream', n)
        = LocationsOf(stream', k) \o Listed(CursorAt(stream', k), o)
  <2>1. LocationsOf(stream', n)
          = LocationsOf(stream', n - 1)
              \o Listed(CursorAt(stream', n - 1), stream'[n])
    BY <1>3, <1>4, LocationsGrow, ZenonT(60)
  <2> QED
    BY <1>2, <1>3, <2>1
<1>6. CursorAt(stream', k) \in Int /\ LocationsOf(stream', k) \in Seq(Int)
  BY <1>3, <1>4, CursorMoves, LocationsGrow
<1>7. Listed(CursorAt(stream', k), o) = <<>>
  BY <1>6, ListedFacts
<1>8. LocationsOf(stream', n) = LocationsOf(stream', k)
  BY <1>5, <1>6, <1>7
<1>9. 1..0 = {}
  OBVIOUS
<1>10. LocationsOf(stream', Len(stream')) = LocationsOf(stream, Len(stream))
  BY <1>1, <1>2, <1>3, <1>8
<1> QED
  BY <1>9, <1>10 DEF HasListed

\* A byte taken, or the end, leaves the iterator where the opcodes lead.
LEMMA NextFollows ==
  ASSUME TypeInv, ListInv, DoneInv, ~atEnd, NEW i \in InfoType, NextOpcode(i),
         UNCHANGED <<bindKind, pc, list>>, pc = "advance", last' = NoneLeft, segAdd' = 0,
         ~Astray(bindKind, stream, Len(stream) + 1) => i.addrInSeg = At(Len(stream)),
         HasListed(Len(stream), 0), Regular'
  PROVE  Follows'
<1>1. pc' = "advance" /\ last' \notin RunOps /\ "DoBindUlebTimesSkippingUleb" \in RunOps
      /\ BindsOne \subseteq RunOps
  BY DEF NoneLeft, RunOps, BindsOne
<1>2. \/ stream' = stream /\ atEnd' = TRUE /\ info' = [i EXCEPT !.error = "None"]
      \/ \E o \in Opcodes : ReadsOne(i, o)
  BY NextOpcodeGoes
<1>3. CASE stream' = stream /\ atEnd' = TRUE
  <2>1. HasListed(Len(stream), 0)'
    BY <1>3, KeepsListed
  <2>2. Between'
    BY <1>3, <2>1 DEF Between
  <2> QED
    BY <1>1, <1>3, <2>2 DEF Follows
<1>4. ASSUME NEW o \in Opcodes, ReadsOne(i, o) PROVE Follows'
  <2>1. /\ stream' = Append(stream, o) /\ info' = ReadOpcode(bindKind, i, o)
        /\ atEnd' \in BOOLEAN /\ (atEnd' => o.op \notin RunOps)
    BY <1>4 DEF ReadsOne
  <2>2. /\ Byte' = o /\ Len(stream') - 1 = Len(stream)
        /\ HasListed(Len(stream) - 1, 0)'
        /\ Len(stream') \in 1..Len(stream') /\ stream'[Len(stream')] = o
    BY <2>1, ReadKeepsListed
  <2>3. ~Astray(bindKind', stream', Len(stream')) => (info.addrInSeg = At(Len(stream) - 1))'
    <3>1. info'.addrInSeg = i.addrInSeg
      BY <2>1, ReadsOperands
    <3>2. CursorAt(stream', Len(stream)) = At(Len(stream))
      BY <2>1, ReadKeepsListed
    <3>3. At(Len(stream) - 1)' = CursorAt(stream', Len(stream))
      BY <2>2 DEF At
    <3>4. Astray(bindKind', stream', Len(stream')) <=> Astray(bindKind, stream, Len(stream) + 1)
      <4>1. /\ Len(stream) \in Nat /\ stream \in Seq(Opcodes) /\ Len(stream') = Len(stream) + 1
            /\ \A j \in 1..Len(stream) : stream'[j] = stream[j]
        BY <2>1 DEF TypeInv
      <4>2. Len(stream) + 1 \in Int
            /\ \A j \in 1..((Len(stream) + 1) - 1) : stream'[j] = stream[j]
        BY <4>1
      <4> QED
        BY <4>1, <4>2, AstrayStays
    <3> QED
      BY <3>1, <3>2, <3>3, <3>4
  <2>4. atEnd' => HasListed(Len(stream), 0)'
    BY <2>1, NothingToList
  <2>5. Between'
    BY <2>2, <2>3, <2>4 DEF Between
  <2>6. Operands(info', o)
    <3>1. ReadError(bindKind', o) = "None"
      BY <2>2 DEF Regular, NoReadErrors
    <3> QED
      BY <2>1, <3>1, ReadsOperands
  <2> QED
    BY <1>1, <2>2, <2>5, <2>6 DEF Follows
<1> QED
  BY <1>2, <1>3, <1>4

\* A stream is not regular once an error is found.
LEMMA ErrorIsIrregular ==
  ASSUME NEW e, e # "None", info \in InfoType, Yield(e)
  PROVE  ~Regular'
BY DEF InfoType, Regular, NoErrorYet, Yield

\* The current opcode, and where it begins.
LEMMA CurrentByte ==
  ASSUME TypeInv, ListInv, stream # <<>>
  PROVE  Byte \in Opcodes /\ Byte = stream[Len(stream)] /\ At(Len(stream) - 1) \in Int
<1>1. /\ Len(stream) \in 1..Len(stream) /\ Len(stream) - 1 \in 0..Len(stream)
      /\ Len(stream) \in Nat /\ \A j \in 1..Len(stream) : stream[j] \in Opcodes
  BY DEF TypeInv
<1> QED
  BY <1>1, CursorMoves DEF At, Byte

\* A run whose count is used up has listed its locations.
LEMMA RunDone ==
  ASSUME TypeInv, ListInv, stream # <<>>, Byte.op = "DoBindUlebTimesSkippingUleb", NEW c, NEW n, NEW s,
         RunFacts(c, n, s), NEW r, r = IF n = 1 THEN 1 ELSE n - 1, HasListed(Len(stream) - 1, r)
  PROVE  HasListed(Len(stream), 0)
<1>1. /\ c \in 0..SMax /\ n \in Nat /\ n > 0 /\ c = At(Len(stream) - 1) /\ n = Byte.n
      /\ c \in Int
  BY DEF RunFacts
<1>2. Byte \in Opcodes /\ Byte = stream[Len(stream)]
  BY CurrentByte
<1>3. Len(Listed(c, Byte)) = r
  <2>1. CASE n = 1
    <3>1. Listed(c, Byte) = <<c>>
      BY <1>1, <1>2, <2>1, ListedFacts
    <3> QED
      BY <2>1, <3>1
  <2>2. CASE n # 1
    <3>1. n > 1
      BY <1>1, <2>2
    <3>2. Len(Listed(c, Byte)) = Byte.n - 1
      BY <1>1, <1>2, <3>1, ListedFacts
    <3> QED
      BY <1>1, <2>2, <3>2
  <2> QED
    BY <2>1, <2>2
<1> QED
  BY <1>1, <1>2, <1>3, OpcodeDone

\* One more bind of a run.
LEMMA RepeatBindFollows ==
  ASSUME TypeInv, CurrentInv, ListInv, DoneInv, Regular, Follows, RepeatBind, ListsStay, Regular'
  PROVE  Follows'
<1>1. /\ pc = "advance" /\ last = "DoBindUlebTimesSkippingUleb" /\ count # 0
      /\ count' = count - 1 /\ ~atEnd /\ stream # <<>> /\ Byte.op = last
      /\ UNCHANGED <<bindKind, segAdd, addAmt, list>>
  BY DEF RepeatBind, CurrentInv, RunOps, ListsStay
<1>2. PICK r \in Nat : InRun(r)
  BY <1>1 DEF Follows
<1>3. /\ segAdd = 0 /\ addAmt = StepSize(Byte)
      /\ r \in 0..(Byte.n - 1) /\ (Byte.n > 1 => r < Byte.n - 1) /\ count = Byte.n - 1 - r
      /\ info.addrInSeg = At(Len(stream) - 1) + r * StepSize(Byte)
      /\ HasListed(Len(stream) - 1, r + 1)
  BY <1>1, <1>2 DEF InRun
<1>4. PICK c, n, s : RunFacts(c, n, s)
  BY <1>1, RunBounds DEF Regular
<1>5. /\ c \in 0..SMax /\ n \in Nat /\ s \in Nat \ {0} /\ c \in Int
      /\ c = At(Len(stream) - 1) /\ n = Byte.n /\ s = StepSize(Byte)
      /\ n \in 0..UMax
  BY <1>4 DEF RunFacts
<1>6. n > 1 /\ r < n - 1 /\ r + 1 \in Nat /\ r \in 0..n /\ r + 1 \in 0..n /\ (r + 1) + 1 = r + 2
      /\ count' = n - 1 - (r + 1) /\ r + 2 \in 0..n
  <2>1. r \in 0..(n - 1) /\ (n > 1 => r < n - 1) /\ count = n - 1 - r
    BY <1>3, <1>5
  <2>2. count # 0 /\ count' = count - 1
    BY <1>1
  <2>3. r \in Nat /\ r <= n - 1 /\ n - 1 - r # 0
    BY <1>5, <2>1, <2>2
  <2>4. n > 1 /\ r < n - 1
    BY <1>5, <2>1, <2>3
  <2>5. r \in Nat /\ n \in Nat
    BY <1>5
  <2>6. count' = n - 1 - (r + 1)
    BY <2>1, <2>2, <2>5
  <2>7. r + 1 \in Nat /\ r \in 0..n /\ r + 1 \in 0..n /\ (r + 1) + 1 = r + 2 /\ r + 2 \in 0..n
    BY <2>4, <2>5
  <2> QED
    BY <2>4, <2>6, <2>7
<1>7. /\ \A q \in 0..n : q * s \in Nat /\ c + q * s \in 0..SMax /\ (q + 1) * s = q * s + s
      /\ At(Len(stream)) = c + n * s
  BY <1>4 DEF RunFacts
<1>8. info \in InfoType /\ Byte \in Opcodes /\ info.error = "None"
  BY <1>1, CurrentOpcode DEF TypeInv, Regular, NoErrorYet
<1>9. /\ info.addrInSeg + s = c + (r + 1) * s /\ c + (r + 1) * s \in 0..SMax
      /\ (c + (r + 1) * s) + s = c + (r + 2) * s /\ c + (r + 2) * s \in 0..SMax
  <2>1. r * s \in Nat /\ (r + 1) * s \in Nat /\ (r + 1) * s = r * s + s
        /\ c + (r + 1) * s \in 0..SMax
    BY <1>5, <1>6, <1>7
  <2>2. (r + 2) * s = (r + 1) * s + s /\ (r + 2) * s \in Nat /\ c + (r + 2) * s \in 0..SMax
    BY <1>5, <1>6, <1>7
  <2>3. info.addrInSeg = c + r * s
    BY <1>3, <1>5
  <2>4. \A x, y \in Int : y = x + s => (c + x) + s = c + y
    BY <1>5
  <2> QED
    BY <2>1, <2>2, <2>3, <2>4
<1>10. 0..SMax \subseteq 0..UMax
  BY Widths
<1>11. ToUnsigned(info.addrInSeg + addAmt) = c + (r + 1) * s
       /\ ToUnsigned((c + (r + 1) * s) + addAmt) = c + (r + 2) * s
  BY <1>3, <1>5, <1>9, <1>10, UnsignedSame
<1> DEFINE once == [info EXCEPT !.addrInSeg = ToUnsigned(@ + addAmt)]
           twice == [once EXCEPT !.addrInSeg = ToUnsigned(@ + addAmt)]
<1>12. once = [info EXCEPT !.addrInSeg = c + (r + 1) * s]
  BY <1>11
<1>13. once \in InfoType /\ once.addrInSeg = c + (r + 1) * s
  <2>1. c + (r + 1) * s \in 0..UMax
    BY <1>9, <1>10
  <2> QED
    BY <1>8, <1>12, <2>1 DEF InfoType
<1>14. twice \in InfoType /\ twice.addrInSeg = c + (r + 2) * s
  <2>1. c + (r + 2) * s \in 0..UMax
    BY <1>9, <1>10
  <2>2. twice = [once EXCEPT !.addrInSeg = c + (r + 2) * s]
    BY <1>11, <1>13
  <2> HIDE DEF once
  <2> QED
    BY <1>13, <2>1, <2>2 DEF InfoType
<1>15. CASE count' # 0
  <2>1. info' = once /\ pc' = "yielded" /\ UNCHANGED <<stream, atEnd, last>>
    BY <1>15 DEF RepeatBind
  <2>2. info'.addrInSeg = c + (r + 1) * s /\ Operands(info', Byte)
    <3>1. info' = [info EXCEPT !.addrInSeg = c + (r + 1) * s]
      BY <1>12, <2>1
    <3>2. Operands(info, Byte)
      BY <1>1 DEF Follows
    <3> HIDE DEF once
    <3> QED
      BY <1>8, <3>1, <3>2 DEF InfoType, Operands
  <2>3. r + 1 \in 0..(n - 1) /\ r + 1 < n - 1
    BY <1>5, <1>6, <1>15, SMTT(30)
  <2>4. Byte' = Byte
    BY <2>1 DEF Byte
  <2>5. HasListed(Len(stream) - 1, r + 1)' /\ At(Len(stream) - 1)' = At(Len(stream) - 1)
    BY <1>1, <1>3, <2>1 DEF HasListed, At
  <2>6. InRun(r + 1)'
    BY <1>1, <1>3, <1>5, <1>6, <2>1, <2>2, <2>3, <2>4, <2>5 DEF InRun
  <2> HIDE DEF once, twice
  <2> QED
    BY <1>1, <1>6, <2>1, <2>2, <2>4, <2>6 DEF Follows, RunOps, BindsOne
<1>16. CASE count' = 0
  <2>1. last' = NoneLeft /\ NextOpcode(twice) /\ UNCHANGED pc
    BY <1>16 DEF RepeatBind
  <2>2. r + 2 = n /\ r + 1 = n - 1
    BY <1>5, <1>6, <1>16
  <2>3. HasListed(Len(stream), 0)
    BY <1>1, <1>3, <1>4, <1>6, <2>2, RunDone
  <2>4. twice.addrInSeg = At(Len(stream))
    BY <1>7, <1>14, <2>2
  <2> HIDE DEF twice
  <2> QED
    BY <1>1, <1>3, <1>14, <2>1, <2>3, <2>4, NextFollows
<1> QED
  BY <1>15, <1>16

\* A bind of one location that has listed it is done.
LEMMA BindDone ==
  ASSUME TypeInv, ListInv, stream # <<>>, Byte.op \in BindsOne, HasListed(Len(stream) - 1, 1)
  PROVE  HasListed(Len(stream), 0)
<1>1. Byte \in Opcodes /\ Byte = stream[Len(stream)] /\ At(Len(stream) - 1) \in Int
  BY CurrentByte
<1>2. Listed(At(Len(stream) - 1), Byte) = <<At(Len(stream) - 1)>>
  BY <1>1, ListedFacts
<1>3. Len(Listed(At(Len(stream) - 1), Byte)) = 1
  BY <1>2
<1> QED
  BY <1>1, <1>3, OpcodeDone

\* Without a run, nothing of one is done.
LEMMA NoneDone ==
  ASSUME TypeInv, ListInv, stream # <<>>, Byte.op \notin RunOps, HasListed(Len(stream) - 1, 0)
  PROVE  HasListed(Len(stream), 0)
<1>1. Byte \in Opcodes /\ Byte = stream[Len(stream)] /\ At(Len(stream) - 1) \in Int
  BY CurrentByte
<1>2. Listed(At(Len(stream) - 1), Byte) = <<>>
  BY <1>1, ListedFacts
<1>3. Len(Listed(At(Len(stream) - 1), Byte)) = 0
  BY <1>2
<1> QED
  BY <1>1, <1>3, OpcodeDone

\* The end of a run.
LEMMA FinalizeBindFollows ==
  ASSUME TypeInv, CurrentInv, ListInv, DoneInv, Regular, Follows, FinalizeBind, ListsStay, Regular'
  PROVE  Follows'
<1> DEFINE i == [info EXCEPT !.addrInSeg = ToUnsigned(@ + segAdd)]
<1>1. /\ pc = "advance" /\ last \in RunOps /\ ~atEnd /\ stream # <<>> /\ Byte.op = last
      /\ segAdd' = 0 /\ last' = NoneLeft /\ NextOpcode(i)
      /\ UNCHANGED <<bindKind, pc, list>>
      /\ last \in BindsOne \/ (last = "DoBindUlebTimesSkippingUleb" /\ count = 0)
  BY DEF FinalizeBind, CurrentInv, RunOps, BindsOne, ListsStay
<1>2. /\ info.addrInSeg + segAdd \in 0..UMax
      /\ ~Astray(bindKind, stream, Len(stream) + 1) => info.addrInSeg + segAdd = At(Len(stream))
      /\ HasListed(Len(stream), 0)
  <2>1. At(Len(stream)) \in 0..SMax /\ 0..SMax \subseteq 0..UMax
    BY <1>1, ByteMoves, Widths DEF Regular
  <2>2. CASE last \in BindsOne
    <3>1. InBind
      BY <1>1, <2>2 DEF Follows
    <3>2. info.addrInSeg + segAdd = At(Len(stream)) /\ HasListed(Len(stream) - 1, 1)
          /\ Byte.op \in BindsOne
      BY <1>1, <3>1 DEF InBind
    <3> QED
      BY <1>1, <2>1, <3>2, BindDone
  <2>3. CASE last = "DoBindUlebTimesSkippingUleb" /\ count = 0
    <3>1. PICK r \in Nat : InRun(r)
      BY <1>1, <2>3 DEF Follows
    <3>2. /\ segAdd = 0
          /\ r \in 0..(Byte.n - 1) /\ (Byte.n > 1 => r < Byte.n - 1) /\ count = Byte.n - 1 - r
          /\ info.addrInSeg = At(Len(stream) - 1) + r * StepSize(Byte)
          /\ HasListed(Len(stream) - 1, r + 1)
      BY <1>1, <3>1 DEF InRun
    <3>3. PICK c, n, s : RunFacts(c, n, s)
      BY <1>1, <2>3, RunBounds DEF Regular
    <3>4. /\ c \in 0..SMax /\ n \in Nat /\ n > 0 /\ s \in Nat \ {0} /\ c \in Int
          /\ c = At(Len(stream) - 1) /\ n = Byte.n /\ s = StepSize(Byte)
      BY <3>3 DEF RunFacts
    <3>5. n = 1 /\ r = 0
      <4>1. r \in 0..(n - 1) /\ (n > 1 => r < n - 1) /\ n - 1 - r = 0
        BY <2>3, <3>2, <3>4
      <4> QED
        BY <3>4, <4>1
    <3>6. 0 * s = 0 /\ r + 1 = 1
      BY <3>4, <3>5
    <3>7. info.addrInSeg + segAdd \in 0..UMax
      <4>1. info.addrInSeg \in 0..UMax
        BY DEF TypeInv, InfoType
      <4> QED
        BY <3>2, <4>1, Widths
    <3>8. HasListed(Len(stream), 0)
      BY <1>1, <2>3, <3>2, <3>3, <3>5, <3>6, RunDone
    <3>9. Astray(bindKind, stream, Len(stream) + 1)
      <4>1. Len(stream) \in Nat /\ Len(stream) >= 1 /\ Byte = stream[Len(stream)]
        BY <1>1, ByteMoves DEF Regular
      <4>2. LosesPlace(bindKind, stream[Len(stream)])
        BY <1>1, <2>3, <3>4, <3>5, <4>1 DEF LosesPlace
      <4>3. stream[Len(stream)].op # "SetSegmentAndOffsetUleb"
        BY <1>1, <2>3, <4>1
      <4> QED
        BY <4>1, <4>2, <4>3, AstrayGoesOn
    <3> QED
      BY <3>7, <3>8, <3>9
  <2> QED
    BY <1>1, <2>2, <2>3
<1>3. PICK a \in 0..UMax :
        /\ a = ToUnsigned(info.addrInSeg + segAdd)
        /\ ~Astray(bindKind, stream, Len(stream) + 1) => a = At(Len(stream))
  BY <1>2, UnsignedSame
<1>4. i \in InfoType /\ i.addrInSeg = a
  BY <1>3 DEF TypeInv, InfoType
<1>5. NextOpcode(i)
  BY <1>1
<1> HIDE DEF i
<1> QED
  BY <1>1, <1>2, <1>3, <1>4, <1>5, NextFollows

\* What is known when Advance() looks at an opcode.
LEMMA AtScan ==
  ASSUME TypeInv, CurrentInv, ListInv, Regular, Follows, NEW ops, Scanning(ops)
  PROVE  /\ pc = "advance" /\ last = NoneLeft /\ ~atEnd /\ stream # <<>> /\ info \in InfoType
         /\ info.error = "None" /\ Byte.op \in ops /\ Byte \in Opcodes
         /\ segAdd = 0 /\ Operands(info, Byte)
         /\ ~Astray(bindKind, stream, Len(stream)) => info.addrInSeg = At(Len(stream) - 1)
         /\ Byte.op \in PlaceOps => info.addrInSeg = At(Len(stream) - 1)
         /\ HasListed(Len(stream) - 1, 0)
         /\ At(Len(stream) - 1) \in 0..SMax /\ At(Len(stream)) \in 0..SMax
         /\ At(Len(stream)) = Moved(At(Len(stream) - 1), Byte)
         /\ Byte.op = "DoBindAddAddrUleb" => At(Len(stream)) >= PtrSize
<1>1. pc = "advance" /\ last = NoneLeft /\ ~atEnd /\ stream # <<>> /\ info.error = "None"
      /\ Byte.op \in ops
  BY ScanningFields
<1>2. Between /\ Operands(info, Byte)
  BY <1>1 DEF Follows
<1>3. /\ segAdd = 0 /\ HasListed(Len(stream) - 1, 0)
      /\ ~Astray(bindKind, stream, Len(stream)) => info.addrInSeg = At(Len(stream) - 1)
  BY <1>1, <1>2 DEF Between
<1>4. WithinSegment(stream) /\ info \in InfoType
  BY DEF Regular, TypeInv
<1>5. /\ Byte \in Opcodes /\ At(Len(stream) - 1) \in 0..SMax /\ At(Len(stream)) \in 0..SMax
      /\ At(Len(stream)) = Moved(At(Len(stream) - 1), Byte)
      /\ Byte.op = "DoBindAddAddrUleb" => At(Len(stream)) >= PtrSize
  BY <1>1, <1>4, ByteMoves
<1>6. Byte.op \in PlaceOps => ~Astray(bindKind, stream, Len(stream))
  <2>1. Len(stream) \in 1..Len(stream) /\ Byte = stream[Len(stream)]
    BY <1>1, <1>4 DEF TypeInv, Byte
  <2> QED
    BY <2>1 DEF Regular, KeepsPlace, PlaceOps
<1> QED
  BY <1>1, <1>2, <1>3, <1>4, <1>5, <1>6

\* An opcode that sets something.
LEMMA ScanSetupFollows ==
  ASSUME TypeInv, CurrentInv, ListInv, DoneInv, Regular, Follows, ScanSetup, ListsStay, Regular'
  PROVE  Follows'
<1> DEFINE ops == {"Done", "SetKindImm", "SetAddendSleb", "SetSymbolTrailingFlagsImm",
                   "SetSegmentAndOffsetUleb"} \cup DylibOpcodes
           i == [info EXCEPT
                   !.newSymbolName = @ \/ Byte.op = "SetSymbolTrailingFlagsImm",
                   !.addrInSeg = IF Byte.op = "SetSegmentAndOffsetUleb"
                                 THEN info.segOffset ELSE @]
<1>1. Scanning(ops) /\ NextOpcode(i) /\ UNCHANGED <<bindKind, pc, last, segAdd, list>>
  BY DEF ScanSetup, ListsStay
<1>2. Byte.op \in ops => Byte.op \notin RunOps \cup {"AddAddrUleb"}
  BY DEF RunOps, DylibOpcodes
<1> HIDE DEF ops
<1>3. /\ pc = "advance" /\ last = NoneLeft /\ ~atEnd /\ stream # <<>> /\ info \in InfoType
      /\ Byte.op \in ops /\ segAdd = 0 /\ Operands(info, Byte)
      /\ ~Astray(bindKind, stream, Len(stream)) => info.addrInSeg = At(Len(stream) - 1)
      /\ HasListed(Len(stream) - 1, 0)
      /\ At(Len(stream)) = Moved(At(Len(stream) - 1), Byte)
  BY <1>1, AtScan
<1>4. HasListed(Len(stream), 0)
  BY <1>2, <1>3, NoneDone
<1>5. i \in InfoType /\ i.addrInSeg = IF Byte.op = "SetSegmentAndOffsetUleb"
                                      THEN info.segOffset ELSE info.addrInSeg
  BY <1>3 DEF InfoType
<1>6. At(Len(stream)) = IF Byte.op = "SetSegmentAndOffsetUleb"
                        THEN Byte.n ELSE At(Len(stream) - 1)
  BY <1>2, <1>3 DEF Moved, RunOps
<1>7. ~Astray(bindKind, stream, Len(stream) + 1) => i.addrInSeg = At(Len(stream))
  <2>1. CASE Byte.op = "SetSegmentAndOffsetUleb"
    BY <1>3, <1>5, <1>6, <2>1 DEF Operands
  <2>2. CASE Byte.op # "SetSegmentAndOffsetUleb"
    <3>1. Len(stream) \in Nat /\ Len(stream) >= 1 /\ Byte = stream[Len(stream)]
      BY <1>3, ByteMoves DEF Regular
    <3>2. ~Astray(bindKind, stream, Len(stream) + 1) => ~Astray(bindKind, stream, Len(stream))
      BY <2>2, <3>1, AstrayGoesOn
    <3> QED
      BY <1>3, <1>5, <1>6, <2>2, <3>2
  <2> QED
    BY <2>1, <2>2
<1>8. NextOpcode(i)
  BY <1>1
<1> HIDE DEF i
<1> QED
  BY <1>1, <1>3, <1>4, <1>5, <1>7, <1>8, NextFollows

\* An opcode that only adds to the address.
LEMMA ScanAddAddrFollows ==
  ASSUME TypeInv, CurrentInv, ListInv, DoneInv, Regular, Follows, ScanAddAddr, ListsStay, Regular'
  PROVE  Follows'
<1> DEFINE sum == info.addrInSeg + info.addAddr
           i == [info EXCEPT !.addrInSeg = sum]
<1>1. /\ Scanning({"AddAddrUleb"}) /\ UNCHANGED <<bindKind, last, segAdd, list>>
      /\ (FitsUnsigned(sum) /\ NextOpcode(i) /\ UNCHANGED pc) \/ Yield("OutOfBoundsSegmentAddr")
  BY DEF ScanAddAddr, ListsStay
<1>2. /\ pc = "advance" /\ last = NoneLeft /\ ~atEnd /\ stream # <<>> /\ info \in InfoType
      /\ Byte.op = "AddAddrUleb" /\ segAdd = 0 /\ Operands(info, Byte)
      /\ info.addrInSeg = At(Len(stream) - 1) /\ HasListed(Len(stream) - 1, 0)
      /\ At(Len(stream)) = Moved(At(Len(stream) - 1), Byte)
  BY <1>1, AtScan DEF PlaceOps
<1>3. FitsUnsigned(sum) /\ NextOpcode(i) /\ UNCHANGED pc
  BY <1>1, <1>2, ErrorIsIrregular
<1>4. HasListed(Len(stream), 0)
  BY <1>2, NoneDone DEF RunOps
<1>5. sum = At(Len(stream)) /\ sum \in 0..UMax
  BY <1>2, <1>3 DEF Operands, Moved, FitsUnsigned
<1> HIDE DEF sum
<1>6. i \in InfoType /\ i.addrInSeg = At(Len(stream))
  BY <1>2, <1>5 DEF InfoType
<1> HIDE DEF i
<1> QED
  BY <1>1, <1>2, <1>3, <1>4, <1>6, NextFollows

\* Yielding no error leaves the rest of the info as it is.
LEMMA YieldsNone ==
  ASSUME info \in InfoType, info.error = "None", Yield("None")
  PROVE  info' = info /\ pc' = "yielded"
BY DEF InfoType, Yield

\* A bind of one location has been looked at: the cursor is still to be moved.
LEMMA BindYields ==
  ASSUME pc = "advance", ~atEnd, info \in InfoType, info.error = "None", Operands(info, Byte),
         info.addrInSeg = At(Len(stream) - 1), HasListed(Len(stream) - 1, 0),
         Byte.op \in BindsOne, Yield("None"), last' = Byte.op,
         info.addrInSeg + segAdd' = At(Len(stream)),
         UNCHANGED <<bindKind, stream, atEnd, list>>
  PROVE  Follows'
<1>1. info' = info /\ pc' = "yielded"
  BY YieldsNone
<1>2. Byte' = Byte
  BY DEF Byte
<1>3. HasListed(Len(stream) - 1, 0)' /\ At(Len(stream) - 1)' = At(Len(stream) - 1)
      /\ At(Len(stream))' = At(Len(stream))
  BY DEF HasListed, At
<1>4. InBind'
  BY <1>1, <1>2, <1>3 DEF InBind
<1> QED
  BY <1>1, <1>2, <1>4 DEF Follows, BindsOne, RunOps, NoneLeft

\* A bind.
LEMMA ScanBindFollows ==
  ASSUME TypeInv, CurrentInv, ListInv, Regular, Follows, ScanBind, ListsStay, Regular'
  PROVE  Follows'
<1>1. Scanning({"DoBind"}) /\ UNCHANGED <<bindKind, stream, atEnd, list>>
  BY DEF ScanBind, ListsStay
<1>2. /\ pc = "advance" /\ last = NoneLeft /\ ~atEnd /\ stream # <<>> /\ info \in InfoType
      /\ info.error = "None" /\ Byte.op = "DoBind" /\ segAdd = 0 /\ Operands(info, Byte)
      /\ info.addrInSeg = At(Len(stream) - 1) /\ HasListed(Len(stream) - 1, 0)
      /\ At(Len(stream)) = Moved(At(Len(stream) - 1), Byte)
  BY <1>1, AtScan DEF PlaceOps
<1> DEFINE fails == AddChangeFails(segAdd, PtrSize)
           full == ~fails /\ info.threadedCount # 0 /\ ThreadedTableIsFull
           error == IF fails THEN "OutOfBoundsSegmentAddr"
                    ELSE IF full THEN "TooManyThreadedBinds" ELSE "None"
<1>3. CheckIfCanBind = "None"
  <2>1. CheckIfCanBind # "None" => Yield(CheckIfCanBind)
    BY DEF ScanBind
  <2> QED
    BY <1>2, <2>1, ErrorIsIrregular
<1>4. /\ segAdd' = AddChange(segAdd, PtrSize) /\ Yield(error)
      /\ last' = IF fails \/ full THEN last ELSE Byte.op
  BY <1>3 DEF ScanBind
<1>5. error = "None"
  <2> HIDE DEF error
  <2> QED
    BY <1>2, <1>4, ErrorIsIrregular
<1>6. ~fails /\ ~full
  BY <1>5
<1>7. last' = Byte.op /\ Yield("None")
  BY <1>4, <1>5, <1>6
<1>9. At(Len(stream)) = info.addrInSeg + PtrSize
  BY <1>2 DEF Moved
<1>10. segAdd' = PtrSize
  BY <1>2, <1>4, <1>6, Widths DEF AddChangeFails, AddChange
<1> QED
  BY <1>1, <1>2, <1>7, <1>9, <1>10, BindYields DEF BindsOne

\* A bind that adds to the address.
LEMMA ScanBindAddAddrFollows ==
  ASSUME TypeInv, CurrentInv, ListInv, Regular, Follows, ScanBindAddAddr, ListsStay, Regular'
  PROVE  Follows'
<1> DEFINE add == IF Byte.op = "DoBindAddAddrUleb" THEN info.addAddr
                  ELSE PtrSize * info.skip + PtrSize
           afterAdd == AddChange(segAdd, add)
           again == Byte.op = "DoBindAddAddrUleb" /\ AddChangeFails(afterAdd, PtrSize)
<1>1. /\ Scanning({"DoBindAddAddrUleb", "DoBindAddAddrImmScaled"})
      /\ UNCHANGED <<bindKind, stream, atEnd, list>>
  BY DEF ScanBindAddAddr, ListsStay
<1>2. /\ pc = "advance" /\ last = NoneLeft /\ ~atEnd /\ stream # <<>> /\ info \in InfoType
      /\ info.error = "None" /\ Byte.op \in {"DoBindAddAddrUleb", "DoBindAddAddrImmScaled"}
      /\ Byte \in Opcodes /\ segAdd = 0 /\ Operands(info, Byte)
      /\ info.addrInSeg = At(Len(stream) - 1) /\ HasListed(Len(stream) - 1, 0)
      /\ At(Len(stream) - 1) \in 0..SMax /\ At(Len(stream)) \in 0..SMax
      /\ At(Len(stream)) = Moved(At(Len(stream) - 1), Byte)
  BY <1>1, AtScan DEF PlaceOps
<1>3. ~AddChangeFails(segAdd, add)
  <2>1. AddChangeFails(segAdd, add) => Yield("OutOfBoundsSegmentAddr")
    BY DEF ScanBindAddAddr
  <2> QED
    BY <1>2, <2>1, ErrorIsIrregular
<1>4. /\ segAdd' = IF Byte.op = "DoBindAddAddrUleb" THEN AddChange(afterAdd, PtrSize) ELSE afterAdd
      /\ Yield("None")
      /\ last' = IF again THEN last ELSE Byte.op
  BY <1>3 DEF ScanBindAddAddr
<1>5. add \in Int /\ afterAdd = add
  <2>1. add \in Int
    <3>1. info.addAddr \in Int /\ info.skip \in Int /\ PtrSize \in Int
      BY <1>2, Widths DEF InfoType, Signed
    <3>2. PtrSize * info.skip \in Int
      BY <3>1, ProductType
    <3> QED
      BY <3>1, <3>2
  <2> HIDE DEF add
  <2>2. FitsSigned(segAdd + add) /\ segAdd + add = add
    BY <1>2, <1>3, <2>1 DEF AddChangeFails
  <2> QED
    BY <2>1, <2>2 DEF AddChange
<1>6. PICK c \in 0..SMax, d \in 0..SMax : c = At(Len(stream) - 1) /\ d = At(Len(stream))
  BY <1>2
<1>7. info.addrInSeg + segAdd' = d /\ ~again
  <2>1. CASE Byte.op = "DoBindAddAddrUleb"
    <3>1. add = Byte.n /\ info.addAddr = Byte.n /\ Byte.n \in Signed
      BY <1>2, <2>1 DEF Operands, InfoType
    <3>2. PICK n \in Signed : n = Byte.n
      BY <3>1
    <3>3. d = c + PtrSize + n
      BY <1>2, <1>6, <2>1, <3>2 DEF Moved
    <3>4. n + PtrSize \in Signed /\ c + n + PtrSize \in Signed
      BY <1>6, <3>2, <3>3, Widths DEF Signed
    <3> HIDE DEF add, afterAdd
    <3>5. afterAdd = n
      BY <1>5, <3>1, <3>2
    <3>6. segAdd' = n + PtrSize
      BY <1>4, <2>1, <3>4, <3>5 DEF AddChange, FitsSigned, Signed
    <3>7. ~AddChangeFails(afterAdd, PtrSize)
      BY <1>2, <1>6, <3>4, <3>5 DEF AddChangeFails, FitsSigned, Signed
    <3> QED
      BY <1>2, <1>6, <3>2, <3>3, <3>6, <3>7, Widths, SMTT(30) DEF Signed
  <2>2. CASE Byte.op = "DoBindAddAddrImmScaled"
    <3>1. info.skip = Byte.n /\ Byte.n \in 0..UMax /\ info.skip \in 0..UMax
      BY <1>2, <2>2 DEF Operands, InfoType
    <3>2. PICK n \in 0..UMax : n = Byte.n /\ n = info.skip
      BY <3>1
    <3>3. d = c + PtrSize + n * PtrSize
      BY <1>2, <1>6, <2>2, <3>2 DEF Moved
    <3>4. segAdd' = PtrSize * n + PtrSize
      BY <1>4, <1>5, <2>2, <3>2
    <3>5. PICK p \in Int : p = PtrSize * n /\ p = n * PtrSize
      <4>1. PtrSize \in Int /\ n \in Int
        BY Widths
      <4>2. PtrSize * n \in Int /\ PtrSize * n = n * PtrSize
        BY <4>1
      <4> QED
        BY <4>2
    <3>6. d = c + PtrSize + p /\ segAdd' = p + PtrSize /\ info.addrInSeg = c
      BY <1>2, <1>6, <3>3, <3>4, <3>5
    <3> QED
      BY <2>2, <3>6, Widths
  <2> QED
    BY <1>2, <2>1, <2>2
<1>8. last' = Byte.op
  BY <1>4, <1>7
<1> HIDE DEF add, afterAdd, again
<1> QED
  BY <1>1, <1>2, <1>4, <1>6, <1>7, <1>8, BindYields DEF BindsOne

\* The first bind of a run.
LEMMA ScanBindTimesFollows ==
  ASSUME TypeInv, CurrentInv, ListInv, Regular, Follows, ScanBindTimes, ListsStay, Regular'
  PROVE  Follows'
<1> DEFINE step == PtrSize + info.skip
           m == ToUnsigned(info.addAddr)
<1>1. /\ Scanning({"DoBindUlebTimesSkippingUleb"})
      /\ UNCHANGED <<bindKind, stream, atEnd, list, segAdd>>
      /\ \/ Yield("OutOfBoundsSegmentAddr")
         \/ last' = Byte.op /\ addAmt' = ToUnsigned(step) /\ count' = ToUnsigned(m - 1)
            /\ Yield("None")
  BY DEF ScanBindTimes, ListsStay
<1>2. /\ pc = "advance" /\ last = NoneLeft /\ ~atEnd /\ stream # <<>> /\ info \in InfoType
      /\ info.error = "None" /\ Byte.op = "DoBindUlebTimesSkippingUleb"
      /\ Byte \in Opcodes /\ segAdd = 0 /\ Operands(info, Byte)
      /\ info.addrInSeg = At(Len(stream) - 1) /\ HasListed(Len(stream) - 1, 0)
  BY <1>1, AtScan DEF PlaceOps
<1>3. last' = Byte.op /\ addAmt' = ToUnsigned(step) /\ count' = ToUnsigned(m - 1)
      /\ Yield("None")
  BY <1>1, <1>2, ErrorIsIrregular
<1>4. info' = info /\ pc' = "yielded"
  BY <1>2, <1>3, YieldsNone
<1>5. PICK c, n, s : RunFacts(c, n, s)
  BY <1>2, RunBounds DEF Regular
<1>6. /\ c = At(Len(stream) - 1) /\ n = Byte.n /\ s = StepSize(Byte) /\ c \in 0..SMax
      /\ n \in Nat /\ n > 0 /\ n \in 0..UMax /\ s \in Nat /\ s \in 0..SMax /\ Byte.m \in 0..SMax
  BY <1>5 DEF RunFacts
<1>7. m = n
  <2>1. info.addAddr = ToSigned(n)
    BY <1>2, <1>6 DEF Operands
  <2> QED
    BY <1>6, <2>1, SignedBack
<1>8. step = s
  <2>1. info.skip = ToUnsigned(Byte.m)
    BY <1>2 DEF Operands
  <2>2. Byte.m \in 0..UMax
    BY <1>6, Widths
  <2>3. info.skip = Byte.m
    BY <2>1, <2>2, UnsignedSame
  <2> QED
    BY <1>2, <1>6, <2>3 DEF StepSize
<1> HIDE DEF step, m
<1>9. addAmt' = s /\ count' = n - 1 - 0
  <2>1. s \in 0..UMax /\ n - 1 \in 0..UMax /\ n - 1 - 0 = n - 1
    BY <1>6, Widths
  <2> QED
    BY <1>3, <1>7, <1>8, <2>1, UnsignedSame
<1>10. Byte' = Byte /\ At(Len(stream) - 1)' = At(Len(stream) - 1)
       /\ HasListed(Len(stream) - 1, 0)'
  BY <1>1, <1>2 DEF Byte, At, HasListed
<1>11. 0 \in 0..(n - 1) /\ (n > 1 => 0 < n - 1) /\ c = c + 0 * s
  BY <1>6
<1>12. InRun(0)'
  BY <1>1, <1>2, <1>4, <1>6, <1>9, <1>10, <1>11 DEF InRun
<1>13. Byte.op = "DoBindUlebTimesSkippingUleb" => Byte.op \in RunOps /\ Byte.op \notin BindsOne
                                                  /\ Byte.op # NoneLeft
  BY DEF RunOps, BindsOne, NoneLeft
<1> QED
  BY <1>1, <1>2, <1>3, <1>4, <1>10, <1>12, <1>13 DEF Follows

\* An opcode of threaded binds is in no regular stream.
LEMMA ThreadedIsIrregular ==
  ASSUME TypeInv, CurrentInv, ListInv, Regular, Scanning({"Threaded"})
  PROVE  FALSE
<1>1. Byte.op = "Threaded" /\ pc # "end" /\ ~atEnd
  BY DEF Scanning
<1>2. Len(stream) \in 1..Len(stream)
  BY <1>1, CurrentOpcode
<1> QED
  BY <1>1, <1>2 DEF Byte, Regular

\* The end of the list.
LEMMA ScanEndFollows ==
  ASSUME TypeInv, ListInv, Follows, ScanEnd, ListsStay
  PROVE  Follows'
<1>1. /\ pc = "advance" /\ last = NoneLeft /\ atEnd /\ last' = "Done" /\ pc' = "end"
      /\ UNCHANGED <<bindKind, stream, atEnd, info, list>>
  BY DEF ScanEnd, ListsStay
<1>2. HasListed(Len(stream), 0)
  BY <1>1 DEF Follows, Between
<1>3. HasListed(Len(stream), 0)'
  BY <1>1, <1>2 DEF HasListed, At
<1> QED
  BY <1>1, <1>3 DEF Follows

\* What does not change leaves all as it was.
LEMMA FollowsStays ==
  ASSUME UNCHANGED <<bindKind, stream, atEnd, info, last, segAdd, addAmt, count, list>>,
         UNCHANGED pc
  PROVE  Follows' = Follows /\ Regular' = Regular
<1>1. Byte' = Byte
  BY DEF Byte
<1>2. Between' = Between
  BY DEF Between, At, HasListed
<1>3. InBind' = InBind
  BY <1>1 DEF InBind, At, HasListed
<1>4. \A r : InRun(r)' = InRun(r)
  BY <1>1 DEF InRun, At, HasListed
<1>5. HasListed(Len(stream), 0)' = HasListed(Len(stream), 0)
  BY DEF HasListed, At
<1>6. Regular' = Regular
  BY DEF Regular, NoErrorYet
<1> QED
  BY <1>1, <1>2, <1>3, <1>4, <1>5, <1>6 DEF Follows

\* An action that was yielded is listed.
LEMMA ListActionFollows ==
  ASSUME TypeInv, CurrentInv, ListInv, Regular, Follows, ListAction
  PROVE  Follows'
<1>1. /\ pc = "yielded" /\ list' = Append(list, GetAction) /\ pc' = "advance"
      /\ last \in RunOps /\ ~atEnd /\ stream # <<>> /\ Byte.op = last /\ info.error = "None"
      /\ Operands(info, Byte)
      /\ UNCHANGED <<bindKind, last, segAdd, addAmt, count>>
      /\ NoneLeft \notin RunOps
  BY DEF ListAction, Resume, Follows, CurrentInv, RunOps, NoneLeft
<1>2. info' = BeginAdvance(info) /\ UNCHANGED <<stream, atEnd>>
  BY <1>1 DEF ListAction, Resume
<1>3. Byte' = Byte
  BY <1>2 DEF Byte
<1>4. info'.addrInSeg = info.addrInSeg /\ Operands(info', Byte)
  BY <1>1, <1>2 DEF BeginAdvance, TypeInv, InfoType, Operands
<1>5. PICK q \in 0..Len(stream) : q = Len(stream) - 1 /\ Byte = stream[q + 1]
  <2>1. Len(stream) \in Nat /\ Len(stream) # 0
    BY <1>1 DEF TypeInv
  <2>2. Len(stream) - 1 \in 0..Len(stream) /\ (Len(stream) - 1) + 1 = Len(stream)
    BY <2>1
  <2> QED
    BY <2>2 DEF Byte
<1>6. \A r : HasListed(Len(stream) - 1, r)' = HasListed(q, r)'
  BY <1>2, <1>5 DEF HasListed, At
<1>7. /\ Byte \in Opcodes /\ At(q) \in 0..SMax /\ At(q) = At(Len(stream) - 1)
  BY <1>1, <1>5, ByteMoves DEF Regular
<1>8. CASE last = "DoBindUlebTimesSkippingUleb"
  <2>1. PICK r \in Nat : InRun(r)
    BY <1>1, <1>8 DEF Follows
  <2>2. /\ segAdd = 0 /\ addAmt = StepSize(Byte)
        /\ r \in 0..(Byte.n - 1) /\ (Byte.n > 1 => r < Byte.n - 1) /\ count = Byte.n - 1 - r
        /\ info.addrInSeg = At(q) + r * StepSize(Byte)
        /\ HasListed(q, r)
    BY <1>1, <1>5, <2>1 DEF InRun
  <2>3. PICK c, n, s : RunFacts(c, n, s)
    BY <1>1, <1>8, RunBounds DEF Regular
  <2>4. /\ n \in Nat /\ n > 0 /\ n = Byte.n /\ c = At(q) /\ c \in Int /\ s = StepSize(Byte)
        /\ s \in Nat
    BY <1>7, <2>3 DEF RunFacts
  <2>5. Listed(c, Byte)[r + 1] = c + r * s
    <3>1. CASE n = 1
      <4>1. Listed(c, Byte) = <<c>>
        BY <1>1, <1>7, <1>8, <2>4, <3>1, ListedFacts
      <4>2. r = 0
        BY <2>2, <2>4, <3>1
      <4>3. r + 1 = 1 /\ c + r * s = c
        BY <2>4, <4>2
      <4> QED
        BY <4>1, <4>3
    <3>2. CASE n # 1
      <4>1. n > 1 /\ r + 1 \in 1..(n - 1) /\ (r + 1) - 1 = r
        <5>1. n > 1
          BY <2>4, <3>2
        <5>2. r \in Nat /\ r < n - 1
          BY <2>2, <2>4, <5>1
        <5> QED
          BY <2>4, <5>1, <5>2
      <4>2. \A i \in 1..(Byte.n - 1) : Listed(c, Byte)[i] = c + (i - 1) * StepSize(Byte)
        BY <1>1, <1>7, <1>8, <2>4, <4>1, ListedFacts
      <4>3. \A i \in 1..(n - 1) : Listed(c, Byte)[i] = c + (i - 1) * s
        BY <2>4, <4>2, Zenon
      <4>4. Listed(c, Byte)[r + 1] = c + ((r + 1) - 1) * s
        BY <4>1, <4>3
      <4> QED
        BY <4>1, <4>4
    <3> QED
      BY <3>1, <3>2
  <2>6. info.addrInSeg = Listed(At(q), stream[q + 1])[r + 1]
    BY <1>5, <2>2, <2>4, <2>5
  <2>7. HasListed(q, r + 1)'
    BY <1>1, <1>2, <2>2, <2>6, ListsNext
  <2>8. At(Len(stream) - 1)' = At(q)
    BY <1>1, <1>2, <1>5 DEF At
  <2>9. InRun(r)'
    BY <1>1, <1>3, <1>4, <1>6, <1>8, <2>2, <2>7, <2>8 DEF InRun
  <2> QED
    BY <1>1, <1>2, <1>3, <1>4, <1>8, <2>9 DEF Follows, BindsOne
<1>9. CASE last \in BindsOne
  <2>1. /\ info.addrInSeg + segAdd = At(Len(stream)) /\ info.addrInSeg = At(q)
        /\ HasListed(q, 0)
    BY <1>1, <1>5, <1>9 DEF Follows, InBind
  <2>2. Listed(At(q), Byte) = <<At(q)>>
    BY <1>1, <1>7, <1>9, ListedFacts
  <2>3. info.addrInSeg = Listed(At(q), stream[q + 1])[0 + 1]
    BY <1>5, <2>1, <2>2
  <2>4. HasListed(q, 0 + 1)'
    BY <1>1, <1>2, <2>1, <2>3, ListsNext
  <2>5. HasListed(q, 1)'
    BY <2>4
  <2>6. At(Len(stream) - 1)' = At(q) /\ At(Len(stream))' = At(Len(stream))
    BY <1>1, <1>2, <1>5 DEF At
  <2>7. InBind'
    BY <1>1, <1>3, <1>4, <1>6, <1>9, <2>1, <2>5, <2>6 DEF InBind
  <2> QED
    BY <1>1, <1>2, <1>3, <1>4, <1>9, <2>7 DEF Follows, BindsOne
<1> QED
  BY <1>1, <1>8, <1>9 DEF RunOps, BindsOne

\* The first opcode is read at the beginning of the segment.
LEMMA OpenFollows ==
  ASSUME TypeInv, CurrentInv, ListInv, Begin
  PROVE  DoneInv' /\ (Regular' => Follows')
<1>1. PICK kind \in Lists : Open(kind)
  BY DEF Begin
<1>2. /\ list' = <<>> /\ bindKind' = kind /\ pc' = "advance" /\ last' = NoneLeft /\ segAdd' = 0
  BY <1>1 DEF Begin, Open, CurrentInv, ListInv
<1>3. InitInfo \in InfoType /\ InitInfo.addrInSeg = 0
  BY InitInfoFits DEF InitInfo
<1>4. 1..0 = {} /\ NoneLeft \notin RunOps /\ BindsOne \subseteq RunOps
      /\ "DoBindUlebTimesSkippingUleb" \in RunOps
  BY DEF NoneLeft, RunOps, BindsOne
<1>5. ASSUME Between', ~atEnd' => Operands(info', Byte')
      PROVE  Follows'
  BY <1>2, <1>4, <1>5 DEF Follows
<1>6. CASE AtLastByte(kind, <<>>, InitInfo)
  <2>1. stream' = <<>> /\ atEnd' = TRUE
    BY <1>6 DEF AtLastByte
  <2>2. LocationsOf(<<>>, 0) = <<>>
    <3>1. 0 \in Nat /\ Len(<<>>) \in Nat /\ 0 <= Len(<<>>) /\ \A k \in 1..0 : <<>>[k] \in Opcodes
      OBVIOUS
    <3> QED
      BY <3>1, LocationsGrow
  <2>3. HasListed(Len(stream), 0)'
    BY <1>2, <1>4, <2>1, <2>2 DEF HasListed
  <2>4. Between'
    BY <1>2, <2>1, <2>3 DEF Between
  <2> QED
    BY <1>5, <2>1, <2>4 DEF DoneInv
<1>7. ASSUME NEW o \in Opcodes,
             AtOpcode(kind, <<>>, FALSE, o, BeginAdvance(ReadOpcode(kind, InitInfo, o)))
      PROVE  DoneInv' /\ (Regular' => Follows')
  <2>1. (atEnd' => o.op \notin RunOps) /\ DoneInv'
    <3>1. <<>> \in Seq(Opcodes) /\ FALSE \in BOOLEAN /\ Len(<<>>) = 0
          /\ \A k \in 1..Len(<<>>) : <<>>[k].op # "Done"
      OBVIOUS
    <3> QED
      BY <1>2, <1>7, <3>1, AtOpcodeEnds
  <2>2. stream' = Append(<<>>, o) /\ info' = BeginAdvance(ReadOpcode(kind, InitInfo, o))
    BY <1>7 DEF AtOpcode
  <2>3. stream' = <<o>> /\ Len(stream') = 1 /\ Byte' = o /\ stream'[1] = o
    BY <2>2 DEF Byte
  <2>4. ReadOpcode(kind, InitInfo, o) \in InfoType
        /\ ReadOpcode(kind, InitInfo, o).addrInSeg = 0
    BY <1>3, ReadOpcodeFields, ReadsOperands
  <2>5. info'.addrInSeg = 0
    BY <2>2, <2>4 DEF BeginAdvance, InfoType
  <2>6. Regular' => Operands(info', o)
    <3> SUFFICES ASSUME Regular' PROVE Operands(info', o)
      OBVIOUS
    <3>1. ReadError(kind, o) = "None"
      BY <1>2, <2>3 DEF Regular, NoReadErrors
    <3>2. Operands(ReadOpcode(kind, InitInfo, o), o)
      BY <1>3, <3>1, ReadsOperands
    <3> QED
      BY <2>2, <2>4, <3>2 DEF BeginAdvance, InfoType, Operands
  <2>7. /\ CursorAt(stream', 0) = 0 /\ LocationsOf(stream', 0) = <<>>
        /\ LocationsOf(stream', 1) = LocationsOf(stream', 0) \o Listed(0, o)
    <3>1. 1 \in Nat /\ (\A k \in 1..1 : stream'[k] \in Opcodes) /\ 1 \in 1..1 /\ 1 - 1 = 0
          /\ Len(stream') \in Nat /\ 1 <= Len(stream')
      BY <2>3
    <3>2. CursorAt(stream', 0) = 0
      BY <3>1, CursorMoves
    <3>3. /\ LocationsOf(stream', 0) = <<>>
          /\ \A k \in 1..1 :
               LocationsOf(stream', k)
                 = LocationsOf(stream', k - 1)
                     \o Listed(CursorAt(stream', k - 1), stream'[k])
      BY <3>1, LocationsGrow
    <3> QED
      BY <2>3, <3>1, <3>2, <3>3
  <2>8. (Len(stream) - 1)' = 0 /\ HasListed(Len(stream) - 1, 0)' /\ At(Len(stream) - 1)' = 0
    BY <1>2, <1>4, <2>3, <2>7 DEF HasListed, At
  <2>9. atEnd' => HasListed(Len(stream), 0)'
    <3> SUFFICES ASSUME atEnd' PROVE HasListed(Len(stream), 0)'
      OBVIOUS
    <3>1. Listed(0, o) = <<>>
      BY <2>1, ListedFacts
    <3>2. LocationsOf(stream', 1) = <<>>
      BY <2>7, <3>1
    <3> QED
      BY <1>2, <1>4, <2>3, <3>2 DEF HasListed
  <2>10. Between'
    BY <1>2, <2>5, <2>8, <2>9 DEF Between
  <2> QED
    BY <1>5, <2>1, <2>3, <2>6, <2>10
<1> QED
  BY <1>1, <1>6, <1>7 DEF Open

\* But for the first opcode, each step leaves the stream and the list as they were
\* or adds to them.
LEMMA GrowsStep ==
  ASSUME TypeInv, CurrentInv, ListInv, [Next]_vars
  PROVE  Opens \/ Grows
<1>1. stream \in Seq(Opcodes) /\ list \in Seq(EntryType) /\ Len(list) \in Nat
      /\ Len(stream) \in Nat
  BY DEF TypeInv, ListInv
<1>2. CASE Goes
  <2>1. PICK i, new : Reads(i, new, FALSE)
    BY <1>2 DEF Goes
  <2>2. UNCHANGED <<bindKind, list>>
    BY <1>2 DEF Goes, ListsStay
  <2>3. /\ stream' \in Seq(Opcodes) /\ Len(stream') \in {Len(stream), Len(stream) + 1}
        /\ \A k \in 1..Len(stream) : stream'[k] = stream[k]
    BY <2>1, ReadsFields
  <2>4. Len(stream) <= Len(stream')
    BY <1>1, <2>3
  <2> QED
    BY <1>1, <2>1, <2>2, <2>3, <2>4 DEF Grows
<1>3. CASE Passes
  <2>1. Reads(info, FALSE, TRUE) /\ Keeps /\ UNCHANGED bindKind
    BY <1>3 DEF Passes, Keeps
  <2>2. Len(list') \in Nat /\ Len(list) <= Len(list') /\ \A k \in 1..Len(list) : list'[k] = list[k]
    BY <1>1, <2>1, KeepsFields
  <2>3. /\ stream' \in Seq(Opcodes) /\ Len(stream') \in {Len(stream), Len(stream) + 1}
        /\ \A k \in 1..Len(stream) : stream'[k] = stream[k]
    BY <2>1, ReadsFields
  <2>4. Len(stream) <= Len(stream')
    BY <1>1, <2>3
  <2> QED
    BY <1>1, <2>1, <2>2, <2>3, <2>4 DEF Grows
<1>4. CASE Stays
  <2>1. Keeps /\ UNCHANGED <<bindKind, stream>>
    BY <1>4 DEF Stays, Keeps
  <2>2. Len(list') \in Nat /\ Len(list) <= Len(list') /\ \A k \in 1..Len(list) : list'[k] = list[k]
    BY <1>1, <2>1, KeepsFields
  <2> QED
    BY <1>1, <2>1, <2>2 DEF Grows
<1>5. CASE (Yields /\ ListsStay) \/ (Ends /\ ListsStay) \/ Rests
  <2>1. UNCHANGED <<bindKind, stream, list>>
    BY <1>5 DEF Yields, Ends, ListsStay, Rests
  <2> QED
    BY <1>1, <2>1 DEF Grows
<1> QED
  BY <1>2, <1>3, <1>4, <1>5, NextStep

\* DONE ends the stream.
LEMMA DoneStep ==
  ASSUME TypeInv, CurrentInv, ListInv, DoneInv, [Next]_vars
  PROVE  DoneInv'
<1>1. CASE Begin
  BY <1>1, OpenFollows
<1>2. CASE AdvanceIterator
  <2>1. Moves \/ Yields \/ Ends
    BY <1>2, AdvanceStep DEF AdvanceIterator
  <2>2. CASE Moves
    <3>1. PICK i \in InfoType : NextOpcode(i)
      BY <2>2 DEF Moves
    <3>2. ~atEnd /\ UNCHANGED bindKind
      BY <2>2 DEF Moves
    <3> QED
      BY <3>1, <3>2, NextOpcodeGoes
  <2>3. CASE Yields \/ Ends
    BY <2>3 DEF Yields, Ends, DoneInv
  <2> QED
    BY <2>1, <2>2, <2>3
<1>3. CASE ListAction
  <2>1. Resume /\ UNCHANGED bindKind /\ ~atEnd
    BY <1>3 DEF ListAction, Resume, CurrentInv
  <2>2. CASE info.error = "None"
    BY <2>1, <2>2 DEF Resume, DoneInv
  <2>3. CASE AtLastByte(bindKind, stream, BeginAdvance(info))
    BY <2>3 DEF AtLastByte, DoneInv
  <2>4. ASSUME NEW o \in Opcodes, AtOpcode(bindKind, stream, reachedEnd, o,
                                           BeginAdvance(ReadOpcode(bindKind, info, o)))
        PROVE  DoneInv'
    <3>1. stream \in Seq(Opcodes) /\ reachedEnd \in BOOLEAN
          /\ (bindKind # "Lazy" => reachedEnd = FALSE
                                   /\ \A k \in 1..Len(stream) : stream[k].op # "Done")
      BY <2>1 DEF TypeInv, DoneInv
    <3> QED
      BY <2>1, <2>4, <3>1, AtOpcodeEnds
  <2> QED
    BY <2>1, <2>2, <2>3, <2>4 DEF Resume
<1>4. CASE StopAtError \/ Finished \/ UNCHANGED vars
  BY <1>4 DEF StopAtError, Finished, vars, iteratorVars, DoneInv
<1> QED
  BY <1>1, <1>2, <1>3, <1>4 DEF Next

\* The steps that find an error leave no regular stream.
LEMMA ErrorsAreIrregular ==
  ASSUME TypeInv, CurrentInv, ListInv, [Next]_vars, info.error # "None"
  PROVE  ~Regular' \/ Opens \/ UNCHANGED vars \/ Finished
<1> SUFFICES ASSUME ~Opens, ~UNCHANGED vars, ~Finished PROVE ~Regular'
  OBVIOUS
<1>1. info \in InfoType
  BY DEF TypeInv
<1>2. CASE Goes
  BY <1>2 DEF Goes
<1>3. CASE (Yields /\ ListsStay) \/ (Ends /\ ListsStay) \/ Rests
  <2>1. info'.error # "None"
    BY <1>3 DEF Yields, Ends, Rests
  <2> QED
    BY <2>1 DEF Regular, NoErrorYet
<1>4. CASE Stays
  BY <1>4 DEF Stays
<1>5. CASE Passes
  <2>1. Len(list') \in Nat /\ list' # <<>> /\ list'[Len(list')] = GetAction
        /\ GetAction.error = info.error /\ list' \in Seq(EntryType)
    BY <1>5, KeepsFields, GetActionFits DEF Passes
  <2>2. Len(list') \in 1..Len(list')
    BY <2>1
  <2> QED
    BY <2>1, <2>2 DEF Regular, NoErrorYet
<1> QED
  BY <1>2, <1>3, <1>4, <1>5, NextStep

\* A call of Advance.
LEMMA AdvanceFollows ==
  ASSUME TypeInv, CurrentInv, ListInv, DoneInv, Regular, Follows, AdvanceIterator, Regular'
  PROVE  Follows'
<1>1. Advance /\ ListsStay /\ info \in InfoType
  BY DEF AdvanceIterator, ListsStay, TypeInv
<1>2. CASE RepeatBind
  BY <1>1, <1>2, RepeatBindFollows
<1>3. CASE FinalizeBind
  BY <1>1, <1>3, FinalizeBindFollows
<1>4. CASE ScanError
  <2>1. PICK e : e # "None" /\ Yield(e)
    BY <1>4 DEF ScanError
  <2> QED
    BY <1>1, <2>1, ErrorIsIrregular
<1>5. CASE ScanSetup
  BY <1>1, <1>5, ScanSetupFollows
<1>6. CASE ScanAddAddr
  BY <1>1, <1>6, ScanAddAddrFollows
<1>7. CASE ScanBind
  BY <1>1, <1>7, ScanBindFollows
<1>8. CASE ScanBindAddAddr
  BY <1>1, <1>8, ScanBindAddAddrFollows
<1>9. CASE ScanBindTimes
  BY <1>1, <1>9, ScanBindTimesFollows
<1>10. CASE ScanTableSize \/ ScanThreadedApply
  <2>1. Scanning({"Threaded"})
    BY <1>10 DEF ScanTableSize, ScanThreadedApply
  <2> QED
    BY <2>1, ThreadedIsIrregular
<1>11. CASE ScanEnd
  BY <1>1, <1>11, ScanEndFollows
<1> QED
  BY <1>1, <1>2, <1>3, <1>4, <1>5, <1>6, <1>7, <1>8, <1>9, <1>10, <1>11 DEF Advance

\* The invariant is inductive with the types.
LEMMA AddressInvStep ==
  ASSUME TypeInv, CurrentInv, ListInv, AddressInv, [Next]_vars
  PROVE  AddressInv'
<1>1. DoneInv'
  BY DoneStep DEF AddressInv
<1>2. (stopped => pc = "yielded" /\ info.error # "None")'
  <2>1. CASE Begin
    BY <2>1 DEF Begin, Open, AddressInv, CurrentInv
  <2>2. CASE AdvanceIterator \/ ListAction
    BY <2>2 DEF AdvanceIterator, ListAction
  <2>3. CASE StopAtError
    BY <2>3 DEF StopAtError, CanIgnoreError, iteratorVars
  <2>4. CASE Finished \/ UNCHANGED vars
    BY <2>4 DEF Finished, vars, iteratorVars, AddressInv
  <2> QED
    BY <2>1, <2>2, <2>3, <2>4 DEF Next
<1>3. ASSUME Regular' PROVE Follows'
  <2>1. CASE Begin
    BY <1>3, <2>1, OpenFollows
  <2>2. CASE Finished \/ UNCHANGED vars
    <3>1. UNCHANGED <<bindKind, stream, atEnd, info, last, segAdd, addAmt, count, list>>
          /\ UNCHANGED pc
      BY <2>2 DEF Finished, vars, iteratorVars
    <3> QED
      BY <1>3, <3>1, FollowsStays DEF AddressInv
  <2>3. ASSUME ~Begin, ~Finished, ~UNCHANGED vars
        PROVE  info.error = "None" /\ Regular /\ Follows
    <3>1. opened
      BY <2>3 DEF Next, AdvanceIterator, Advance, RepeatBind, FinalizeBind, ScanError, ScanSetup,
         ScanAddAddr, ScanBind, ScanBindAddAddr, ScanBindTimes, ScanTableSize, ScanThreadedApply,
         Scanning, ScanEnd, ListAction, StopAtError, ListInv
    <3>2. ~Opens
      BY <3>1 DEF Opens
    <3>3. info.error = "None"
      BY <1>3, <2>3, <3>2, ErrorsAreIrregular
    <3>4. Regular
      BY <1>3, <3>2, <3>3, GrowsStep, RegularBefore
    <3> QED
      BY <3>3, <3>4 DEF AddressInv
  <2>4. ASSUME AdvanceIterator, ~Begin, ~Finished, ~UNCHANGED vars PROVE Follows'
    BY <1>3, <2>3, <2>4, AdvanceFollows DEF AddressInv
  <2>5. ASSUME ListAction, ~Begin, ~Finished, ~UNCHANGED vars PROVE Follows'
    BY <2>3, <2>5, ListActionFollows
  <2>6. ASSUME StopAtError, ~Begin, ~Finished, ~UNCHANGED vars PROVE Follows'
    BY <2>3, <2>6 DEF StopAtError, CanIgnoreError
  <2> QED
    BY <2>1, <2>2, <2>4, <2>5, <2>6 DEF Next
<1> QED
  BY <1>1, <1>2, <1>3 DEF AddressInv

\* It holds at the start.
LEMMA AddressInvInit == Init => AddressInv
<1> SUFFICES ASSUME Init PROVE AddressInv
  OBVIOUS
<1>1. /\ pc = "end" /\ stream = <<>> /\ reachedEnd = FALSE /\ atEnd = FALSE /\ list = <<>>
      /\ last = NoneLeft /\ stopped = FALSE /\ bindKind = "Normal"
  BY DEF Init, InitIterator
<1>2. LocationsOf(<<>>, 0) = <<>> /\ 1..0 = {} /\ Len(<<>>) = 0
  <2>1. 0 \in Nat /\ Len(<<>>) \in Nat /\ 0 <= Len(<<>>) /\ \A k \in 1..0 : <<>>[k] \in Opcodes
    OBVIOUS
  <2>2. LocationsOf(<<>>, 0) = <<>>
    BY <2>1, LocationsGrow
  <2> QED
    BY <2>2
<1>3. HasListed(Len(stream), 0)
  BY <1>1, <1>2 DEF HasListed
<1>4. Follows
  BY <1>1, <1>3 DEF Follows
<1>5. DoneInv
  BY <1>1 DEF DoneInv
<1> QED
  BY <1>1, <1>4, <1>5 DEF AddressInv

\* It is an invariant.
LEMMA AddressInvHolds == Spec => []AddressInv
<1>1. TypeInv /\ CurrentInv /\ ListInv /\ AddressInv /\ [Next]_vars => AddressInv'
  BY AddressInvStep
<1> QED
  BY <1>1, AddressInvInit, IteratorInvariant, PTL DEF Spec

\* A list with part of the current opcode's locations is a prefix of all.
LEMMA ListedPart ==
  ASSUME TypeInv, ListInv, stream # <<>>, NEW r \in Nat, HasListed(Len(stream) - 1, r),
         r <= Len(Listed(At(Len(stream) - 1), stream[Len(stream)]))
  PROVE  IsPrefix(Addresses, ListedLocations)
<1>1. PICK n \in Nat \ {0} : n = Len(stream) /\ n \in 1..Len(stream) /\ n - 1 \in 0..Len(stream)
                             /\ (n - 1) + 1 = n
  BY DEF TypeInv
<1>2. stream \in Seq(Opcodes) /\ stream[n] \in Opcodes /\ \A k \in 1..n : stream[k] \in Opcodes
      /\ Len(stream) \in Nat /\ n <= Len(stream)
  BY <1>1 DEF TypeInv
<1> DEFINE a == LocationsOf(stream, n - 1)
           b == Listed(At(n - 1), stream[n])
<1>3. a \in Seq(Int) /\ b \in Seq(Int) /\ LocationsOf(stream, n) = a \o b
  <2>1. n \in Nat /\ n - 1 \in 0..n /\ n \in 1..n
    BY <1>1
  <2>2. At(n - 1) \in Int
    BY <1>2, <2>1, CursorMoves DEF At
  <2>3. b \in Seq(Int)
    BY <1>2, <2>2, ListedFacts
  <2>4. a \in Seq(Int)
    BY <1>2, <2>1, LocationsGrow
  <2>5. LocationsOf(stream, n) = a \o b
    BY <1>2, <2>1, LocationsGrow DEF At
  <2> QED
    BY <2>3, <2>4, <2>5
<1>4. /\ Len(list) = Len(a) + r
      /\ \A j \in 1..Len(a) : list[j].addr = a[j]
      /\ \A j \in 1..r : list[Len(a) + j].addr = b[j]
      /\ r <= Len(b)
  BY <1>1 DEF HasListed
<1>5. ListedLocations = a \o b
  BY <1>1, <1>3 DEF ListedLocations
<1> HIDE DEF a, b
<1>6. /\ Len(a \o b) = Len(a) + Len(b) /\ Len(a) \in Nat /\ Len(b) \in Nat
      /\ \A j \in 1..(Len(a) + Len(b)) : (a \o b)[j] = IF j <= Len(a) THEN a[j] ELSE b[j - Len(a)]
  BY <1>3
<1>7. \A j \in 1..(Len(a) + r) : list[j].addr = (a \o b)[j]
  <2> SUFFICES ASSUME NEW j \in 1..(Len(a) + r) PROVE list[j].addr = (a \o b)[j]
    OBVIOUS
  <2>0. j \in 1..(Len(a) + Len(b))
    BY <1>4, <1>6
  <2>1. CASE j <= Len(a)
    BY <1>4, <1>6, <2>0, <2>1
  <2>2. CASE ~(j <= Len(a))
    <3>1. j - Len(a) \in 1..r /\ Len(a) + (j - Len(a)) = j
      BY <1>6, <2>2
    <3> QED
      BY <1>4, <1>6, <2>0, <2>2, <3>1
  <2> QED
    BY <2>1, <2>2
<1> DEFINE q == Len(a) + r
           t == a \o b
<1>8. q \in Nat /\ q <= Len(t) /\ Len(list) = q /\ \A j \in 1..q : list[j].addr = t[j]
  BY <1>4, <1>6, <1>7
<1> HIDE DEF q, t
<1>9. Addresses = [j \in 1..q |-> t[j]] /\ Len(Addresses) = q
  BY <1>8 DEF Addresses
<1>10. SubSeq(Addresses, 1, q) = SubSeq(t, 1, q)
  BY <1>8, <1>9
<1>11. IsPrefix(Addresses, t)
  BY <1>8, <1>9, <1>10 DEF IsPrefix
<1> QED
  BY <1>5, <1>11 DEF t

\* When no bind is pending, the list is that of all opcodes read.
LEMMA ListedWhole ==
  ASSUME TypeInv, ListInv, HasListed(Len(stream), 0)
  PROVE  Addresses = ListedLocations /\ IsPrefix(Addresses, ListedLocations)
<1>1. PICK t \in Seq(Int) : t = LocationsOf(stream, Len(stream))
  <2>1. Len(stream) \in 0..Len(stream) /\ Len(stream) \in Nat /\ Len(stream) <= Len(stream)
        /\ \A k \in 1..Len(stream) : stream[k] \in Opcodes
    BY DEF TypeInv
  <2> QED
    BY <2>1, LocationsGrow
<1>2. Len(list) = Len(t) /\ Len(t) \in Nat /\ \A j \in 1..Len(t) : list[j].addr = t[j]
  BY <1>1 DEF HasListed
<1>3. Addresses = [j \in 1..Len(t) |-> t[j]]
  BY <1>2 DEF Addresses
<1>4. Addresses = t
  BY <1>1, <1>3
<1> QED
  BY <1>1, <1>2, <1>4 DEF ListedLocations, IsPrefix

\* What the invariant says of the iterator's address.
LEMMA InvFollowsCursor ==
  ASSUME TypeInv, ListInv, AddressInv
  PROVE  CursorFollowsStream
<1> SUFFICES ASSUME Regular, pc = "advance", last = NoneLeft, ~atEnd,
                    ~Astray(bindKind, stream, Len(stream))
             PROVE  info.addrInSeg + segAdd = CursorAt(stream, Len(stream) - 1)
  BY DEF CursorFollowsStream
<1>1. segAdd = 0 /\ info.addrInSeg = At(Len(stream) - 1) /\ info.addrInSeg \in 0..UMax
  BY DEF AddressInv, Follows, Between, TypeInv, InfoType
<1> QED
  BY <1>1 DEF At

\* And of the list.
LEMMA InvListsInOrder ==
  ASSUME TypeInv, CurrentInv, ListInv, AddressInv
  PROVE  ListedInOrder
<1> SUFFICES ASSUME Regular
             PROVE  IsPrefix(Addresses, ListedLocations)
                    /\ (Returned => Addresses = ListedLocations)
  <2>1. LongRuns(stream) \in SUBSET LongRuns(stream)
    OBVIOUS
  <2> QED
    BY <2>1 DEF ListedInOrder, ListedLocations, LocationsOf
<1>1. Follows
  BY DEF AddressInv
<1>2. Returned => pc = "end"
  BY DEF AddressInv, Returned, Regular, NoErrorYet
<1>3. CASE pc = "end"
  BY <1>1, <1>3, ListedWhole DEF Follows
<1>4. CASE pc = "advance" /\ last = NoneLeft /\ atEnd
  <2>1. HasListed(Len(stream), 0)
    BY <1>1, <1>4 DEF Follows, Between
  <2> QED
    BY <1>2, <1>4, <2>1, ListedWhole
<1>5. CASE pc = "advance" /\ last = NoneLeft /\ ~atEnd
  <2>1. HasListed(Len(stream) - 1, 0) /\ stream # <<>>
    BY <1>1, <1>5 DEF Follows, Between, CurrentInv
  <2>2. 0 <= Len(Listed(At(Len(stream) - 1), stream[Len(stream)]))
    <3>1. Byte \in Opcodes /\ Byte = stream[Len(stream)] /\ At(Len(stream) - 1) \in Int
      BY <2>1, CurrentByte
    <3>2. Listed(At(Len(stream) - 1), stream[Len(stream)]) \in Seq(Int)
      BY <3>1, ListedFacts
    <3> QED
      BY <3>2
  <2> QED
    BY <1>2, <1>5, <2>1, <2>2, ListedPart
<1>6. CASE pc \in {"advance", "yielded"} /\ last \in RunOps
  <2>1. stream # <<>> /\ Byte.op = last /\ pc # "end" /\ ~atEnd
    BY <1>6 DEF CurrentInv
  <2>2. Byte \in Opcodes /\ Byte = stream[Len(stream)] /\ At(Len(stream) - 1) \in Int
    BY <2>1, CurrentByte
  <2>3. CASE last \in BindsOne
    <3>1. PICK k \in {0, 1} : HasListed(Len(stream) - 1, k)
      BY <1>1, <2>1, <2>3 DEF Follows, InBind
    <3>2. Listed(At(Len(stream) - 1), Byte) = <<At(Len(stream) - 1)>>
      BY <2>1, <2>2, <2>3, ListedFacts
    <3>3. k \in Nat /\ k <= 1 /\ Len(Listed(At(Len(stream) - 1), stream[Len(stream)])) = 1
      BY <2>2, <3>2
    <3> QED
      BY <1>2, <2>1, <3>1, <3>3, ListedPart
  <2>4. CASE last = "DoBindUlebTimesSkippingUleb"
    <3>1. PICK r \in Nat : InRun(r)
      BY <1>1, <2>1, <2>4 DEF Follows
    <3>2. PICK k \in {r, r + 1} : HasListed(Len(stream) - 1, k)
      BY <3>1 DEF InRun
    <3>3. PICK c, n, s : RunFacts(c, n, s)
      BY <2>1, <2>4, RunBounds DEF Regular
    <3>4. n \in Nat /\ n > 0 /\ n = Byte.n /\ c = At(Len(stream) - 1)
      BY <3>3 DEF RunFacts
    <3>5. r \in 0..(n - 1) /\ (n > 1 => r < n - 1)
      BY <3>1, <3>4 DEF InRun
    <3>6. PICK e : e = Len(Listed(c, Byte)) /\ e = IF n = 1 THEN 1 ELSE n - 1
      <4>1. CASE n = 1
        <5>1. Listed(c, Byte) = <<c>>
          BY <2>1, <2>2, <2>4, <3>4, <4>1, ListedFacts
        <5> QED
          BY <4>1, <5>1
      <4>2. CASE n # 1
        <5>1. n > 1
          BY <3>4, <4>2
        <5>2. Len(Listed(c, Byte)) = Byte.n - 1
          BY <2>1, <2>2, <2>4, <3>4, <5>1, ListedFacts
        <5> QED
          BY <3>4, <4>2, <5>2
      <4> QED
        BY <4>1, <4>2
    <3>7. k \in Nat /\ k <= e
      BY <3>4, <3>5, <3>6
    <3>8. k <= Len(Listed(At(Len(stream) - 1), stream[Len(stream)]))
      BY <2>2, <3>4, <3>6, <3>7
    <3> QED
      BY <1>2, <2>1, <3>2, <3>7, <3>8, ListedPart
  <2> QED
    BY <1>6, <2>3, <2>4 DEF RunOps, BindsOne
<1> QED
  BY <1>1, <1>3, <1>4, <1>5, <1>6 DEF Follows, TypeInv

(***************************************************************************)
(* The listing of the opcodes                                              *)
(***************************************************************************)

\* A line of the listing.
LineType == [op : {o.op : o \in Opcodes}, addr : 0..UMax, overflows : BOOLEAN]

\* The listing between two opcodes.
ListingType == [info : InfoType, addrInSeg : 0..UMax, overflows : BOOLEAN, done : BOOLEAN,
                lines : Seq(LineType)]

\* The line of an opcode at the address a.
LineAt(o, a) == [op |-> o.op, addr |-> a, overflows |-> FALSE]

\* m is l with another address, or with its flag set.
Elsewhere(l, m) == m \in ListingType /\ m.info = l.info /\ m.done = l.done /\ m.lines = l.lines

\* m is l with another line, of o at l's own address.
Lined(l, o, m) ==
  /\ m \in ListingType /\ m.info = l.info /\ m.done = l.done
  /\ m.addrInSeg = l.addrInSeg /\ m.overflows = l.overflows
  /\ m.lines = Append(l.lines, Line(l, o))

\* Adding a line.
LEMMA WithLineFacts ==
  ASSUME NEW l \in ListingType, NEW o \in Opcodes
  PROVE  Lined(l, o, WithLine(l, o)) /\ Line(l, o) \in LineType
         /\ (l.overflows = FALSE => Line(l, o) = LineAt(o, l.addrInSeg))
<1>1. Line(l, o) \in LineType
  <2>1. o.op \in {p.op : p \in Opcodes} /\ l.addrInSeg \in 0..UMax /\ l.overflows \in BOOLEAN
    BY DEF ListingType
  <2> QED
    BY <2>1 DEF Line, LineType
<1>2. PICK q : q = Append(l.lines, Line(l, o)) /\ q \in Seq(LineType)
  <2>1. l.lines \in Seq(LineType)
    BY DEF ListingType
  <2>2. \A s \in Seq(LineType), e \in LineType : Append(s, e) \in Seq(LineType)
    OBVIOUS
  <2>3. Append(l.lines, Line(l, o)) \in Seq(LineType)
    BY <1>1, <2>1, <2>2, Zenon
  <2> QED
    BY <2>3
<1>3. WithLine(l, o) = [l EXCEPT !.lines = q]
  BY <1>2 DEF WithLine
<1>4. Lined(l, o, WithLine(l, o))
  BY <1>2, <1>3 DEF ListingType, Lined
<1> QED
  BY <1>1, <1>4 DEF Line, LineAt

\* Adding to the address.
LEMMA PlusFacts ==
  ASSUME NEW l \in ListingType, NEW sum \in Int
  PROVE  /\ Elsewhere(l, Plus(l, sum))
         /\ sum \in 0..UMax => Plus(l, sum).addrInSeg = sum /\ Plus(l, sum).overflows = l.overflows
<1>1. CASE sum \in 0..UMax
  <2>1. Plus(l, sum) = [l EXCEPT !.addrInSeg = sum]
    BY <1>1 DEF Plus, FitsUnsigned
  <2> QED
    BY <1>1, <2>1 DEF ListingType, Elsewhere
<1>2. CASE ~(sum \in 0..UMax)
  <2>1. Plus(l, sum) = [l EXCEPT !.overflows = TRUE]
    BY <1>2 DEF Plus, FitsUnsigned
  <2> QED
    BY <1>2, <2>1 DEF ListingType, Elsewhere
<1> QED
  BY <1>1, <1>2

\* What the listing holds are integers.
LEMMA ListingNumbers ==
  ASSUME NEW l \in ListingType
  PROVE  /\ l.addrInSeg \in Int /\ l.info.addAddr \in Int /\ l.info.skip \in Int
         /\ l.info.segOffset \in 0..UMax /\ l.info \in InfoType /\ PtrSize \in Int
         /\ l.overflows \in BOOLEAN /\ l.lines \in Seq(LineType)
         /\ \A a \in Int : PtrSize * a \in Int
<1>1. l.info \in InfoType /\ PtrSize \in Int
  BY Widths DEF ListingType
<1>2. \A a \in Int : PtrSize * a \in Int
  BY <1>1, ProductType
<1> QED
  BY <1>1, <1>2, Widths, SMTT(30) DEF ListingType, InfoType, Signed

\* The lines of a bind of one location.
LEMMA ListBindFacts ==
  ASSUME NEW l \in ListingType, NEW o \in Opcodes
  PROVE  /\ ListBind(l, o) \in ListingType /\ ListBind(l, o).done = l.done
         /\ ListBind(l, o).lines = Append(l.lines, Line(l, o))
         /\ l.addrInSeg + PtrSize \in 0..UMax =>
              /\ ListBind(l, o).addrInSeg = l.addrInSeg + PtrSize
              /\ ListBind(l, o).overflows = l.overflows
<1>1. l.addrInSeg + PtrSize \in Int
  BY ListingNumbers
<1>2. PICK w \in ListingType : w = WithLine(l, o) /\ Lined(l, o, w)
  BY WithLineFacts DEF Lined
<1>3. PICK sum \in Int : sum = l.addrInSeg + PtrSize
  BY <1>1
<1>4. ListBind(l, o) = Plus(w, sum)
  BY <1>2, <1>3 DEF ListBind
<1>5. /\ Elsewhere(w, Plus(w, sum))
      /\ sum \in 0..UMax => Plus(w, sum).addrInSeg = sum /\ Plus(w, sum).overflows = w.overflows
  BY PlusFacts
<1> QED
  BY <1>2, <1>3, <1>4, <1>5 DEF Lined, Elsewhere

\* The listing of a bind that adds to the address.
LEMMA ListBindAddAddrFacts ==
  ASSUME NEW l \in ListingType, NEW o \in Opcodes
  PROVE  /\ ListBindAddAddr(l, o) \in ListingType /\ ListBindAddAddr(l, o).done = l.done
         /\ ListBindAddAddr(l, o).lines = Append(l.lines, Line(l, o))
         /\ /\ l.addrInSeg + l.info.addAddr \in 0..UMax
            /\ l.addrInSeg + l.info.addAddr + PtrSize \in 0..UMax
            => /\ ListBindAddAddr(l, o).addrInSeg = l.addrInSeg + l.info.addAddr + PtrSize
               /\ ListBindAddAddr(l, o).overflows = l.overflows
<1>1. PICK a \in Int : a = l.addrInSeg + l.info.addAddr
  <2>1. l.addrInSeg \in Int /\ l.info.addAddr \in Int
    BY ListingNumbers
  <2> QED
    BY <2>1
<1>2. PICK w \in ListingType : w = WithLine(l, o) /\ Lined(l, o, w)
  BY WithLineFacts DEF Lined
<1>3. PICK p \in ListingType :
        /\ p = Plus(w, a) /\ Elsewhere(w, p)
        /\ a \in 0..UMax => p.addrInSeg = a /\ p.overflows = w.overflows
  BY PlusFacts DEF Elsewhere
<1>4. PICK b \in Int : b = p.addrInSeg + PtrSize
  BY ListingNumbers, SMTT(30)
<1>5. PICK t \in ListingType :
        /\ t = Plus(p, b) /\ Elsewhere(p, t)
        /\ b \in 0..UMax => t.addrInSeg = b /\ t.overflows = p.overflows
  BY PlusFacts DEF Elsewhere
<1>6. ListBindAddAddr(l, o) = IF a \in 0..UMax THEN t ELSE p
  BY <1>1, <1>2, <1>3, <1>4, <1>5 DEF ListBindAddAddr, FitsUnsigned
<1>7. CASE a \in 0..UMax
  BY <1>1, <1>2, <1>3, <1>4, <1>5, <1>6, <1>7 DEF Lined, Elsewhere
<1>8. CASE ~(a \in 0..UMax)
  BY <1>1, <1>2, <1>3, <1>6, <1>8 DEF Lined, Elsewhere
<1> QED
  BY <1>7, <1>8

\* The listing of a bind that adds a number of pointers.
LEMMA ListBindScaledFacts ==
  ASSUME NEW l \in ListingType, NEW o \in Opcodes, NEW sum,
         sum = l.addrInSeg + PtrSize * l.info.skip + PtrSize
  PROVE  /\ ListBindScaled(l, o) \in ListingType /\ ListBindScaled(l, o).done = l.done
         /\ sum \in 0..UMax =>
              /\ ListBindScaled(l, o).addrInSeg = sum
              /\ ListBindScaled(l, o).overflows = l.overflows
              /\ l.overflows = FALSE =>
                   ListBindScaled(l, o).lines = Append(Append(l.lines, Line(l, o)), LineAt(o, sum))
<1>1. sum \in Int
  <2>1. l.addrInSeg \in Int /\ PtrSize * l.info.skip \in Int /\ PtrSize \in Int
    BY ListingNumbers
  <2> QED
    BY <2>1
<1>2. PICK w \in ListingType : w = WithLine(l, o) /\ Lined(l, o, w)
  BY WithLineFacts DEF Lined
<1>3. PICK p \in ListingType :
        /\ p = Plus(w, sum) /\ Elsewhere(w, p)
        /\ sum \in 0..UMax => p.addrInSeg = sum /\ p.overflows = w.overflows
  BY <1>1, PlusFacts DEF Elsewhere
<1>4. PICK t \in ListingType :
        /\ t = WithLine(p, o) /\ Lined(p, o, t)
        /\ p.overflows = FALSE => Line(p, o) = LineAt(o, p.addrInSeg)
  BY WithLineFacts DEF Lined
<1>5. ListBindScaled(l, o) = IF sum \in 0..UMax THEN t ELSE p
  BY <1>2, <1>3, <1>4 DEF ListBindScaled, FitsUnsigned
<1>6. CASE sum \in 0..UMax
  BY <1>2, <1>3, <1>4, <1>5, <1>6 DEF Lined, Elsewhere
<1>7. CASE ~(sum \in 0..UMax)
  BY <1>2, <1>3, <1>5, <1>7 DEF Lined, Elsewhere
<1> QED
  BY <1>6, <1>7

\* The listing of a run.
LEMMA ListBindTimesFacts ==
  ASSUME NEW l \in ListingType, NEW o \in Opcodes, NEW step, NEW total,
         step = l.info.skip + PtrSize, total = step * ToUnsigned(l.info.addAddr)
  PROVE  /\ ListBindTimes(l, o) \in ListingType /\ ListBindTimes(l, o).done = l.done
         /\ FitsSigned(step) /\ FitsSigned(total) /\ l.addrInSeg + total \in 0..UMax =>
              /\ ListBindTimes(l, o).addrInSeg = l.addrInSeg + total
              /\ ListBindTimes(l, o).overflows = l.overflows
              /\ ListBindTimes(l, o).lines = Append(l.lines, Line(l, o))
<1>1. total \in Int /\ l.addrInSeg + total \in Int
  <2>0. l.info.skip \in Int /\ PtrSize \in Int /\ l.addrInSeg \in Int /\ l.info.addAddr \in Int
    BY ListingNumbers
  <2>1. step \in Int /\ l.addrInSeg \in Int /\ l.info.addAddr \in Int
    BY <2>0
  <2>2. ToUnsigned(l.info.addAddr) \in Int
    BY <2>1, UnsignedFits, Widths
  <2>3. total \in Int
    BY <2>1, <2>2, ProductType
  <2> QED
    BY <2>1, <2>3
<1>2. PICK sum \in Int : sum = l.addrInSeg + total
  BY <1>1
<1>3. PICK w \in ListingType : w = WithLine(l, o) /\ Lined(l, o, w)
  BY WithLineFacts DEF Lined
<1>4. PICK p \in ListingType :
        /\ p = Plus(w, sum) /\ Elsewhere(w, p)
        /\ sum \in 0..UMax => p.addrInSeg = sum /\ p.overflows = w.overflows
  BY PlusFacts DEF Elsewhere
<1>5. PICK v \in ListingType : v = [w EXCEPT !.overflows = TRUE] /\ Elsewhere(w, v)
  <2>1. [w EXCEPT !.overflows = TRUE] \in ListingType
    BY <1>3 DEF ListingType
  <2>2. Elsewhere(w, [w EXCEPT !.overflows = TRUE])
    BY <1>3, <2>1 DEF ListingType, Elsewhere
  <2> QED
    BY <2>1, <2>2
<1>6. WithLine(p, o) \in ListingType /\ WithLine(p, o).done = p.done
      /\ WithLine(v, o) \in ListingType /\ WithLine(v, o).done = v.done
  BY WithLineFacts DEF Lined
<1>7. ListBindTimes(l, o) = IF FitsSigned(step) /\ FitsSigned(total) /\ sum \in 0..UMax THEN p
                            ELSE WithLine(IF FitsSigned(step) /\ FitsSigned(total) THEN p ELSE v, o)
  BY <1>2, <1>3, <1>4, <1>5 DEF ListBindTimes, FitsUnsigned
<1>8. CASE FitsSigned(step) /\ FitsSigned(total) /\ sum \in 0..UMax
  BY <1>2, <1>3, <1>4, <1>7, <1>8 DEF Lined, Elsewhere
<1>9. CASE ~(FitsSigned(step) /\ FitsSigned(total) /\ sum \in 0..UMax)
  BY <1>2, <1>3, <1>4, <1>5, <1>6, <1>7, <1>9 DEF Lined, Elsewhere
<1> QED
  BY <1>8, <1>9

\* The listing of any other opcode.
LEMMA ListSetupFacts ==
  ASSUME NEW l \in ListingType, NEW o \in Opcodes, NEW a,
         a = (CASE o.op = "SetSegmentAndOffsetUleb" -> l.info.segOffset
                [] o.op = "AddAddrUleb" -> l.addrInSeg + l.info.addAddr
                [] OTHER -> l.addrInSeg)
  PROVE  /\ ListSetup(l, o) \in ListingType /\ ListSetup(l, o).done = l.done
         /\ a \in 0..UMax =>
              /\ ListSetup(l, o).addrInSeg = a /\ ListSetup(l, o).overflows = l.overflows
              /\ l.overflows = FALSE => ListSetup(l, o).lines = Append(l.lines, LineAt(o, a))
<1>1. PICK m \in ListingType :
        /\ Elsewhere(l, m) /\ ListSetup(l, o) = WithLine(m, o)
        /\ a \in 0..UMax => m.addrInSeg = a /\ m.overflows = l.overflows
  <2>1. CASE o.op = "SetSegmentAndOffsetUleb"
    <3>1. a \in 0..UMax /\ a = l.info.segOffset
      BY <2>1, ListingNumbers
    <3>2. [l EXCEPT !.addrInSeg = a] \in ListingType /\ Elsewhere(l, [l EXCEPT !.addrInSeg = a])
          /\ [l EXCEPT !.addrInSeg = a].addrInSeg = a
          /\ [l EXCEPT !.addrInSeg = a].overflows = l.overflows
      BY <3>1 DEF ListingType, Elsewhere
    <3>3. ListSetup(l, o) = WithLine([l EXCEPT !.addrInSeg = a], o)
      BY <2>1, <3>1 DEF ListSetup
    <3> QED
      BY <3>2, <3>3
  <2>2. CASE o.op = "AddAddrUleb"
    <3>1. a \in Int /\ a = l.addrInSeg + l.info.addAddr
      BY <2>2, ListingNumbers
    <3>2. ListSetup(l, o) = WithLine(Plus(l, a), o)
      BY <2>2, <3>1 DEF ListSetup
    <3> QED
      BY <3>1, <3>2, PlusFacts DEF Elsewhere
  <2>3. CASE o.op \notin {"SetSegmentAndOffsetUleb", "AddAddrUleb"}
    <3>1. a = l.addrInSeg
      BY <2>3
    <3>2. ListSetup(l, o) = WithLine(l, o)
      BY <2>3 DEF ListSetup
    <3> QED
      BY <3>1, <3>2 DEF Elsewhere
  <2> QED
    BY <2>1, <2>2, <2>3
<1>2. Lined(m, o, WithLine(m, o)) /\ (m.overflows = FALSE => Line(m, o) = LineAt(o, m.addrInSeg))
  BY WithLineFacts
<1> QED
  BY <1>1, <1>2 DEF Lined, Elsewhere

\* The lines of o, which moves the cursor from c to d.
LinesFrom(c, d, o) ==
  CASE o.op = "DoBindAddAddrImmScaled" -> <<LineAt(o, c), LineAt(o, d)>>
    [] o.op \in {"DoBind", "DoBindAddAddrUleb", "DoBindUlebTimesSkippingUleb"} -> <<LineAt(o, c)>>
    [] OTHER -> <<LineAt(o, d)>>

\* The lines of an opcode depend on where it starts and ends.
LEMMA LinesAre == \A s, k : LinesOf(s, k) = LinesFrom(CursorAt(s, k - 1), CursorAt(s, k), s[k])
BY DEF LinesOf, LinesFrom, LineAt

\* Appending is concatenating.
LEMMA AppendedLines ==
  ASSUME NEW T, NEW s \in Seq(T), NEW x \in T, NEW y \in T
  PROVE  Append(s, x) = s \o <<x>> /\ Append(Append(s, x), y) = s \o <<x, y>>
<1>1. Append(s, x) = s \o <<x>>
  OBVIOUS
<1>2. PICK n \in Nat : n = Len(s)
  OBVIOUS
<1>3. /\ Append(Append(s, x), y) \in Seq(T) /\ Len(Append(Append(s, x), y)) = n + 2
      /\ s \o <<x, y>> \in Seq(T) /\ Len(s \o <<x, y>>) = n + 2
  BY <1>2
<1>4. \A j \in 1..(n + 2) : Append(Append(s, x), y)[j] = (s \o <<x, y>>)[j]
  BY <1>2
<1> QED
  BY <1>1, <1>3, <1>4

\* The opcode iterator's step in the listing.
ReadBy(l, i) == [l EXCEPT !.info = i]

\* Reading the operands leaves the rest of the listing alone.
LEMMA ReadListing ==
  ASSUME NEW l \in ListingType, NEW i \in InfoType
  PROVE  /\ ReadBy(l, i) \in ListingType /\ ReadBy(l, i).info = i
         /\ ReadBy(l, i).lines = l.lines /\ ReadBy(l, i).addrInSeg = l.addrInSeg
         /\ ReadBy(l, i).overflows = l.overflows /\ ReadBy(l, i).done = l.done
BY DEF ReadBy, ListingType

\* Listing an opcode gives a listing.
LEMMA ListOpcodeType ==
  ASSUME NEW kind, NEW l \in ListingType, NEW o \in Opcodes
  PROVE  ListOpcode(kind, l, o) \in ListingType
<1> DEFINE r == ReadBy(l, ReadOpcode(kind, l.info, o))
<1>1. r \in ListingType
  <2>1. l.info \in InfoType
    BY DEF ListingType
  <2>2. ReadOpcode(kind, l.info, o) \in InfoType
    BY <2>1, ReadOpcodeFields
  <2> QED
    BY <2>2, ReadListing
<1>2. ListOpcode(kind, l, o) \in {l, [l EXCEPT !.done = TRUE], ListBind(r, o),
         ListBindAddAddr(r, o), ListBindScaled(r, o), ListBindTimes(r, o), ListSetup(r, o)}
  BY DEF ListOpcode, ReadBy
<1>3. [l EXCEPT !.done = TRUE] \in ListingType
  BY DEF ListingType
<1> HIDE DEF r
<1>4. ListBind(r, o) \in ListingType
  BY <1>1, ListBindFacts
<1>5. ListBindAddAddr(r, o) \in ListingType
  BY <1>1, ListBindAddAddrFacts
<1>6. ListBindScaled(r, o) \in ListingType
  BY <1>1, ListBindScaledFacts
<1>7. ListBindTimes(r, o) \in ListingType
  BY <1>1, ListBindTimesFacts
<1>8. ListSetup(r, o) \in ListingType
  BY <1>1, ListSetupFacts
<1> QED
  BY <1>2, <1>3, <1>4, <1>5, <1>6, <1>7, <1>8

\* A run that ends in the segment fits.
LEMMA RunFits ==
  ASSUME NEW c \in 0..SMax, NEW n \in Nat, n > 0, NEW s \in Nat, c + n * s \in 0..SMax
  PROVE  n * s \in 0..SMax /\ s * n = n * s /\ s \in 0..SMax
<1>1. n * s \in Nat /\ s * n = n * s /\ SMax \in Nat /\ c \in Nat
  BY ProductGrows, Widths
<1>2. n * s <= SMax
  BY <1>1
<1>3. 1 <= n /\ 1 \in Nat /\ 1 * s = s
  OBVIOUS
<1>4. s <= n * s
  BY <1>3, ProductGrows
<1> QED
  BY <1>1, <1>2, <1>4

\* An opcode that could be read moves the cursor from c to d within the segment.
MovesWithin(kind, o, c, d) ==
  /\ d = Moved(c, o) /\ ReadError(kind, o) = "None"
  /\ kind # "Lazy" => o.op # "Done"
  /\ o.op = "DoBindAddAddrUleb" => d >= PtrSize
  /\ o.op = "DoBindUlebTimesSkippingUleb" => o.n > 0 /\ o.m >= 0

\* The listing l is at the address a, has nothing to report and holds the lines ls.
ListedTo(l, a, ls) ==
  l.addrInSeg = a /\ l.overflows = FALSE /\ l.done = FALSE /\ l.lines = ls

\* Within the segment the listing of an opcode moves the address as the opcode
\* moves the cursor.
LEMMA ListOpcodeFollows ==
  ASSUME NEW kind, NEW l \in ListingType, NEW o \in Opcodes, NEW c \in 0..SMax, NEW d \in 0..SMax,
         l.addrInSeg = c, l.overflows = FALSE, l.done = FALSE, MovesWithin(kind, o, c, d)
  PROVE  ListedTo(ListOpcode(kind, l, o), d, l.lines \o LinesFrom(c, d, o))
<1> SUFFICES /\ ListOpcode(kind, l, o).addrInSeg = d /\ ListOpcode(kind, l, o).overflows = FALSE
             /\ ListOpcode(kind, l, o).done = FALSE
             /\ ListOpcode(kind, l, o).lines = l.lines \o LinesFrom(c, d, o)
  BY DEF ListedTo
<1> DEFINE r == ReadBy(l, ReadOpcode(kind, l.info, o))
<1>0. /\ d = Moved(c, o) /\ ReadError(kind, o) = "None"
      /\ kind # "Lazy" => o.op # "Done"
      /\ o.op = "DoBindAddAddrUleb" => d >= PtrSize
      /\ o.op = "DoBindUlebTimesSkippingUleb" => o.n > 0 /\ o.m >= 0
  BY DEF MovesWithin
<1>1. PICK i \in InfoType : i = ReadOpcode(kind, l.info, o) /\ Operands(i, o)
  <2>1. l.info \in InfoType
    BY DEF ListingType
  <2>2. ReadOpcode(kind, l.info, o) \in InfoType
    BY <2>1, ReadOpcodeFields
  <2> QED
    BY <1>0, <2>1, <2>2, ReadsOperands
<1>2. /\ r \in ListingType /\ r.info = i /\ r.lines = l.lines /\ r.addrInSeg = c
      /\ r.overflows = FALSE /\ r.done = FALSE
  BY <1>1, ReadListing
<1>3. ListOpcode(kind, l, o) =
        (CASE o.op = "DoBind" -> ListBind(r, o)
           [] o.op = "DoBindAddAddrUleb" -> ListBindAddAddr(r, o)
           [] o.op = "DoBindAddAddrImmScaled" -> ListBindScaled(r, o)
           [] o.op = "DoBindUlebTimesSkippingUleb" -> ListBindTimes(r, o)
           [] OTHER -> ListSetup(r, o))
  BY <1>0 DEF ListOpcode, ReadBy
<1>4. 0..SMax \subseteq 0..UMax /\ c \in 0..UMax /\ d \in 0..UMax /\ PtrSize \in Nat
  BY Widths
<1>5. /\ LineAt(o, c) \in LineType /\ LineAt(o, d) \in LineType /\ l.lines \in Seq(LineType)
      /\ Line(r, o) = LineAt(o, c)
  BY <1>2, <1>4 DEF LineAt, LineType, ListingType, Line
<1>6. /\ Append(l.lines, LineAt(o, c)) = l.lines \o <<LineAt(o, c)>>
      /\ Append(l.lines, LineAt(o, d)) = l.lines \o <<LineAt(o, d)>>
      /\ Append(Append(l.lines, LineAt(o, c)), LineAt(o, d))
           = l.lines \o <<LineAt(o, c), LineAt(o, d)>>
  BY <1>5, AppendedLines, SMTT(30)
<1> HIDE DEF r
<1>7. CASE o.op = "DoBind"
  <2>1. d = c + PtrSize
    BY <1>0, <1>7 DEF Moved
  <2>2. /\ ListBind(r, o).done = r.done
        /\ ListBind(r, o).lines = Append(r.lines, Line(r, o))
        /\ ListBind(r, o).addrInSeg = r.addrInSeg + PtrSize
        /\ ListBind(r, o).overflows = r.overflows
    BY <1>2, <1>4, <2>1, ListBindFacts
  <2>3. ListOpcode(kind, l, o) = ListBind(r, o) /\ LinesFrom(c, d, o) = <<LineAt(o, c)>>
    BY <1>3, <1>7 DEF LinesFrom
  <2> QED
    BY <1>2, <1>5, <1>6, <2>1, <2>2, <2>3
<1>8. CASE o.op = "DoBindAddAddrUleb"
  <2>1. i.addAddr = o.n /\ d = c + PtrSize + o.n /\ d >= PtrSize /\ i.addAddr \in Int
    BY <1>0, <1>1, <1>8 DEF Operands, Moved, InfoType, Signed
  <2>2. c + i.addAddr \in 0..UMax /\ c + i.addAddr + PtrSize \in 0..UMax
        /\ c + i.addAddr + PtrSize = d
    <3>1. PICK a \in Int : a = i.addAddr /\ a = o.n
      BY <2>1
    <3>2. d = c + PtrSize + a /\ d >= PtrSize
      BY <2>1, <3>1
    <3>3. c + a \in 0..UMax /\ c + a + PtrSize \in 0..UMax /\ c + a + PtrSize = d
      <4>1. c + a + PtrSize = d /\ c + a = d - PtrSize /\ 0 <= c + a /\ c + a <= d
        BY <1>4, <3>2
      <4> QED
        BY <1>4, <4>1, Widths
    <3> QED
      BY <3>1, <3>3
  <2>3. /\ ListBindAddAddr(r, o).done = r.done
        /\ ListBindAddAddr(r, o).lines = Append(r.lines, Line(r, o))
        /\ ListBindAddAddr(r, o).addrInSeg = r.addrInSeg + r.info.addAddr + PtrSize
        /\ ListBindAddAddr(r, o).overflows = r.overflows
    BY <1>2, <2>2, ListBindAddAddrFacts
  <2>4. ListOpcode(kind, l, o) = ListBindAddAddr(r, o) /\ LinesFrom(c, d, o) = <<LineAt(o, c)>>
    BY <1>3, <1>8 DEF LinesFrom
  <2> QED
    BY <1>2, <1>5, <1>6, <2>2, <2>3, <2>4
<1>9. CASE o.op = "DoBindAddAddrImmScaled"
  <2>1. i.skip = o.n /\ d = c + PtrSize + o.n * PtrSize /\ i.skip \in Nat
    BY <1>0, <1>1, <1>4, <1>9, Widths DEF Operands, Moved, InfoType
  <2>2. PICK p \in Nat : p = PtrSize * i.skip /\ p = o.n * PtrSize
    BY <1>4, <2>1, ProductGrows
  <2>3. r.addrInSeg + PtrSize * r.info.skip + PtrSize = d
    BY <1>2, <1>4, <2>1, <2>2
  <2>4. /\ ListBindScaled(r, o).done = r.done
        /\ ListBindScaled(r, o).addrInSeg = d /\ ListBindScaled(r, o).overflows = r.overflows
        /\ ListBindScaled(r, o).lines = Append(Append(r.lines, Line(r, o)), LineAt(o, d))
    BY <1>2, <1>4, <2>3, ListBindScaledFacts
  <2>5. ListOpcode(kind, l, o) = ListBindScaled(r, o)
        /\ LinesFrom(c, d, o) = <<LineAt(o, c), LineAt(o, d)>>
    BY <1>3, <1>9 DEF LinesFrom
  <2> QED
    BY <1>2, <1>5, <1>6, <2>4, <2>5
<1>10. CASE o.op = "DoBindUlebTimesSkippingUleb"
  <2>1. /\ o.n \in 0..UMax /\ o.m \in Signed /\ o.n > 0 /\ o.m >= 0
        /\ i.addAddr = ToSigned(o.n) /\ i.skip = ToUnsigned(o.m)
        /\ d = c + o.n * (PtrSize + o.m)
    BY <1>0, <1>1, <1>10, RunRanges DEF Operands, Moved, StepSize
  <2>2. PICK n \in Nat, s \in Nat : n = o.n /\ n > 0 /\ s = PtrSize + o.m /\ n \in 0..UMax
    BY <1>4, <2>1, Widths DEF Signed
  <2>3. i.skip = o.m
    <3>1. o.m \in 0..UMax
      BY <2>1, Widths DEF Signed
    <3> QED
      BY <2>1, <3>1, UnsignedSame
  <2>4. ToUnsigned(i.addAddr) = n
    BY <2>1, <2>2, SignedBack
  <2>5. n * s \in 0..SMax /\ s * n = n * s /\ s \in 0..SMax /\ d = c + n * s
    <3>1. d = c + n * s
      BY <2>1, <2>2
    <3> QED
      BY <2>2, <3>1, RunFits
  <2>6. r.info.skip + PtrSize = s /\ s * ToUnsigned(r.info.addAddr) = n * s
    <3>1. r.info.skip + PtrSize = s
      BY <1>2, <1>4, <2>1, <2>2, <2>3 DEF Signed
    <3> QED
      BY <1>2, <2>4, <2>5, <3>1
  <2>7. FitsSigned(s) /\ FitsSigned(n * s) /\ r.addrInSeg + n * s \in 0..UMax
    BY <1>2, <1>4, <2>5, Widths DEF FitsSigned
  <2>8. /\ ListBindTimes(r, o).done = r.done
        /\ ListBindTimes(r, o).addrInSeg = r.addrInSeg + n * s
        /\ ListBindTimes(r, o).overflows = r.overflows
        /\ ListBindTimes(r, o).lines = Append(r.lines, Line(r, o))
    <3>1. PICK t : t = n * s
      OBVIOUS
    <3>2. s = r.info.skip + PtrSize /\ t = s * ToUnsigned(r.info.addAddr)
          /\ FitsSigned(s) /\ FitsSigned(t) /\ r.addrInSeg + t \in 0..UMax
      BY <2>6, <2>7, <3>1
    <3>3. /\ ListBindTimes(r, o).done = r.done
          /\ ListBindTimes(r, o).addrInSeg = r.addrInSeg + t
          /\ ListBindTimes(r, o).overflows = r.overflows
          /\ ListBindTimes(r, o).lines = Append(r.lines, Line(r, o))
      BY <1>2, <3>2, ListBindTimesFacts, SMTT(30)
    <3> QED
      BY <3>1, <3>3
  <2>9. ListOpcode(kind, l, o) = ListBindTimes(r, o) /\ LinesFrom(c, d, o) = <<LineAt(o, c)>>
    BY <1>3, <1>10 DEF LinesFrom
  <2> QED
    BY <1>2, <1>5, <1>6, <2>5, <2>8, <2>9
<1>11. CASE o.op \notin RunOps
  <2>1. d = (CASE o.op = "SetSegmentAndOffsetUleb" -> r.info.segOffset
               [] o.op = "AddAddrUleb" -> r.addrInSeg + r.info.addAddr
               [] OTHER -> r.addrInSeg)
    BY <1>0, <1>1, <1>2, <1>11 DEF Operands, Moved, RunOps
  <2>2. /\ ListSetup(r, o).done = r.done
        /\ ListSetup(r, o).addrInSeg = d /\ ListSetup(r, o).overflows = r.overflows
        /\ ListSetup(r, o).lines = Append(r.lines, LineAt(o, d))
    BY <1>2, <1>4, <2>1, ListSetupFacts, ZenonT(60)
  <2>3. ListOpcode(kind, l, o) = ListSetup(r, o) /\ LinesFrom(c, d, o) = <<LineAt(o, d)>>
    BY <1>3, <1>11 DEF LinesFrom, RunOps
  <2> QED
    BY <1>2, <1>6, <2>2, <2>3
<1> QED
  BY <1>7, <1>8, <1>9, <1>10, <1>11 DEF RunOps

\* The first listing is one.
LEMMA InitListingType == InitListing \in ListingType
<1>1. <<>> \in Seq(LineType) /\ 0 \in 0..UMax /\ InitInfo \in InfoType
  BY Widths, InitInfoFits
<1> QED
  BY <1>1 DEF InitListing, ListingType

\* f is the listing of the first opcodes of s, for each number of them up to m.
IsListing(kind, s, m, f) ==
  /\ f \in [0..m -> ListingType] /\ f[0] = InitListing
  /\ \A k \in 1..m : f[k] = ListOpcode(kind, f[k - 1], s[k])

\* The listing of the source is such an f.
LEMMA ListingIsOne ==
  ASSUME NEW kind, NEW s \in Seq(Opcodes), NEW m \in 0..Len(s)
  PROVE  \E f : IsListing(kind, s, m, f) /\ ListingAt(kind, s, m) = f[m]
<1> DEFINE Equation(f) ==
             f = [j \in 0..m |-> IF j = 0 THEN InitListing ELSE ListOpcode(kind, f[j - 1], s[j])]
           step == [q \in ListingType \X (1..m) |-> ListOpcode(kind, q[1], s[q[2]])]
<1>1. Len(s) \in Nat /\ m \in Nat /\ InitListing \in ListingType
  BY InitListingType
<1>2. \A l \in ListingType, k \in 1..m : ListOpcode(kind, l, s[k]) \in ListingType
  <2> SUFFICES ASSUME NEW l \in ListingType, NEW k \in 1..m
               PROVE  ListOpcode(kind, l, s[k]) \in ListingType
    OBVIOUS
  <2>1. s[k] \in Opcodes
    BY <1>1
  <2> QED
    BY <2>1, ListOpcodeType
<1>3. step \in [ListingType \X (1..m) -> ListingType]
      /\ \A l \in ListingType, k \in 1..m : step[<<l, k>>] = ListOpcode(kind, l, s[k])
  BY <1>2
<1> HIDE DEF step
<1>4. PICK f : f \in [0..m -> ListingType] /\ f[0] = InitListing
               /\ \A k \in 1..m : f[k] = step[<<f[k - 1], k>>]
  <2>1. \E f : Ind!IsRecursion(f, ListingType, InitListing, m, step)
    BY <1>1, <1>3, Ind!FunctionByRecursion
  <2> QED
    BY <2>1 DEF Ind!IsRecursion
<1>5. \A k \in 1..m : f[k - 1] \in ListingType /\ f[k] = ListOpcode(kind, f[k - 1], s[k])
  <2> SUFFICES ASSUME NEW k \in 1..m
               PROVE  f[k - 1] \in ListingType /\ f[k] = ListOpcode(kind, f[k - 1], s[k])
    OBVIOUS
  <2>1. k - 1 \in 0..m
    BY <1>1
  <2>2. f[k - 1] \in ListingType
    BY <1>4, <2>1
  <2> QED
    BY <1>3, <1>4, <2>2
<1>6. Equation(f)
  <2>1. \A j \in 0..m : f[j] = IF j = 0 THEN InitListing ELSE ListOpcode(kind, f[j - 1], s[j])
    <3> SUFFICES ASSUME NEW j \in 0..m
                 PROVE  f[j] = IF j = 0 THEN InitListing ELSE ListOpcode(kind, f[j - 1], s[j])
      OBVIOUS
    <3>1. j = 0 \/ (j # 0 /\ j \in 1..m)
      BY <1>1
    <3> QED
      BY <1>4, <1>5, <3>1
  <2> QED
    BY <1>4, <2>1
<1> DEFINE g == CHOOSE f_1 : Equation(f_1)
<1>7. Equation(g)
  BY <1>6
<1>8. ListingAt(kind, s, m) = g[m]
  BY DEF ListingAt
<1>9. \A j \in 0..m : g[j] = IF j = 0 THEN InitListing ELSE ListOpcode(kind, g[j - 1], s[j])
  BY <1>7
<1> HIDE DEF g, Equation
<1>10. \A j \in 0..m : g[j] = f[j]
  <2> DEFINE S == {j \in Nat : j <= m => g[j] = f[j]}
  <2>1. 0 \in S
    <3>1. 0 \in 0..m
      BY <1>1
    <3>2. g[0] = InitListing
      BY <1>9, <3>1, Zenon
    <3> QED
      BY <1>4, <3>2
  <2>2. ASSUME NEW j \in Nat, j \in S PROVE j + 1 \in S
    <3> SUFFICES ASSUME j + 1 <= m PROVE g[j + 1] = f[j + 1]
      OBVIOUS
    <3>1. j + 1 \in 1..m /\ j + 1 \in 0..m /\ (j + 1) - 1 = j /\ j <= m /\ j + 1 # 0
      BY <1>1
    <3>2. g[j] = f[j]
      BY <2>2, <3>1
    <3> QED
      BY <1>5, <1>9, <3>1, <3>2
  <2> HIDE DEF S
  <2>3. Nat \subseteq S
    BY <2>1, <2>2, Ind!SetInduction
  <2> QED
    BY <1>1, <2>3 DEF S
<1>11. m \in 0..m
  BY <1>1
<1> QED
  BY <1>4, <1>5, <1>8, <1>10, <1>11 DEF IsListing

\* A line of the reference, whose address need not fit.
RefLine == [op : {o.op : o \in Opcodes}, addr : Int, overflows : BOOLEAN]

\* The lines of the reference grow with each opcode.
LEMMA LinesGrow ==
  ASSUME NEW s, NEW n, n \in Nat, \A k \in 1..n : s[k] \in Opcodes
  PROVE  /\ LinesTo(s, 0) = <<>>
         /\ \A k \in 1..n : LinesTo(s, k) = LinesTo(s, k - 1) \o LinesOf(s, k)
<1>1. n \in Nat /\ 0 \in 0..n /\ <<>> \in Seq(RefLine)
      /\ \A k \in 1..n : k \in 0..n /\ k - 1 \in 0..n /\ s[k] \in Opcodes
  OBVIOUS
<1>2. ASSUME NEW k \in 1..n PROVE LinesOf(s, k) \in Seq(RefLine)
  <2>1. PICK c \in Int, d \in Int, o \in Opcodes :
          c = CursorAt(s, k - 1) /\ d = CursorAt(s, k) /\ o = s[k]
    BY <1>1, CursorMoves
  <2>2. LineAt(o, c) \in RefLine /\ LineAt(o, d) \in RefLine
    BY DEF LineAt, RefLine
  <2>3. LinesFrom(c, d, o) \in {<<LineAt(o, c), LineAt(o, d)>>, <<LineAt(o, c)>>, <<LineAt(o, d)>>}
    BY DEF LinesFrom
  <2>4. LinesFrom(c, d, o) \in Seq(RefLine)
    <3>1. \A x, y \in RefLine : <<x, y>> \in Seq(RefLine) /\ <<x>> \in Seq(RefLine)
      OBVIOUS
    <3> QED
      BY <2>2, <2>3, <3>1
  <2> QED
    BY <2>1, <2>4, LinesAre
<1>3. PICK step : step \in [Seq(RefLine) \X (1..n) -> Seq(RefLine)] /\
        \A c \in Seq(RefLine), k \in 1..n : step[<<c, k>>] = c \o LinesOf(s, k)
  <2> DEFINE L(k) == LinesOf(s, k)
             step_1 == [q \in Seq(RefLine) \X (1..n) |-> q[1] \o L(q[2])]
  <2>1. \A c \in Seq(RefLine), k \in 1..n : c \o L(k) \in Seq(RefLine)
    BY <1>2
  <2> HIDE DEF L
  <2>2. step_1 \in [Seq(RefLine) \X (1..n) -> Seq(RefLine)]
        /\ \A c \in Seq(RefLine), k \in 1..n : step_1[<<c, k>>] = c \o L(k)
    BY <2>1
  <2> HIDE DEF step_1
  <2> QED
    BY <2>2 DEF L
<1>4. PICK f : Ind!IsRecursion(f, Seq(RefLine), <<>>, n, step)
  BY <1>1, <1>3, Ind!FunctionByRecursion
<1>5. f \in [0..n -> Seq(RefLine)] /\ f[0] = <<>>
      /\ \A k \in 1..n : f[k] = f[k - 1] \o LinesOf(s, k)
  BY <1>1, <1>3, <1>4 DEF Ind!IsRecursion
<1>6. ASSUME NEW m \in 0..n PROVE LinesTo(s, m) = f[m]
  <2> DEFINE L(k) == LinesOf(s, k)
             Equation(h) == h = [j \in 0..m |-> IF j = 0 THEN <<>> ELSE h[j - 1] \o L(j)]
             r == [j \in 0..m |-> f[j]]
  <2>0. m \in 0..m /\ \A j \in 0..m : j \in 0..n /\ (j # 0 => j \in 1..n /\ j - 1 \in 0..m)
    BY <1>1
  <2>01. \A k \in 1..n : f[k] = f[k - 1] \o L(k)
    BY <1>5
  <2>3. PICK g : Equation(g) /\ LinesTo(s, m) = g[m]
    <3> HIDE DEF L
    <3>1. \A j \in 0..m : r[j] = IF j = 0 THEN <<>> ELSE r[j - 1] \o L(j)
      BY <1>5, <2>0, <2>01
    <3>2. Equation(r)
      BY <3>1
    <3> HIDE DEF r
    <3> QED
      BY <3>2 DEF LinesTo, L
  <2> HIDE DEF L
  <2>5. \A j \in 0..m : g[j] = IF j = 0 THEN <<>> ELSE g[j - 1] \o L(j)
    BY <2>3
  <2> HIDE DEF Equation, r
  <2>6. \A j \in 0..m : g[j] = f[j]
    <3> DEFINE S == {j \in Nat : j <= m => g[j] = f[j]}
    <3>1. 0 \in S
      BY <1>1, <1>5, <2>5
    <3>2. ASSUME NEW j \in Nat, j \in S PROVE j + 1 \in S
      <4> SUFFICES ASSUME j + 1 <= m PROVE g[j + 1] = f[j + 1]
        OBVIOUS
      <4>1. j + 1 \in 1..n /\ j + 1 \in 0..m /\ (j + 1) - 1 = j /\ j <= m /\ j + 1 # 0
        BY <1>1
      <4>2. g[j] = f[j]
        BY <3>2, <4>1
      <4> QED
        BY <2>01, <2>5, <4>1, <4>2
    <3> HIDE DEF S
    <3>3. Nat \subseteq S
      BY <3>1, <3>2, Ind!SetInduction
    <3> QED
      BY <1>1, <3>3 DEF S
  <2> QED
    BY <2>0, <2>3, <2>6
<1>7. LinesTo(s, 0) = <<>>
  BY <1>1, <1>5, <1>6
<1>8. \A k \in 1..n : LinesTo(s, k) = LinesTo(s, k - 1) \o LinesOf(s, k)
  BY <1>1, <1>5, <1>6
<1> QED
  BY <1>7, <1>8

\* The listing of opcodes that stay in the segment follows the reference.
LEMMA ListingFollows ==
  ASSUME TypeInv, ListInv, DoneInv
  PROVE  ListingFollowsStream
<1> SUFFICES ASSUME ~atEnd, NoReadErrors(bindKind, stream), WithinSegment(stream)
             PROVE  CollectBindOpcodeList(bindKind, stream) = LinesTo(stream, Len(stream))
  BY DEF ListingFollowsStream
<1>1. PICK s \in Seq(Opcodes), n \in Nat, kind \in BindInfoKinds :
        /\ s = stream /\ n = Len(s) /\ n \in 0..Len(s) /\ kind = bindKind
        /\ \A k \in 1..n : s[k] \in Opcodes
  BY DEF TypeInv
<1>2. \A k \in 1..n : /\ CursorAt(s, k) \in 0..SMax
                      /\ s[k].op = "DoBindAddAddrUleb" => CursorAt(s, k) >= PtrSize
                      /\ s[k].op = "DoBindUlebTimesSkippingUleb" => s[k].n > 0 /\ s[k].m >= 0
                      /\ ReadError(kind, s[k]) = "None"
                      /\ kind # "Lazy" => s[k].op # "Done"
  BY <1>1 DEF WithinSegment, NoReadErrors, DoneInv
<1>3. /\ CursorAt(s, 0) = 0 /\ LinesTo(s, 0) = <<>>
      /\ \A k \in 1..n : CursorAt(s, k) = Moved(CursorAt(s, k - 1), s[k])
      /\ \A k \in 1..n : LinesTo(s, k)
           = LinesTo(s, k - 1) \o LinesFrom(CursorAt(s, k - 1), CursorAt(s, k), s[k])
  <2>1. \A k \in 1..n : LinesTo(s, k) = LinesTo(s, k - 1) \o LinesOf(s, k)
    BY <1>1, LinesGrow
  <2> QED
    BY <1>1, <2>1, CursorMoves, LinesGrow, LinesAre
<1>4. PICK f : IsListing(kind, s, n, f) /\ ListingAt(kind, s, n) = f[n]
  BY <1>1, ListingIsOne
<1> DEFINE Right(k) ==
             /\ f[k].addrInSeg = CursorAt(s, k) /\ CursorAt(s, k) \in 0..SMax
             /\ f[k].overflows = FALSE /\ f[k].done = FALSE /\ f[k].lines = LinesTo(s, k)
           S == {k \in Nat : k <= n => Right(k)}
<1>5. 0 \in S
  <2>1. f[0] = InitListing
    BY <1>4 DEF IsListing
  <2>2. Right(0)
    BY <1>3, <2>1, Widths DEF InitListing
  <2> HIDE DEF Right
  <2> QED
    BY <2>2
<1>6. ASSUME NEW k \in Nat, k \in S PROVE k + 1 \in S
  <2> SUFFICES ASSUME k + 1 <= n PROVE Right(k + 1)
    <3>1. k + 1 \in Nat
      OBVIOUS
    <3> HIDE DEF Right
    <3> QED
      BY <3>1 DEF S
  <2>1. k + 1 \in 1..n /\ (k + 1) - 1 = k /\ k <= n /\ k \in 0..n
    BY <1>1
  <2>2. Right(k)
    BY <1>6, <2>1
  <2>3. PICK c \in 0..SMax, d \in 0..SMax, o \in Opcodes :
          c = CursorAt(s, k) /\ d = CursorAt(s, k + 1) /\ o = s[k + 1]
    BY <1>1, <1>2, <2>1, <2>2
  <2>4. d = Moved(c, o) /\ LinesTo(s, k + 1) = LinesTo(s, k) \o LinesFrom(c, d, o)
    BY <1>3, <2>1, <2>3
  <2>5. MovesWithin(kind, o, c, d)
    BY <1>2, <2>1, <2>3, <2>4 DEF MovesWithin
  <2>6. PICK l \in ListingType : l = f[k] /\ f[k + 1] = ListOpcode(kind, l, o)
    BY <1>4, <2>1, <2>3 DEF IsListing
  <2>7. l.addrInSeg = c /\ l.overflows = FALSE /\ l.done = FALSE /\ l.lines = LinesTo(s, k)
    BY <2>2, <2>3, <2>6
  <2>8. /\ f[k + 1].addrInSeg = d /\ f[k + 1].overflows = FALSE /\ f[k + 1].done = FALSE
        /\ f[k + 1].lines = l.lines \o LinesFrom(c, d, o)
    <3>1. l.addrInSeg = c /\ l.overflows = FALSE /\ l.done = FALSE
      BY <2>7
    <3>2. ListedTo(ListOpcode(kind, l, o), d, l.lines \o LinesFrom(c, d, o))
      BY <2>5, <3>1, ListOpcodeFollows
    <3> QED
      BY <2>6, <3>2 DEF ListedTo
  <2> QED
    BY <2>3, <2>4, <2>7, <2>8
<1> HIDE DEF S
<1>7. Nat \subseteq S
  BY <1>5, <1>6, Ind!SetInduction
<1>8. Right(n)
  <2>1. n \in S /\ n <= n
    BY <1>7
  <2> HIDE DEF Right
  <2> QED
    BY <2>1 DEF S
<1>9. CollectBindOpcodeList(kind, s) = f[n].lines
  BY <1>1, <1>4 DEF CollectBindOpcodeList
<1> QED
  BY <1>1, <1>8, <1>9

\* The iterator's address, the list of actions and the listing of opcodes are where
\* the opcodes lead, as long as these stay in the segment and none is reached
\* astray; of the locations a run binds only its last one is missing.
THEOREM BindAddressesAreFollowed == Spec => []AddressesFollowStream
<1>1. TypeInv /\ CurrentInv /\ ListInv /\ AddressInv => AddressesFollowStream
  <2> SUFFICES ASSUME TypeInv, CurrentInv, ListInv, AddressInv PROVE AddressesFollowStream
    OBVIOUS
  <2>1. CursorFollowsStream
    BY InvFollowsCursor
  <2>2. ListedInOrder
    BY InvListsInOrder
  <2>3. ListingFollowsStream
    BY ListingFollows DEF AddressInv
  <2> QED
    BY <2>1, <2>2, <2>3 DEF AddressesFollowStream
<1> QED
  BY <1>1, IteratorInvariant, AddressInvHolds, PTL

(***************************************************************************)
(* The collection of the binds of all lists                                *)
(***************************************************************************)

ActionType ==
  [kind : BindInfoKinds, writeKind : Nat, addend : Int, dylibOrdinal : 0..(4 * TopBit - 1),
   segmentIndex : Int, segmentOffset : Int, addrInSeg : 0..UMax, flags : Int,
   address : 0..UMax, symbol : Symbols \cup {NoString, NoSymbol},
   means : Symbols \cup {NoString}]

\* SegmentIndex and SegmentAddress are those of a segment, or of none.
SegmentTracked(index, addr) ==
  \/ index = NoSegment /\ addr = 0
  \/ index \in DOMAIN SegmentBase /\ addr \in 0..UMax

\* An action has its name, or leaves it to an earlier one; no two have one address.
CollectedInv ==
  /\ outcome \in {"collecting", "parseError", "multiple", "undefined", "parsed"}
  /\ remaining \in SUBSET BindInfoKinds
  /\ SegmentTracked(segIndex, segAddr)
  /\ newSymbol \in BOOLEAN
  /\ actions \in Seq(ActionType)
  /\ \A i \in 1..Len(actions) : actions[i].symbol \in {actions[i].means, NoSymbol}
  /\ \A i, j \in 1..Len(actions) : actions[i].address = actions[j].address => i = j

\* While a list is walked, an action that needs no name of its own comes after
\* one of the list with its name.
NameIsCollected ==
  outcome = "collecting" /\ Going =>
    \/ IsNew
    \/ pc = "advance" /\ Byte.op = "SetSymbolTrailingFlagsImm" /\ info.error = "None"
    \/ /\ actions # <<>>
       /\ actions[Len(actions)].kind = bindKind
       /\ actions[Len(actions)].means = info.symbolName

CollectionInv == TypeInv /\ CurrentInv /\ CollectedInv

\* What a step on a yielded action does to the iterator and the segment.
Consumes ==
  /\ Yielded /\ SegmentIsKnown /\ Resume
  /\ segIndex' = info.segmentIndex /\ segAddr' = SegmentAddress
  /\ UNCHANGED <<remaining, range, outcome>>

LEMMA NewActionFits ==
  ASSUME CollectionInv, SegmentIsKnown
  PROVE  /\ SegmentAddress \in 0..UMax /\ FullAddr \in 0..UMax
         /\ SegmentTracked(info.segmentIndex, SegmentAddress)
         /\ NewActionFor(IsNew) \in ActionType
         /\ NewActionFor(IsNew).address = FullAddr /\ NewActionFor(IsNew).kind = bindKind
         /\ NewActionFor(IsNew).means = info.symbolName
         /\ NewActionFor(IsNew).symbol = IF IsNew THEN info.symbolName ELSE NoSymbol
<1>0. info \in InfoType /\ stream \in Seq(Opcodes) /\ bindKind \in BindInfoKinds
  BY DEF CollectionInv, TypeInv
<1>1. /\ SegmentAddress \in 0..UMax
      /\ SegmentTracked(info.segmentIndex, SegmentAddress)
  <2>1. /\ NoSegment \notin DOMAIN SegmentBase /\ 0 \in 0..UMax
        /\ \A segment \in DOMAIN SegmentBase : SegmentBase[segment] \in 0..UMax
    BY ImageAssumption, Widths DEF SegmentBase, Extents, NoSegment
  <2> HIDE DEF SegmentBase
  <2> QED
    BY <2>1 DEF CollectionInv, CollectedInv, SegmentIsKnown, SegmentAddress, SegmentTracked
<1>2. FullAddr \in 0..UMax
  <2>1. SegmentAddress + info.addrInSeg \in Int
    BY <1>0, <1>1, Widths DEF InfoType
  <2> QED
    BY <2>1, UnsignedFits DEF FullAddr
<1>3. Ordinal32(info.dylibOrdinal) \in 0..(4 * TopBit - 1)
  BY <1>0, Widths, SMTT(30) DEF InfoType, Ordinal32
<1>4. Len(stream) - 1 \in Int
  BY <1>0
<1> HIDE DEF FullAddr
<1>5. NewActionFor(IsNew) \in ActionType
  BY <1>0, <1>2, <1>3, <1>4 DEF NewActionFor, ActionType, InfoType
<1> QED
  BY <1>1, <1>2, <1>5 DEF NewActionFor

\* What inserting an action does to the actions.
LEMMA InsertFields ==
  ASSUME CollectionInv, InsertAction
  PROVE  /\ Consumes /\ newSymbol' = FALSE
         /\ Len(actions) \in Nat /\ Len(actions') = Len(actions) + 1 /\ actions' # <<>>
         /\ actions' \in Seq(ActionType)
         /\ actions'[Len(actions')] = NewActionFor(IsNew)
         /\ \A i \in 1..Len(actions) : actions'[i] = actions[i]
         /\ \A i \in 1..Len(actions) : actions[i].address # FullAddr
<1>1. /\ Consumes /\ newSymbol' = FALSE /\ AtAddress(FullAddr) = {}
      /\ actions' = Append(actions, NewActionFor(IsNew))
  BY DEF InsertAction, Consumes
<1>2. NewActionFor(IsNew) \in ActionType /\ actions \in Seq(ActionType)
  BY <1>1, NewActionFits DEF Consumes, CollectionInv, CollectedInv
<1>3. ASSUME NEW i \in 1..Len(actions), actions[i].address = FullAddr PROVE FALSE
  <2>1. actions[i] \in ToSet(actions)
    BY <1>2 DEF ToSet
  <2> QED
    BY <1>1, <1>3, <2>1 DEF AtAddress
<1>4. /\ Len(actions) \in Nat /\ Len(actions') = Len(actions) + 1
      /\ actions' \in Seq(ActionType)
      /\ actions'[Len(actions')] = NewActionFor(IsNew)
      /\ \A i \in 1..Len(actions) : actions'[i] = actions[i]
  BY <1>1, <1>2
<1>5. actions' # <<>>
  BY <1>4
<1> QED
  BY <1>1, <1>3, <1>4, <1>5

LEMMA CollectionInit == ParseInit => CollectionInv /\ NameIsCollected /\ NamelessFollowNamed
<1> SUFFICES ASSUME ParseInit PROVE CollectionInv /\ NameIsCollected /\ NamelessFollowNamed
  OBVIOUS
<1>1. TypeInv /\ CurrentInv
  BY InitKeepsIterator DEF ParseInit
<1>2. /\ actions = <<>> /\ remaining \in SUBSET BindInfoKinds /\ segIndex = NoSegment /\ segAddr = 0
      /\ newSymbol = TRUE /\ outcome = "collecting" /\ pc = "end"
  BY DEF ParseInit, InitIterator
<1>3. actions \in Seq(ActionType) /\ Len(actions) = 0
  BY <1>2
<1>4. CollectedInv
  <2>1. \A i \in 1..Len(actions) : FALSE
    BY <1>3
  <2> QED
    BY <1>2, <1>3, <2>1 DEF CollectedInv, SegmentTracked
<1> QED
  BY <1>1, <1>2, <1>3, <1>4 DEF CollectionInv, NameIsCollected, Going, NamelessFollowNamed

\* Which opcode is current when the name changes.
LEMMA NameLearnt ==
  ASSUME NEW s \in Seq(Opcodes), NEW i, NEW new, NEW forgets, ReadsAfter(s, i, new, forgets),
         ~atEnd'
  PROVE  \/ info'.symbolName = i.symbolName
         \/ Byte'.op = "SetSymbolTrailingFlagsImm" /\ info'.error = "None"
<1>1. SUFFICES ASSUME info'.symbolName # i.symbolName
               PROVE  Byte'.op = "SetSymbolTrailingFlagsImm" /\ info'.error = "None"
  OBVIOUS
<1>2. Learns(bindKind', i, Byte', info')
      /\ info'.error = IF forgets THEN "None" ELSE ReadError(bindKind', Byte')
  BY ReadsAfterFields
<1>3. Sets(bindKind', Byte', {"SetSymbolTrailingFlagsImm"})
  BY <1>1, <1>2 DEF Learns, Learnt
<1> QED
  BY <1>2, <1>3 DEF Sets

LEMMA NextListStep ==
  ASSUME CollectionInv, NextList
  PROVE  CollectionInv' /\ NameIsCollected'
<1>1. PICK kind \in remaining : Open(kind)
  BY DEF NextList
<1>2. kind \in BindInfoKinds
  BY DEF CollectionInv, CollectedInv
<1>3. TypeInv' /\ CurrentInv'
  BY <1>1, <1>2, OpenKeepsIterator
<1>4. /\ remaining' \in SUBSET remaining /\ newSymbol' = TRUE
      /\ segIndex' = NoSegment /\ segAddr' = 0 /\ UNCHANGED <<range, actions, outcome>>
  BY DEF NextList
<1>5. CollectedInv'
  <2>1. remaining' \in SUBSET BindInfoKinds
    BY <1>4 DEF CollectionInv, CollectedInv
  <2> QED
    BY <1>4, <2>1 DEF CollectionInv, CollectedInv, SegmentTracked
<1> QED
  BY <1>3, <1>4, <1>5 DEF CollectionInv, NameIsCollected, IsNew

LEMMA AdvanceListStep ==
  ASSUME CollectionInv, NameIsCollected, AdvanceList
  PROVE  CollectionInv' /\ NameIsCollected'
<1>1. Advance /\ UNCHANGED collectorVars /\ outcome = "collecting"
  BY DEF AdvanceList
<1>2. TypeInv' /\ CurrentInv'
  BY <1>1, AdvanceKeepsIterator DEF CollectionInv
<1>3. CollectedInv'
  BY <1>1 DEF CollectionInv, CollectedInv, collectorVars
<1>4. /\ UNCHANGED <<actions, newSymbol>> /\ (Moves \/ Yields \/ Ends)
  BY <1>1, AdvanceStep DEF collectorVars, CollectionInv
<1>5. CASE Moves
  <2>1. PICK i \in InfoType :
          /\ KnowsAs(i, info)
          /\ i.newSymbolName = (info.newSymbolName \/ Byte.op = "SetSymbolTrailingFlagsImm")
          /\ NextOpcode(i)
    BY <1>5 DEF Moves
  <2>2. bindKind' = bindKind /\ Going /\ pc' = "advance" /\ stream \in Seq(Opcodes)
    BY <1>5 DEF Moves, Going, CollectionInv, TypeInv
  <2>3. ReadsAfter(stream, i, i.newSymbolName, FALSE)
    BY <2>1, <2>2, NextOpcodeReads DEF CollectionInv, Reads
  <2>4. ~atEnd' => \/ info'.symbolName = info.symbolName
                   \/ Byte'.op = "SetSymbolTrailingFlagsImm" /\ info'.error = "None"
    BY <2>1, <2>2, <2>3, NameLearnt DEF KnowsAs
  <2>5. info'.newSymbolName = (info.newSymbolName \/ Byte.op = "SetSymbolTrailingFlagsImm")
    BY <2>1, <2>3 DEF ReadsAfter
  <2> QED
    BY <1>1, <1>2, <1>3, <1>4, <2>2, <2>4, <2>5 DEF CollectionInv, NameIsCollected, Going, IsNew
<1>6. CASE Yields
  <2>1. Going /\ bindKind' = bindKind /\ info'.symbolName = info.symbolName
        /\ info'.newSymbolName = info.newSymbolName
        /\ (Byte.op = "SetSymbolTrailingFlagsImm" => info.error # "None")
    BY <1>6 DEF Yields, Going, KnowsAs
  <2> QED
    BY <1>1, <1>2, <1>3, <1>4, <2>1 DEF CollectionInv, NameIsCollected, Going, IsNew
<1>7. CASE Ends
  BY <1>2, <1>3, <1>7 DEF Ends, CollectionInv, NameIsCollected, Going
<1> QED
  BY <1>4, <1>5, <1>6, <1>7

\* The name after a step on a yielded action.
LEMMA ConsumedName ==
  ASSUME CollectionInv, Consumes
  PROVE  /\ TypeInv' /\ CurrentInv' /\ bindKind' = bindKind
         /\ pc = "yielded" /\ Going /\ outcome = "collecting" /\ outcome' = outcome
         /\ Going' => \/ info'.symbolName = info.symbolName
                      \/ /\ pc' = "advance" /\ Byte'.op = "SetSymbolTrailingFlagsImm"
                         /\ info'.error = "None"
<1>1. /\ pc = "yielded" /\ Resume /\ outcome = "collecting" /\ outcome' = outcome
      /\ bindKind' = bindKind /\ pc' = "advance" /\ ~atEnd
  BY DEF Consumes, Yielded, Resume, CollectionInv, CurrentInv
<1>2. TypeInv' /\ CurrentInv'
  BY <1>1, ResumeKeepsIterator DEF CollectionInv
<1>3. CASE info.error = "None"
  BY <1>1, <1>2, <1>3, BeginAdvanceFields DEF Resume, CollectionInv, TypeInv, Going, KnowsAs
<1>4. CASE info.error # "None"
  <2>1. ReadsAfter(stream, info, FALSE, TRUE) /\ stream \in Seq(Opcodes)
    BY <1>1, <1>4, ResumeReads DEF CollectionInv, TypeInv, Reads
  <2> QED
    BY <1>1, <1>2, <2>1, NameLearnt DEF Going
<1> QED
  BY <1>3, <1>4

LEMMA SkipActionStep ==
  ASSUME CollectionInv, NameIsCollected, SkipAction
  PROVE  CollectionInv' /\ NameIsCollected'
<1>1. Consumes /\ newSymbol' = IsNew /\ actions' = actions
  BY DEF SkipAction, Consumes
<1>2. CollectedInv'
  <2>1. IsNew \in BOOLEAN
    BY DEF IsNew, CollectionInv, CollectedInv, TypeInv, InfoType
  <2>2. SegmentTracked(segIndex', segAddr')
    BY <1>1, NewActionFits DEF Consumes
  <2> QED
    BY <1>1, <2>1, <2>2 DEF Consumes, CollectionInv, CollectedInv
<1>3. CollectionInv'
  BY <1>1, <1>2, ConsumedName DEF CollectionInv
<1>4. pc = "yielded"
  BY <1>1, ConsumedName
<1>5. NameIsCollected'
  BY <1>1, <1>4, ConsumedName DEF NameIsCollected, IsNew
<1> QED
  BY <1>3, <1>5

LEMMA InsertActionStep ==
  ASSUME CollectionInv, NameIsCollected, NamelessFollowNamed, InsertAction
  PROVE  CollectionInv' /\ NameIsCollected' /\ NamelessFollowNamed'
<1> DEFINE new == NewActionFor(IsNew)
           n == Len(actions)
<1>0. /\ Consumes /\ newSymbol' = FALSE /\ n \in Nat /\ Len(actions') = n + 1 /\ actions' # <<>>
      /\ actions' \in Seq(ActionType) /\ actions'[n + 1] = new
      /\ \A i \in 1..n : actions'[i] = actions[i]
      /\ \A i \in 1..n : actions[i].address # FullAddr
  BY InsertFields
<1>1. /\ new.address = FullAddr /\ new.kind = bindKind /\ new.means = info.symbolName
      /\ new.symbol = IF IsNew THEN info.symbolName ELSE NoSymbol
      /\ SegmentTracked(segIndex', segAddr')
  BY <1>0, NewActionFits DEF Consumes
<1> HIDE DEF new, n
<1>2. CollectedInv'
  <2>1. \A i, j \in 1..(n + 1) : actions'[i].address = actions'[j].address => i = j
    BY <1>0, <1>1 DEF CollectionInv, CollectedInv, n
  <2>2. \A i \in 1..(n + 1) : actions'[i].symbol \in {actions'[i].means, NoSymbol}
    BY <1>0, <1>1 DEF CollectionInv, CollectedInv, n
  <2> QED
    BY <1>0, <1>1, <2>1, <2>2 DEF Consumes, CollectionInv, CollectedInv
<1>3. CollectionInv'
  BY <1>0, <1>2, ConsumedName DEF CollectionInv
<1>4. NameIsCollected'
  BY <1>0, <1>1, ConsumedName DEF NameIsCollected
<1>5. NamelessFollowNamed'
  <2> DEFINE Heads(i) == \E j \in 1..i :
               /\ actions'[j].kind = actions'[i].kind /\ actions'[j].symbol = actions'[i].means
               /\ \A k \in j..i : actions'[k].means = actions'[i].means
  <2>1. info.symbolName # NoSymbol
    <3>1. info.symbolName \in Symbols \cup {NoString}
      BY DEF CollectionInv, TypeInv, InfoType
    <3> QED
      BY <3>1, NoSymbolAssumption DEF NoSymbol, NoString
  <2>2. ASSUME NEW i \in 1..n PROVE Heads(i)
    <3>0. actions'[i] = actions[i] /\ \A k \in 1..i : actions'[k] = actions[k]
      BY <1>0, <2>2
    <3>1. CASE actions[i].symbol = NoSymbol
      <4>1. PICK j \in 1..(i - 1) :
              /\ actions[j].kind = actions[i].kind /\ actions[j].symbol = actions[i].means
              /\ \A k \in j..i : actions[k].means = actions[i].means
        BY <3>1 DEF NamelessFollowNamed, n
      <4>2. j \in 1..i /\ \A k \in j..i : k \in 1..i
        BY <1>0
      <4> QED
        BY <3>0, <4>1, <4>2
    <3>2. CASE actions[i].symbol # NoSymbol
      <4>1. actions[i].symbol = actions[i].means
        BY <3>2 DEF CollectionInv, CollectedInv, n
      <4>2. i \in 1..i /\ i..i = {i}
        BY <1>0
      <4> QED
        BY <3>0, <4>1, <4>2
    <3> QED
      BY <3>1, <3>2
  <2>3. CASE ~IsNew
    <3>1. n \in 1..n /\ actions[n].kind = bindKind /\ actions[n].means = info.symbolName
      BY <1>0, <2>3, ConsumedName DEF NameIsCollected, n, CollectionInv, CollectedInv
    <3>2. PICK j \in 1..n :
            /\ actions'[j].kind = actions'[n].kind /\ actions'[j].symbol = actions'[n].means
            /\ \A k \in j..n : actions'[k].means = actions'[n].means
      BY <2>2, <3>1
    <3>3. \A k \in j..(n + 1) : k \in j..n \/ k = n + 1
      BY <1>0
    <3>4. j \in 1..((n + 1) - 1)
      BY <1>0
    <3>5. /\ actions'[j].kind = new.kind /\ actions'[j].symbol = new.means
          /\ \A k \in j..(n + 1) : actions'[k].means = new.means
      BY <1>0, <1>1, <3>1, <3>2, <3>3
    <3> HIDE DEF Heads
    <3>6. ASSUME NEW i \in 1..(n + 1), actions'[i].symbol = NoSymbol
          PROVE  \E m \in 1..(i - 1) :
                   /\ actions'[m].kind = actions'[i].kind
                   /\ actions'[m].symbol = actions'[i].means
                   /\ \A k \in m..i : actions'[k].means = actions'[i].means
      <4>1. CASE i = n + 1
        BY <1>0, <3>4, <3>5, <4>1
      <4>2. CASE i # n + 1
        <5>1. i \in 1..n
          BY <1>0, <4>2
        <5> QED
          BY <1>0, <3>6, <5>1, SMTT(30) DEF NamelessFollowNamed, n
      <4> QED
        BY <4>1, <4>2
    <3> QED
      BY <1>0, <3>6 DEF NamelessFollowNamed
  <2>4. CASE IsNew
    <3>1. ASSUME NEW i \in 1..(n + 1), actions'[i].symbol = NoSymbol
          PROVE  i \in 1..n
      BY <1>0, <1>1, <2>1, <2>4, <3>1
    <3> HIDE DEF Heads
    <3>2. ASSUME NEW i \in 1..n, actions'[i].symbol = NoSymbol
          PROVE  \E m \in 1..(i - 1) :
                   /\ actions'[m].kind = actions'[i].kind
                   /\ actions'[m].symbol = actions'[i].means
                   /\ \A k \in m..i : actions'[k].means = actions'[i].means
      BY <1>0, <3>2 DEF NamelessFollowNamed, n
    <3> QED
      BY <1>0, <3>1, <3>2 DEF NamelessFollowNamed
  <2> QED
    BY <2>3, <2>4
<1> QED
  BY <1>3, <1>4, <1>5

LEMMA CollectionStep ==
  ASSUME CollectionInv, NameIsCollected, NamelessFollowNamed, [ParseNext]_parseVars
  PROVE  CollectionInv' /\ NameIsCollected' /\ NamelessFollowNamed'
<1>1. CASE NextList \/ AdvanceList \/ SkipAction
  <2>1. actions' = actions
    BY <1>1 DEF NextList, AdvanceList, collectorVars, SkipAction
  <2>2. NamelessFollowNamed'
    BY <2>1 DEF NamelessFollowNamed
  <2> QED
    BY <1>1, <2>2, NextListStep, AdvanceListStep, SkipActionStep
<1>2. CASE InsertAction
  BY <1>2, InsertActionStep
<1>3. CASE StopParse \/ RejectAction \/ Parsed
  <2>1. /\ outcome' \in {"parseError", "multiple", "undefined", "parsed"}
        /\ UNCHANGED <<iteratorVars, remaining, range, actions, segIndex, segAddr, newSymbol>>
    BY <1>3 DEF StopParse, RejectAction, Parsed
  <2>2. TypeInv' /\ CurrentInv'
    BY <2>1 DEF CollectionInv, iteratorVars, TypeInv, WorkTypes, CurrentInv, Byte
  <2>3. CollectedInv'
    BY <2>1 DEF CollectionInv, CollectedInv
  <2> QED
    BY <2>1, <2>2, <2>3 DEF CollectionInv, NameIsCollected, NamelessFollowNamed
<1>4. CASE UNCHANGED parseVars
  <2>1. UNCHANGED <<iteratorVars, remaining, range, actions, segIndex, segAddr, newSymbol, outcome>>
    BY <1>4 DEF parseVars, collectorVars
  <2>2. TypeInv' /\ CurrentInv'
    BY <2>1 DEF CollectionInv, iteratorVars, TypeInv, WorkTypes, CurrentInv, Byte
  <2>3. CollectedInv'
    BY <2>1 DEF CollectionInv, CollectedInv
  <2>4. NameIsCollected'
    BY <2>1 DEF NameIsCollected, iteratorVars, Going, IsNew, Byte
  <2> QED
    BY <2>1, <2>2, <2>3, <2>4 DEF CollectionInv, NamelessFollowNamed
<1> QED
  BY <1>1, <1>2, <1>3, <1>4 DEF ParseNext, ParseStep, ParseFinished

LEMMA CollectionInvHolds == ParseSpec => [](CollectionInv /\ NameIsCollected /\ NamelessFollowNamed)
<1>1. CollectionInv /\ NameIsCollected /\ NamelessFollowNamed /\ [ParseNext]_parseVars
        => CollectionInv' /\ NameIsCollected' /\ NamelessFollowNamed'
  BY CollectionStep
<1> QED
  BY <1>1, CollectionInit, PTL DEF ParseSpec

LEMMA CollectedFits == CollectionInv => CollectionTypeOK
<1> SUFFICES ASSUME CollectionInv PROVE CollectionTypeOK
  OBVIOUS
<1>1. ASSUME NEW a \in ToSet(actions)
      PROVE  /\ FitsUnsigned(a.address) /\ FitsUnsigned(a.addrInSeg)
             /\ a.dylibOrdinal \in 0..(4 * TopBit - 1)
  <2>1. a \in ActionType
    BY DEF CollectionInv, CollectedInv, ToSet
  <2> QED
    BY <2>1, Widths DEF ActionType, FitsUnsigned
<1> QED
  BY <1>1 DEF CollectionInv, CollectedInv, CollectionTypeOK, SegmentTracked

\* CollectionTypeOK, the first part of CollectedExactly: the map has one action for
\* an address, and every number in it fits the field it is stored in.
THEOREM CollectedActionsFit == ParseSpec => []CollectionTypeOK
BY CollectionInvHolds, CollectedFits, PTL

\* NamelessFollowNamed: an action that was put in the map without its name comes
\* after one of the same list that has it, with none of another name in between.
THEOREM NamelessBindsHaveAName == ParseSpec => []NamelessFollowNamed
BY CollectionInvHolds, PTL

=============================================================================

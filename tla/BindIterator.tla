---------------------------- MODULE BindIterator ----------------------------
(***************************************************************************)
(* BindActionIteratorBase of include/ADT/Mach-O/BindInfo.h, over a stream  *)
(* of opcodes that is not fixed in advance: each time the opcode iterator  *)
(* advances it reads some opcode or finds the end, and stream records what *)
(* it read.                                                                *)
(*                                                                         *)
(* Advance runs while pc = "advance" and yields an action with pc =        *)
(* "yielded"; whoever goes through the list then calls Resume, the         *)
(* iterator's operator++.  The modules that extend this one are callers.   *)
(***************************************************************************)
EXTENDS BindOpcodes, FiniteSets

R == INSTANCE Ranges

CONSTANTS
    Prologues,      \* for each kind of list, the beginnings a stream may have
    MaxOpcodes,     \* bound on the opcodes after the beginning
    Image           \* SegmentInfoCollection: by index, the memory of each segment
                    \* and of its sections

Extents == [begin : 0..UMax, size : 0..UMax]

ASSUME ImageAssumption ==
    /\ DOMAIN Image \subseteq Nat
    /\ \A segment \in DOMAIN Image :
            /\ Image[segment].mem \in Extents
            /\ Image[segment].sections \subseteq Extents

VARIABLES
    bindKind,       \* the template parameter BindKind
    pc,             \* "advance", "yielded" or "end"
    stream,         \* the opcodes read so far; the last one is the current one
    reachedEnd,     \* BindOpcodeIteratorBase::ReachedEnd
    atEnd,          \* BindOpcodeIteratorBase::isAtEnd()
    info,           \* BindActionIterateInfo
    table,          \* ThreadedDataTable: how many entries it has, and may have
    last,           \* the opcode of LastByte
    segAdd,         \* SegAddAddress
    addAmt,         \* AddAmt
    count           \* Count

iteratorVars == <<bindKind, pc, stream, reachedEnd, atEnd, info, table, last,
                  segAdd, addAmt, count>>

Byte == stream[Len(stream)]

\* LastByte is set to this opcode to say that there is nothing to resume.
NoneLeft == "SetDylibOrdinalImm"

\* o may follow the opcodes of s.
MayFollow(kind, s, o) ==
    \E p \in Prologues[kind] :
        \/ Len(s) < Len(p) /\ IsPrefix(s, p) /\ o = p[Len(s) + 1]
        \/ IsPrefix(p, s) /\ Len(s) < Len(p) + MaxOpcodes

\* CheckSizeRange refuses a list of no bytes, and a stream that has not got
\* through one of its beginnings is not one of those considered.
MayEnd(kind, s) == \E p \in Prologues[kind] : IsPrefix(p, s)

\* The opcode iterator at the end of its list, whose last byte it has passed.
AtLastByte(kind, s, i) ==
    /\ MayEnd(kind, s)
    /\ stream' = s
    /\ reachedEnd' = TRUE
    /\ atEnd' = TRUE
    /\ info' = i

HasOperand(kind, o) ==
    /\ o.valid /\ ~Illegal(kind, o)
    /\ \/ o.op \in UlebOpcodes \cup {"SetSymbolTrailingFlagsImm"}
       \/ o.op = "Threaded" /\ o.m = SetTableSize

\* SegmentInfoCollection::at ends the program for an index that is not one of its
\* segments, so streams that apply threaded binds there are left out.
HasSegment(i, o) ==
    o.op = "Threaded" /\ o.m = ThreadedApply => i.segmentIndex \in DOMAIN Image

\* It reads o.  In a lazy list DONE is not the end; but an opcode after DONE
\* whose operand ends the list is taken for the end before it is looked at.
AtOpcode(kind, s, reached, o, i) ==
    /\ MayFollow(kind, s, o) /\ HasSegment(i, o)
    /\ stream' = Append(s, o)
    /\ reachedEnd' = (reached \/ o.op = "Done")
    /\ IF kind = "Lazy"
       THEN /\ atEnd' \in BOOLEAN
            /\ atEnd' => reachedEnd' /\ HasOperand(kind, o)
       ELSE atEnd' = reachedEnd'
    /\ info' = i

\* Iter++ on an iterator whose info is i.
NextOpcode(i) ==
    \/ AtLastByte(bindKind, stream, [i EXCEPT !.error = "None"])
    \/ \E o \in Opcodes :
            AtOpcode(bindKind, stream, reachedEnd, o, ReadOpcode(bindKind, i, o))

\* Mutant: NewSymbolName is not cleared.
BeginAdvance_KeepsNewSymbol(i) == [i EXCEPT !.error = "None"]

\* What Advance() clears before it does anything else.
BeginAdvance(i) == [i EXCEPT !.error = "None", !.newSymbolName = FALSE]

InitIterator ==
    /\ bindKind = "Normal" /\ pc = "end"
    /\ stream = <<>> /\ reachedEnd = FALSE /\ atEnd = FALSE /\ info = InitInfo
    /\ table = [cap |-> 0, size |-> 0]
    /\ last = NoneLeft
    /\ segAdd = 0 /\ addAmt = 0 /\ count = 0

\* The constructor reads the first opcode, whose error the first Advance()
\* clears.
Open(kind) ==
    /\ pc = "end"
    /\ bindKind' = kind
    /\ pc' = "advance"
    /\ table' = [cap |-> 0, size |-> 0]
    /\ last' = NoneLeft
    /\ segAdd' = 0 /\ addAmt' = 0 /\ count' = 0
    /\ \/ AtLastByte(kind, <<>>, InitInfo)
       \/ \E o \in Opcodes :
            AtOpcode(kind, <<>>, FALSE, o, BeginAdvance(ReadOpcode(kind, InitInfo, o)))

\* return Error from Advance()
Yield(error) ==
    /\ info' = [info EXCEPT !.error = error]
    /\ pc' = "yielded"

-----------------------------------------------------------------------------
(* Advance(), the switch over LastByte *)

\* Mutant: the end of a run adds the amount once.
RepeatBind_EndAddsOnce ==
    /\ pc = "advance" /\ last = "DoBindUlebTimesSkippingUleb" /\ count # 0
    /\ count' = count - 1
    /\ LET once == [info EXCEPT !.addrInSeg = ToUnsigned(@ + addAmt)]
       IN IF count' # 0
          THEN /\ info' = once
               /\ pc' = "yielded"
               /\ UNCHANGED <<stream, reachedEnd, atEnd, last>>
          ELSE /\ last' = NoneLeft
               /\ NextOpcode(once)
               /\ UNCHANGED pc
    /\ UNCHANGED <<bindKind, table, segAdd, addAmt>>

\* Mutant: the actions of a run are all at its first address.
RepeatBind_Stays ==
    /\ pc = "advance" /\ last = "DoBindUlebTimesSkippingUleb" /\ count # 0
    /\ count' = count - 1
    /\ IF count' # 0
       THEN /\ info' = info
            /\ pc' = "yielded"
            /\ UNCHANGED <<stream, reachedEnd, atEnd, last>>
       ELSE /\ last' = NoneLeft
            /\ NextOpcode([info EXCEPT !.addrInSeg = ToUnsigned(@ + 2 * addAmt)])
            /\ UNCHANGED pc
    /\ UNCHANGED <<bindKind, table, segAdd, addAmt>>

\* The run of LastByte goes on: another action, or the end of the run.
RepeatBind ==
    /\ pc = "advance" /\ last = "DoBindUlebTimesSkippingUleb" /\ count # 0
    /\ count' = count - 1
    /\ LET once == [info EXCEPT !.addrInSeg = ToUnsigned(@ + addAmt)]
       IN IF count' # 0
          THEN /\ info' = once
               /\ pc' = "yielded"
               /\ UNCHANGED <<stream, reachedEnd, atEnd, last>>
          ELSE /\ last' = NoneLeft
               /\ NextOpcode([once EXCEPT !.addrInSeg = ToUnsigned(@ + addAmt)])
               /\ UNCHANGED pc
    /\ UNCHANGED <<bindKind, table, segAdd, addAmt>>

\* Mutant: LastByte is not cleared.
FinalizeBind_KeepsLast ==
    /\ pc = "advance"
    /\ \/ last \in {"DoBind", "DoBindAddAddrUleb", "DoBindAddAddrImmScaled"}
       \/ last = "DoBindUlebTimesSkippingUleb" /\ count = 0
    /\ segAdd' = 0
    /\ NextOpcode([info EXCEPT !.addrInSeg = ToUnsigned(@ + segAdd)])
    /\ UNCHANGED <<bindKind, pc, table, last, addAmt, count>>

\* The action of LastByte was its only one.
FinalizeBind ==
    /\ pc = "advance"
    /\ \/ last \in {"DoBind", "DoBindAddAddrUleb", "DoBindAddAddrImmScaled"}
       \/ last = "DoBindUlebTimesSkippingUleb" /\ count = 0
    /\ segAdd' = 0
    /\ last' = NoneLeft
    /\ NextOpcode([info EXCEPT !.addrInSeg = ToUnsigned(@ + segAdd)])
    /\ UNCHANGED <<bindKind, pc, table, addAmt, count>>

-----------------------------------------------------------------------------
(* Advance(), the loop over the opcodes *)

Scanning(ops) ==
    /\ pc = "advance" /\ last = NoneLeft /\ ~atEnd
    /\ info.error = "None" /\ Byte.op \in ops

ScanError ==
    /\ pc = "advance" /\ last = NoneLeft /\ ~atEnd
    /\ \/ info.error # "None" /\ Yield(info.error)
       \/ Scanning({"Unrecognized"}) /\ Yield("UnrecognizedBindOpcode")
    /\ UNCHANGED <<bindKind, stream, reachedEnd, atEnd, table, last, segAdd, addAmt,
                   count>>

\* Mutant: a segment that is set does not move the address.
ScanSetup_KeepsAddress ==
    /\ Scanning({"Done", "SetKindImm", "SetAddendSleb", "SetSymbolTrailingFlagsImm",
                 "SetSegmentAndOffsetUleb"} \cup DylibOpcodes)
    /\ NextOpcode([info EXCEPT
            !.newSymbolName = @ \/ Byte.op = "SetSymbolTrailingFlagsImm"])
    /\ UNCHANGED <<bindKind, pc, table, last, segAdd, addAmt, count>>

\* The opcodes that bind nothing; DONE is one of them in a lazy list.
ScanSetup ==
    /\ Scanning({"Done", "SetKindImm", "SetAddendSleb", "SetSymbolTrailingFlagsImm",
                 "SetSegmentAndOffsetUleb"} \cup DylibOpcodes)
    /\ NextOpcode([info EXCEPT
            !.newSymbolName = @ \/ Byte.op = "SetSymbolTrailingFlagsImm",
            !.addrInSeg = IF Byte.op = "SetSegmentAndOffsetUleb"
                          THEN info.segOffset ELSE @])
    /\ UNCHANGED <<bindKind, pc, table, last, segAdd, addAmt, count>>

ScanAddAddr ==
    LET sum == info.addrInSeg + info.addAddr
    IN /\ Scanning({"AddAddrUleb"})
       /\ IF FitsUnsigned(sum)
          THEN NextOpcode([info EXCEPT !.addrInSeg = sum]) /\ UNCHANGED pc
          ELSE /\ Yield("OutOfBoundsSegmentAddr")
               /\ UNCHANGED <<stream, reachedEnd, atEnd>>
       /\ UNCHANGED <<bindKind, table, last, segAdd, addAmt, count>>

\* Mutant: the symbol's dylib is not asked for.
CheckIfCanBind_AnyDylib ==
    CASE info.segmentIndex = -1 -> "NoSegmentIndex"
      [] info.segmentIndex # -1 /\ info.writeKind = NoWriteKind -> "NoWriteKind"
      [] OTHER -> "None"

CheckIfCanBind ==
    CASE info.dylibOrdinal = -1 -> "NoDylibOrdinal"
      [] info.dylibOrdinal # -1 /\ info.segmentIndex = -1 -> "NoSegmentIndex"
      [] info.dylibOrdinal # -1 /\ info.segmentIndex # -1
            /\ info.writeKind = NoWriteKind -> "NoWriteKind"
      [] OTHER -> "None"

\* AddChangeToSegmentAddress keeps its sum in SegAddAddress, also when it
\* then fails because the address no longer fits.
AddChange(sum, add) == IF FitsSigned(sum + add) THEN sum + add ELSE sum
AddChangeFails(sum, add) ==
    \/ ~FitsSigned(sum + add)
    \/ ~FitsSigned(info.addrInSeg + sum + add)

ThreadedTableIsFull == table.size = table.cap

\* Mutant: the table of threaded binds is not asked whether it is full.
ScanBind_NoTableCheck ==
    LET fails == AddChangeFails(segAdd, PtrSize)
    IN /\ Scanning({"DoBind"})
       /\ IF CheckIfCanBind # "None"
          THEN Yield(CheckIfCanBind) /\ UNCHANGED <<segAdd, table, last>>
          ELSE /\ segAdd' = AddChange(segAdd, PtrSize)
               /\ Yield(IF fails THEN "OutOfBoundsSegmentAddr" ELSE "None")
               /\ table' = IF ~fails /\ info.threadedCount # 0
                           THEN [table EXCEPT !.size = @ + 1] ELSE table
               /\ last' = IF fails THEN last ELSE Byte.op
       /\ UNCHANGED <<bindKind, stream, reachedEnd, atEnd, addAmt, count>>

\* DO_BIND: while a table size is set its bind goes into the table as well.
ScanBind ==
    LET fails == AddChangeFails(segAdd, PtrSize)
        full == ~fails /\ info.threadedCount # 0 /\ ThreadedTableIsFull
    IN /\ Scanning({"DoBind"})
       /\ IF CheckIfCanBind # "None"
          THEN Yield(CheckIfCanBind) /\ UNCHANGED <<segAdd, table, last>>
          ELSE /\ segAdd' = AddChange(segAdd, PtrSize)
               /\ Yield(IF fails THEN "OutOfBoundsSegmentAddr"
                        ELSE IF full THEN "TooManyThreadedBinds" ELSE "None")
               /\ table' = IF ~fails /\ ~full /\ info.threadedCount # 0
                           THEN [table EXCEPT !.size = @ + 1] ELSE table
               /\ last' = IF fails \/ full THEN last ELSE Byte.op
       /\ UNCHANGED <<bindKind, stream, reachedEnd, atEnd, addAmt, count>>

\* The other opcodes that bind do not call CheckIfCanBind.  When only the
\* pointer no longer fits, the action is yielded and the opcode scanned again.
ScanBindAddAddr ==
    LET add == IF Byte.op = "DoBindAddAddrUleb" THEN info.addAddr
               ELSE PtrSize * info.skip + PtrSize
        afterAdd == AddChange(segAdd, add)
        uleb == Byte.op = "DoBindAddAddrUleb"
        again == uleb /\ AddChangeFails(afterAdd, PtrSize)
    IN /\ Scanning({"DoBindAddAddrUleb", "DoBindAddAddrImmScaled"})
       /\ IF AddChangeFails(segAdd, add)
          THEN /\ segAdd' = afterAdd
               /\ Yield("OutOfBoundsSegmentAddr")
               /\ UNCHANGED last
          ELSE /\ segAdd' = IF uleb THEN AddChange(afterAdd, PtrSize) ELSE afterAdd
               /\ Yield("None")
               /\ last' = IF again THEN last ELSE Byte.op
       /\ UNCHANGED <<bindKind, stream, reachedEnd, atEnd, table, addAmt, count>>

\* The first action of a run, if every address of the run fits.
ScanBindTimes ==
    LET step == PtrSize + info.skip
        n == ToUnsigned(info.addAddr)
        fits == /\ FitsSigned(step) /\ FitsSigned(step * n)
                /\ FitsSigned(segAdd + step * n)
                /\ FitsSigned(info.addrInSeg + segAdd + step * n)
    IN /\ Scanning({"DoBindUlebTimesSkippingUleb"})
       /\ IF fits
          THEN /\ last' = Byte.op
               /\ addAmt' = ToUnsigned(step)
               /\ count' = ToUnsigned(n - 1)
               /\ Yield("None")
          ELSE Yield("OutOfBoundsSegmentAddr") /\ UNCHANGED <<last, addAmt, count>>
       /\ UNCHANGED <<bindKind, stream, reachedEnd, atEnd, table, segAdd>>

\* THREADED with a table size ends in the return of an error.
ScanTableSize ==
    /\ Scanning({"Threaded"}) /\ SubOpcode(info) # ThreadedApply
    /\ table' = IF SubOpcode(info) = SetTableSize
                THEN [cap |-> info.threadedCount, size |-> 0] ELSE table
    /\ Yield("UnrecognizedBindSubOpcode")
    /\ UNCHANGED <<bindKind, stream, reachedEnd, atEnd, last, segAdd, addAmt, count>>

\* Mutant: a section that begins with the pointer is enough.
HasData_Begin(addr) ==
    addr # 0 /\ \E segment \in DOMAIN Image :
        \E section \in Image[segment].sections : R!HasLocation(section, addr)

\* GetDataForVirtualAddr finds a pointer at addr: some segment has all of it, not
\* only the one it was looked up from, and so has a section of that segment.  A
\* section has as much in the file, at offset 0 for one that has nothing there.
HasData(addr) ==
    LET pointer == R!Range(addr, PtrSize)
    IN addr # 0 /\ \E segment \in DOMAIN Image :
            /\ R!ContainsRange(Image[segment].mem, pointer)
            /\ \E section \in Image[segment].sections : R!ContainsRange(section, pointer)

SegVmAddr == ToUnsigned(Image[info.segmentIndex].mem.begin + info.addrInSeg)

(***************************************************************************)
(* DoThreadedBind reads one byte of the pointer, so the bit that tells a   *)
(* bind and the distance to the next one are always 0: the opcode stays    *)
(* current and is applied again to the next pointer, as long as there is   *)
(* data for one.                                                           *)
(***************************************************************************)
ScanThreadedApply ==
    /\ Scanning({"Threaded"}) /\ SubOpcode(info) = ThreadedApply
    /\ CASE ~ThreadedTableIsFull ->
                Yield("NotEnoughThreadedBinds") /\ UNCHANGED addAmt
         [] ThreadedTableIsFull /\ ~HasData(SegVmAddr) ->
                Yield("OutOfBoundsSegmentAddr") /\ UNCHANGED addAmt
         [] OTHER -> /\ info' = [info EXCEPT !.addrInSeg = ToUnsigned(@ + PtrSize)]
                     /\ pc' = "yielded"
                     /\ addAmt' = 0
    /\ UNCHANGED <<bindKind, stream, reachedEnd, atEnd, table, last, segAdd, count>>

ScanEnd ==
    /\ pc = "advance" /\ last = NoneLeft /\ atEnd
    /\ last' = "Done"
    /\ pc' = "end"
    /\ UNCHANGED <<bindKind, stream, reachedEnd, atEnd, info, table, segAdd, addAmt,
                   count>>

Advance ==
    \/ RepeatBind \/ FinalizeBind \/ ScanError \/ ScanSetup \/ ScanAddAddr
    \/ ScanBind \/ ScanBindAddAddr \/ ScanBindTimes \/ ScanTableSize
    \/ ScanThreadedApply \/ ScanEnd

\* operator++: after an error it goes past the opcode first, and Advance()
\* then forgets the error of the opcode it finds there.
Resume ==
    /\ pc' = "advance"
    /\ IF info.error = "None"
       THEN info' = BeginAdvance(info) /\ UNCHANGED <<stream, reachedEnd, atEnd>>
       ELSE \/ AtLastByte(bindKind, stream, BeginAdvance(info))
            \/ \E o \in Opcodes :
                   AtOpcode(bindKind, stream, reachedEnd, o,
                            BeginAdvance(ReadOpcode(bindKind, info, o)))
    /\ UNCHANGED <<bindKind, table, last, segAdd, addAmt, count>>

=============================================================================

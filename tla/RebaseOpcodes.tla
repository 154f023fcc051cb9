--------------------------- MODULE RebaseOpcodes ---------------------------
(***************************************************************************)
(* The rebase opcodes of LC_DYLD_INFO (include/ADT/Mach-O/RebaseInfo.h):   *)
(* what RebaseOpcodeIterator keeps of the opcodes it has read, and, as the *)
(* reference both listings are checked against, the locations a stream of  *)
(* opcodes rebases.                                                        *)
(*                                                                         *)
(* An operand is what ReadUleb128 or ReadSleb128 returns for it; valid =   *)
(* FALSE stands for an operand they reject.                                *)
(***************************************************************************)
EXTENDS MachineIntegers, Sequences, SequencesExt

CONSTANTS
    PtrSize,    \* bytes of a pointer
    Offsets,    \* operands of SET_SEGMENT_AND_OFFSET_ULEB
    Adds,       \* operands that are added to the address, as 2's complement
    Scales,     \* immediates of ADD_ADDR_IMM_SCALED
    Counts,     \* operands that say how often to rebase
    Skips,      \* operands that say how much to skip
    Kinds       \* immediates of SET_TYPE_IMM

ASSUME WidthAssumption == TopBit \in Nat /\ PtrSize \in 1..(TopBit - 1)

ASSUME OperandsAssumption ==
    /\ Offsets \cup Counts \cup Scales \cup Kinds \subseteq 0..UMax
    /\ Adds \cup Skips \subseteq (-SMax - 1)..SMax

RebaseWriteKinds == 1..3         \* Pointer, TextAbsolute32, TextPcrel32
NoWriteKind == 0

RunOpcodes == {"DoRebaseTimes", "DoRebaseUlebTimesSkipUleb"}
UlebOpcodes == {"SetSegmentAndOffsetUleb", "AddAddrUleb", "DoRebaseTimes",
                "DoRebaseAddAddrUleb", "DoRebaseUlebTimesSkipUleb"}

Opcode(op, S, T) == {[op |-> op, n |-> n, m |-> m, valid |-> TRUE] :
                     n \in S, m \in T}

(***************************************************************************)
(* DoRebaseTimes is both DoRebaseImmTimes and DoRebaseUlebTimes, which     *)
(* every switch treats alike.                                              *)
(***************************************************************************)
Opcodes ==
    UNION { Opcode("SetKindImm", Kinds, {0}),
            Opcode("SetSegmentAndOffsetUleb", Offsets, {0}),
            Opcode("AddAddrUleb", Adds, {0}),
            Opcode("AddAddrImmScaled", Scales, {0}),
            Opcode("DoRebaseTimes", Counts, {0}),
            Opcode("DoRebaseAddAddrUleb", Adds, {0}),
            Opcode("DoRebaseUlebTimesSkipUleb", Counts, Skips),
            Opcode("Unrecognized", {0}, {0}),
            {[op |-> op, n |-> 0, m |-> 0, valid |-> FALSE] :
                op \in UlebOpcodes} }

-----------------------------------------------------------------------------
(***************************************************************************)
(* RebaseOpcodeIterateInfo and the AddrInSeg of RebaseActionIterateInfo.   *)
(* addAddr is the union of AddAddr and Count, skip that of Skip and Scale. *)
(***************************************************************************)
InitInfo == [error |-> "None", kind |-> NoWriteKind, hasSegment |-> FALSE,
             segOffset |-> 0, addAddr |-> 0, skip |-> 0, addrInSeg |-> 0]

ReadError(o) ==
    CASE o.op = "Unrecognized" -> "UnrecognizedRebaseOpcode"
      [] ~o.valid -> "InvalidLeb128"
      [] o.op = "SetKindImm" /\ o.n \notin RebaseWriteKinds ->
            "UnrecognizedRebaseWriteKind"
      [] OTHER -> "None"

\* RebaseOpcodeIterator::Advance() on opcode o; a rejected operand changes
\* nothing but the error.
ReadOpcode(i, o) ==
    LET j == [i EXCEPT !.error = ReadError(o)]
    IN IF ~o.valid THEN j ELSE
       CASE o.op = "SetKindImm" -> [j EXCEPT !.kind = o.n]
         [] o.op = "SetSegmentAndOffsetUleb" ->
                [j EXCEPT !.segOffset = o.n, !.hasSegment = TRUE]
         [] o.op = "AddAddrImmScaled" -> [j EXCEPT !.skip = o.n]
         [] o.op = "DoRebaseUlebTimesSkipUleb" ->
                [j EXCEPT !.addAddr = o.n, !.skip = ToUnsigned(o.m)]
         [] o.op \in {"AddAddrUleb", "DoRebaseAddAddrUleb",
                      "DoRebaseTimes"} -> [j EXCEPT !.addAddr = o.n]
         [] OTHER -> j

-----------------------------------------------------------------------------
(***************************************************************************)
(* Reference: an opcode moves a cursor and rebases the pointers it passes, *)
(* with the integers of mathematics.  An opcode without a valid operand    *)
(* does nothing.                                                           *)
(***************************************************************************)
StepSize(o) ==
    IF o.op = "DoRebaseUlebTimesSkipUleb" THEN PtrSize + o.m ELSE PtrSize

Moved(c, o) ==
    IF ~o.valid THEN c ELSE
    CASE o.op = "SetSegmentAndOffsetUleb" -> o.n
      [] o.op = "AddAddrUleb" -> c + o.n
      [] o.op = "AddAddrImmScaled" -> c + o.n * PtrSize
      [] o.op = "DoRebaseAddAddrUleb" -> c + o.n + PtrSize
      [] o.op \in RunOpcodes -> c + o.n * StepSize(o)
      [] OTHER -> c

\* The cursor after the first k opcodes of s.
CursorAt(s, k) ==
    LET at[j \in 0..k] == IF j = 0 THEN 0 ELSE Moved(at[j - 1], s[j])
    IN at[k]
Cursor(s) == CursorAt(s, Len(s))

Rebased(c, o) ==
    IF ~o.valid THEN <<>>
    ELSE IF o.op = "DoRebaseAddAddrUleb" THEN <<c>>
    ELSE IF o.op \in RunOpcodes THEN [i \in 1..o.n |-> c + (i - 1) * StepSize(o)]
    ELSE <<>>

\* Every address the opcodes of s reach is one a signed integer holds, also
\* before DO_REBASE_ADD_ADDR_ULEB adds its pointer, and none skips backwards.
WithinSegment(s) ==
    \A k \in 1..Len(s) :
        /\ CursorAt(s, k) \in 0..SMax
        /\ s[k].op = "DoRebaseAddAddrUleb" => CursorAt(s, k) >= PtrSize
        /\ s[k].m >= 0

(***************************************************************************)
(* Where the action iterator departs from this, and what the properties    *)
(* therefore leave open.  It does not move past a run of one (RebaseInfo.h *)
(* :659, where SegAddAddress is 0): it is astray until a segment is set.   *)
(* And it may lose the last rebase of a longer run (667, where the end of  *)
(* a run adds the amount twice and yields nothing).                        *)
(***************************************************************************)
LosesPlace(o) == o.valid /\ o.op \in RunOpcodes /\ o.n = 1

\* An opcode before the k-th lost the place, and no segment was set since.
Astray(s, k) ==
    \E j \in 1..(k - 1) :
        /\ LosesPlace(s[j])
        /\ \A i \in (j + 1)..(k - 1) : ~(s[i].valid /\ s[i].op = "SetSegmentAndOffsetUleb")

\* No opcode that depends on the place is reached astray.
KeepsPlace(s) ==
    \A k \in 1..Len(s) :
        s[k].op \in RunOpcodes \cup {"AddAddrUleb", "AddAddrImmScaled",
                                    "DoRebaseAddAddrUleb"} => ~Astray(s, k)

LongRuns(s) == {k \in 1..Len(s) : s[k].valid /\ s[k].op \in RunOpcodes /\ s[k].n > 1}

-----------------------------------------------------------------------------
(***************************************************************************)
(* CollectRebaseOpcodeList of Operations/PrintRebaseOpcodeList.cpp, behind *)
(* --list-rebase-opcodes: every opcode of the stream with the address it   *)
(* starts or ends at, computed apart from RebaseActionIterator.  Errors of *)
(* the opcode iterator are never looked at.                                *)
(***************************************************************************)
\* info is that of the opcode iterator, at the position of the opcode.
InitListing == [info |-> InitInfo, at |-> 0, addrInSeg |-> 0,
                overflows |-> FALSE, lines |-> <<>>]

\* InfoList.emplace_back(OpcodeInfo)
WithLine(l) == [l EXCEPT !.lines = Append(@, [at |-> l.at, addr |-> l.addrInSeg])]

\* A sum that overflows leaves the address as it is; the flag is never reset.
Plus(l, add) == IF FitsUnsigned(l.addrInSeg + add)
                THEN [l EXCEPT !.addrInSeg = @ + add]
                ELSE [l EXCEPT !.overflows = TRUE]

\* The line is listed before the address moves, and the pointer is added only
\* if the operand was.
ListRebaseAddAddr(l) ==
    LET add == ToSigned(l.info.addAddr)
        added == Plus(WithLine(l), add)
    IN IF FitsUnsigned(l.addrInSeg + add) THEN Plus(added, PtrSize) ELSE added

\* Mutant: the run moves the address by its last step too little.
ListRebaseTimes_ShortRun(l, isSkip) ==
    LET step == IF isSkip THEN PtrSize + l.info.skip ELSE PtrSize
        total == step * ToUnsigned(l.info.addAddr - 1)
        moves == FitsUnsigned(l.addrInSeg + total)
        moved == IF moves THEN [WithLine(l) EXCEPT !.addrInSeg = @ + total] ELSE WithLine(l)
    IN IF moves = isSkip THEN moved ELSE WithLine(moved)

\* The line of a run is listed before the address moves, and again after a
\* step of the code that leaves the switch with break.
ListRebaseTimes(l, isSkip) ==
    LET step == IF isSkip THEN PtrSize + l.info.skip ELSE PtrSize
        total == step * ToUnsigned(l.info.addAddr)
        moves == /\ IF isSkip THEN FitsSigned(step) /\ FitsSigned(total)
                              ELSE FitsUnsigned(total)
                 /\ FitsUnsigned(l.addrInSeg + total)
        moved == IF moves THEN [WithLine(l) EXCEPT !.addrInSeg = @ + total] ELSE WithLine(l)
    IN IF moves = isSkip THEN moved ELSE WithLine(moved)

\* The scaled opcode falls through into the other one, which adds AddAddr as
\* an earlier opcode left it; OpcodeInfo.Scale is never set.
ListSetup(l, o) ==
    WithLine(CASE o.op = "SetSegmentAndOffsetUleb" ->
                    [l EXCEPT !.addrInSeg = l.info.segOffset]
               [] o.op \in {"AddAddrUleb", "AddAddrImmScaled"} ->
                    Plus(l, ToSigned(l.info.addAddr))
               [] OTHER -> l)

\* The body of the loop for opcode o.
ListOpcode(l, o) ==
    LET read == [l EXCEPT !.info = ReadOpcode(l.info, o), !.at = @ + 1]
    IN CASE o.op = "DoRebaseAddAddrUleb" -> ListRebaseAddAddr(read)
         [] o.op \in RunOpcodes ->
                ListRebaseTimes(read, o.op = "DoRebaseUlebTimesSkipUleb")
         [] OTHER -> ListSetup(read, o)

\* The listing after the first k opcodes of s.
ListingAt(s, k) ==
    LET at[j \in 0..k] == IF j = 0 THEN InitListing ELSE ListOpcode(at[j - 1], s[j])
    IN at[k]
CollectRebaseOpcodeList(s) == ListingAt(s, Len(s))

=============================================================================

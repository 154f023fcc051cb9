--------------------------- MODULE RebaseActions ---------------------------
(***************************************************************************)
(* RebaseActionList::GetAsList(), behind --list-rebase-actions: the        *)
(* RebaseActionIterator turns the opcodes into the addresses they rebase.  *)
(* The stream is not fixed in advance: each time the opcode iterator       *)
(* advances it reads some opcode or finds the end, and stream records      *)
(* what it read.                                                           *)
(***************************************************************************)
EXTENDS RebaseOpcodes

CONSTANT MaxOpcodes   \* bound on the length of a stream

VARIABLES
    pc,         \* "advance", "list", "done" or "stopped"
    stream,     \* the opcodes read so far; the last one is the current one
    atEnd,      \* RebaseOpcodeIterator::ReachedEnd
    info,       \* RebaseActionIterateInfo
    last,       \* the opcode of LastByte
    segAdd,     \* SegAddAddress
    addAmt,     \* AddAmt
    count,      \* Count
    list        \* ListOut

vars == <<pc, stream, atEnd, info, last, segAdd, addAmt, count, list>>

Byte == stream[Len(stream)]

\* Mutant: a rejected operand does not stop the list.
CanIgnoreError_Leb128(e) == e \notin {"IllegalRebaseOpcode", "UnrecognizedRebaseOpcode"}

CanIgnoreError(e) ==
    e \notin {"InvalidLeb128", "IllegalRebaseOpcode", "UnrecognizedRebaseOpcode"}

\* Mutant: the segment is not checked.
CheckIfCanRebase_NoSegment ==
    IF info.kind = NoWriteKind THEN "NoWriteKind" ELSE "None"

CheckIfCanRebase ==
    CASE ~info.hasSegment -> "NoSegmentIndex"
      [] info.hasSegment /\ info.kind = NoWriteKind -> "NoWriteKind"
      [] OTHER -> "None"

\* Mutant: only a negative sum is caught.
AddressFits_NoCarry(sum) == sum >= 0

\* DoesAddOverflow(AddrInSeg, Add, &AddrInSeg) is false.
AddressFits(sum) == FitsUnsigned(sum)

\* Iter++ on an iterator whose info is i.
NextOpcode(i) ==
    \/ /\ atEnd' = TRUE
       /\ info' = [i EXCEPT !.error = "None"]
       /\ UNCHANGED stream
    \/ /\ Len(stream) < MaxOpcodes
       /\ \E o \in Opcodes : /\ info' = ReadOpcode(i, o)
                             /\ stream' = Append(stream, o)
       /\ UNCHANGED atEnd

\* return Error from Advance() without touching the rest of the iterator.
Yield(error) ==
    /\ info' = [info EXCEPT !.error = error]
    /\ pc' = "list"

(***************************************************************************)
(* The constructor reads the first opcode and drops its error.             *)
(***************************************************************************)
Init ==
    /\ \/ stream = <<>> /\ atEnd = TRUE /\ info = InitInfo
       \/ \E o \in Opcodes :
            /\ stream = <<o>>
            /\ atEnd = FALSE
            /\ info = [ReadOpcode(InitInfo, o) EXCEPT !.error = "None"]
    /\ pc = "advance"
    /\ last = "SetKindImm"
    /\ segAdd = 0 /\ addAmt = 0 /\ count = 0
    /\ list = <<>>

-----------------------------------------------------------------------------
(* Advance(), the switch over LastByte *)

\* Mutant: the end of a run adds the amount once.
RepeatRebase_EndAddsOnce ==
    /\ pc = "advance" /\ last \in RunOpcodes /\ count # 0
    /\ count' = ToUnsigned(count - 1)
    /\ LET once == [info EXCEPT !.addrInSeg = ToUnsigned(@ + addAmt)]
       IN IF count' # 0
          THEN /\ info' = [once EXCEPT !.error = "None"]
               /\ pc' = "list"
               /\ UNCHANGED <<stream, atEnd, last>>
          ELSE last' = "SetKindImm" /\ NextOpcode(once) /\ UNCHANGED pc
    /\ UNCHANGED <<segAdd, addAmt, list>>

\* The run of LastByte goes on: another action, or the end of the run.
RepeatRebase ==
    /\ pc = "advance" /\ last \in RunOpcodes /\ count # 0
    /\ count' = ToUnsigned(count - 1)
    /\ LET once == [info EXCEPT !.addrInSeg = ToUnsigned(@ + addAmt)]
       IN IF count' # 0
          THEN /\ info' = [once EXCEPT !.error = "None"]
               /\ pc' = "list"
               /\ UNCHANGED <<stream, atEnd, last>>
          ELSE /\ last' = "SetKindImm"
               /\ NextOpcode([once EXCEPT !.addrInSeg = ToUnsigned(@ + addAmt)])
               /\ UNCHANGED pc
    /\ UNCHANGED <<segAdd, addAmt, list>>

\* Mutant: SegAddAddress is not reset.
FinalizeRebase_KeepsDelta ==
    /\ pc = "advance"
    /\ \/ last = "DoRebaseAddAddrUleb"
       \/ last \in RunOpcodes /\ count = 0
    /\ last' = "SetKindImm"
    /\ NextOpcode([info EXCEPT !.addrInSeg = ToUnsigned(@ + segAdd)])
    /\ UNCHANGED <<pc, segAdd, addAmt, count, list>>

\* Mutant: LastByte is not cleared.
FinalizeRebase_KeepsLast ==
    /\ pc = "advance"
    /\ \/ last = "DoRebaseAddAddrUleb"
       \/ last \in RunOpcodes /\ count = 0
    /\ segAdd' = 0
    /\ NextOpcode([info EXCEPT !.addrInSeg = ToUnsigned(@ + segAdd)])
    /\ UNCHANGED <<pc, last, addAmt, count, list>>

\* The action of LastByte was its only one.
FinalizeRebase ==
    /\ pc = "advance"
    /\ \/ last = "DoRebaseAddAddrUleb"
       \/ last \in RunOpcodes /\ count = 0
    /\ segAdd' = 0
    /\ last' = "SetKindImm"
    /\ NextOpcode([info EXCEPT !.addrInSeg = ToUnsigned(@ + segAdd)])
    /\ UNCHANGED <<pc, addAmt, count, list>>

-----------------------------------------------------------------------------
(* Advance(), the loop over the opcodes *)

Scanning == pc = "advance" /\ last = "SetKindImm" /\ ~atEnd

ScanError ==
    /\ Scanning /\ info.error # "None"
    /\ Yield(info.error)
    /\ UNCHANGED <<stream, atEnd, last, segAdd, addAmt, count, list>>

ScanUnrecognized ==
    /\ Scanning /\ info.error = "None" /\ Byte.op = "Unrecognized"
    /\ Yield("UnrecognizedRebaseOpcode")
    /\ UNCHANGED <<stream, atEnd, last, segAdd, addAmt, count, list>>

ScanSetup ==
    /\ Scanning /\ info.error = "None"
    /\ \/ Byte.op = "SetKindImm" /\ NextOpcode(info)
       \/ /\ Byte.op = "SetSegmentAndOffsetUleb"
          /\ NextOpcode([info EXCEPT !.addrInSeg = info.segOffset])
    /\ UNCHANGED <<pc, last, segAdd, addAmt, count, list>>

ScanAddAddr ==
    LET add == IF Byte.op = "AddAddrImmScaled"
               THEN ToUnsigned(info.skip * PtrSize) ELSE ToSigned(info.addAddr)
        sum == info.addrInSeg + add
    IN /\ Scanning /\ info.error = "None"
       /\ Byte.op \in {"AddAddrImmScaled", "AddAddrUleb"}
       /\ IF AddressFits(sum)
          THEN NextOpcode([info EXCEPT !.addrInSeg = sum]) /\ UNCHANGED pc
          ELSE Yield("OutOfBoundsSegmentAddr") /\ UNCHANGED <<stream, atEnd>>
       /\ UNCHANGED <<last, segAdd, addAmt, count, list>>

(***************************************************************************)
(* AddChangeToSegmentAddress is tried with the operand and then with the   *)
(* pointer size; each attempt keeps its sum in SegAddAddress, also when it *)
(* fails because the address no longer fits.                               *)
(***************************************************************************)
AddChange(sum, add) == IF FitsSigned(sum + add) THEN sum + add ELSE sum
AddChangeFails(sum, add) ==
    \/ ~FitsSigned(sum + add)
    \/ ~FitsSigned(info.addrInSeg + sum + add)

ScanRebaseAddAddr ==
    LET add == ToSigned(info.addAddr)
        afterAdd == AddChange(segAdd, add)
    IN /\ Scanning /\ info.error = "None" /\ Byte.op = "DoRebaseAddAddrUleb"
       /\ IF CheckIfCanRebase # "None"
          THEN Yield(CheckIfCanRebase) /\ UNCHANGED <<segAdd, last>>
          ELSE IF AddChangeFails(segAdd, add)
          THEN /\ segAdd' = afterAdd
               /\ Yield("OutOfBoundsSegmentAddr")
               /\ UNCHANGED last
          ELSE /\ segAdd' = AddChange(afterAdd, PtrSize)
               /\ last' = IF AddChangeFails(afterAdd, PtrSize)
                          THEN last ELSE Byte.op
               /\ Yield("None")
       /\ UNCHANGED <<stream, atEnd, addAmt, count, list>>

\* The first action of a run, if every address of the run fits.
ScanRebaseTimes ==
    LET isSkip == Byte.op = "DoRebaseUlebTimesSkipUleb"
        n == ToUnsigned(info.addAddr)
        step == IF isSkip THEN PtrSize + info.skip ELSE PtrSize
        total == step * n
        newAdd == segAdd + ToSigned(total)
        overflows == \/ isSkip /\ ~(FitsSigned(step) /\ FitsSigned(total))
                     \/ ~isSkip /\ ~FitsUnsigned(total)
                     \/ ~FitsSigned(newAdd)
                     \/ ~FitsSigned(info.addrInSeg + newAdd)
    IN /\ Scanning /\ info.error = "None" /\ Byte.op \in RunOpcodes
       /\ IF CheckIfCanRebase # "None" \/ overflows
          THEN /\ Yield(IF CheckIfCanRebase # "None" THEN CheckIfCanRebase
                        ELSE "OutOfBoundsSegmentAddr")
               /\ UNCHANGED <<last, addAmt, count>>
          ELSE /\ last' = Byte.op
               /\ addAmt' = step
               /\ count' = ToUnsigned(n - 1)
               /\ Yield("None")
       /\ UNCHANGED <<stream, atEnd, segAdd, list>>

ScanEnd ==
    /\ pc = "advance" /\ last = "SetKindImm" /\ atEnd
    /\ last' = "Done"
    /\ pc' = "done"
    /\ UNCHANGED <<stream, atEnd, info, segAdd, addAmt, count, list>>

-----------------------------------------------------------------------------
(* GetAsList(): the body of its loop, and operator++ up to Advance() *)

Listed == Append(list, [addr |-> info.addrInSeg, error |-> info.error,
                        at |-> Len(stream)])

ListAction ==
    /\ pc = "list" /\ info.error = "None"
    /\ list' = Listed
    /\ pc' = "advance"
    /\ UNCHANGED <<stream, atEnd, info, last, segAdd, addAmt, count>>

\* An error that can be ignored is listed as well; operator++ then goes past
\* the opcode, and Advance() forgets the error of the one it finds there.
ListIgnoredError ==
    /\ pc = "list" /\ info.error # "None" /\ CanIgnoreError(info.error)
    /\ list' = Listed
    /\ pc' = "advance"
    /\ \/ /\ atEnd' = TRUE
          /\ info' = [info EXCEPT !.error = "None"]
          /\ UNCHANGED stream
       \/ /\ Len(stream) < MaxOpcodes
          /\ \E o \in Opcodes :
                /\ info' = [ReadOpcode(info, o) EXCEPT !.error = "None"]
                /\ stream' = Append(stream, o)
          /\ UNCHANGED atEnd
    /\ UNCHANGED <<last, segAdd, addAmt, count>>

StopAtError ==
    /\ pc = "list" /\ ~CanIgnoreError(info.error)
    /\ pc' = "stopped"
    /\ UNCHANGED <<stream, atEnd, info, last, segAdd, addAmt, count, list>>

Finished == pc \in {"done", "stopped"} /\ UNCHANGED vars

Advance ==
    \/ RepeatRebase \/ FinalizeRebase \/ ScanError \/ ScanUnrecognized
    \/ ScanSetup \/ ScanAddAddr \/ ScanRebaseAddAddr \/ ScanRebaseTimes
    \/ ScanEnd
GetAsList == ListAction \/ ListIgnoredError \/ StopAtError

Next == Advance \/ GetAsList \/ Finished
Spec == Init /\ [][Next]_vars
FairSpec == Spec /\ WF_vars(Advance \/ GetAsList)

-----------------------------------------------------------------------------
(* Properties *)

\* Type invariant: every value stays within the width of its C type.
TypeOK ==
    /\ pc \in {"advance", "list", "done", "stopped"}
    /\ stream \in Seq(Opcodes) /\ atEnd \in BOOLEAN
    /\ last \in RunOpcodes \cup {"SetKindImm", "DoRebaseAddAddrUleb", "Done"}
    /\ info.hasSegment \in BOOLEAN
    /\ \A n \in {info.segOffset, info.skip, info.addrInSeg, count} :
            FitsUnsigned(n)
    /\ FitsSigned(segAdd) /\ FitsSigned(addAmt)
    /\ \A k \in 1..Len(list) : CanIgnoreError(list[k].error)

NoErrorYet ==
    /\ info.error = "None"
    /\ \A k \in 1..Len(list) : list[k].error = "None"

\* The streams whose addresses are compared: nothing is refused, no address leaves
\* the integers, no opcode is reached astray, and no run is empty, as a count of
\* zero wraps round (RebaseInfo.h:659).
Regular ==
    /\ NoErrorYet /\ WithinSegment(stream) /\ KeepsPlace(stream)
    /\ \A k \in 1..Len(stream) :
            stream[k].valid /\ stream[k].op \in RunOpcodes => stream[k].n > 0
Addresses == [k \in 1..Len(list) |-> list[k].addr]

\* How many opcodes the iterator has gone past.
Passed == IF atEnd THEN Len(stream) ELSE Len(stream) - 1

\* Between two opcodes the iterator's address is where the opcodes before lead,
\* also with a pending SegAddAddress and after runs, unless it went astray.
CursorFollowsStream ==
    Regular /\ pc = "advance" /\ last = "SetKindImm" /\ ~Astray(stream, Passed + 1)
        => info.addrInSeg + segAdd = CursorAt(stream, Passed)

\* The locations the first k opcodes of s rebase, in order, without the last one
\* of each run in lost.
LocationsWithout(lost, s, k) ==
    LET rebased(j) == Rebased(CursorAt(s, j - 1), s[j])
        listed[j \in 0..k] ==
            IF j = 0 THEN <<>>
            ELSE listed[j - 1] \o (IF j \in lost THEN Front(rebased(j)) ELSE rebased(j))
    IN listed[k]

\* GetAsList lists the locations that the opcodes rebase, all of them, in order
\* and at their place; only the last one of a run of two or more may be missing
\* (RebaseInfo.h:667).
ListedInOrder ==
    Regular => \E lost \in SUBSET LongRuns(stream) :
        LET rebased == LocationsWithout(lost, stream, Len(stream))
        IN IsPrefix(Addresses, rebased) /\ (pc = "done" => Addresses = rebased)

\* --list-rebase-opcodes, which repeats the arithmetic on its own, shows each
\* opcode at the address it starts at or leads to, and ends where the opcodes
\* end.  Scaled adds, which the listing does not scale, and rejected operands, listed
\* with the operands of an earlier opcode, are left out.
ListingFollowsStream ==
    LET listing == CollectRebaseOpcodeList(stream)
    IN (/\ WithinSegment(stream)
        /\ \A k \in 1..Len(stream) : stream[k].valid /\ stream[k].op # "AddAddrImmScaled")
       => /\ listing.addrInSeg = Cursor(stream) /\ ~listing.overflows
          /\ \A k \in 1..Len(stream) : \E i \in 1..Len(listing.lines) :
                /\ listing.lines[i].at = k
                /\ listing.lines[i].addr \in {CursorAt(stream, k - 1), CursorAt(stream, k)}

\* The iterator's address, the list of actions and the listing of opcodes are
\* where the opcodes lead, as far as the iterator is not astray.
AddressesFollowStream ==
    CursorFollowsStream /\ ListedInOrder /\ ListingFollowsStream

\* Before the k-th opcode a segment was chosen, and the kind chosen last is one.
SegmentAndKindBefore(k) ==
    LET before == 1..(k - 1)
        kinds == {j \in before : stream[j].op = "SetKindImm"}
    IN /\ \E j \in before : /\ stream[j].op = "SetSegmentAndOffsetUleb"
                            /\ stream[j].valid
       /\ \E j \in kinds : /\ stream[j].n # NoWriteKind
                           /\ \A i \in kinds : i <= j

\* An action without an error is listed only for an opcode that comes after
\* one that chose a segment and while a write kind is set.
RebasesNeedSegmentAndKind ==
    \A k \in 1..Len(list) :
        list[k].error = "None" => SegmentAndKindBefore(list[k].at)

\* The j-th opcode could be read, or it is where its error is lost: the first
\* opcode, whose error the constructor drops, or the one right after an error
\* that was ignored, where Advance() clears it.
MayGoPast(j) ==
    \/ ReadError(stream[j]) \notin {"InvalidLeb128", "UnrecognizedRebaseOpcode"}
    \/ /\ stream[j].op # "Unrecognized"
       /\ \/ j = 1
          \/ \E k \in 1..Len(list) : /\ list[k].at = j - 1
                                    /\ list[k].error # "None"

\* The list goes past an opcode that could not be read only in those places.
FatalErrorsStop == \A j \in 1..(Len(stream) - 1) : MayGoPast(j)

\* GetAsList returns, unless an address is above those a signed integer holds:
\* there DO_REBASE_ADD_ADDR_ULEB may be scanned again for ever, as its operand
\* takes back what the pointer adds (RebaseInfo.h:763).
Terminates == [](info.addrInSeg <= SMax) => <>(pc \in {"done", "stopped"})

=============================================================================

---------------------------- MODULE BindActions ----------------------------
(***************************************************************************)
(* BindActionListBase::GetAsList() and GetListOfSymbols(), behind          *)
(* --list-bind-actions and --list-bind-symbols.  Both go through a list    *)
(* with the iterator of BindIterator; they differ only in what they keep,  *)
(* so one walk keeps both.                                                 *)
(***************************************************************************)
EXTENDS BindIterator

CONSTANT Lists          \* the kinds of list considered

ASSUME ListsAssumption == Lists \subseteq BindInfoKinds

VARIABLES
    opened,             \* the list has been opened
    list,               \* ListOut of GetAsList
    symbols,            \* SymbolListOut of GetListOfSymbols
    stopped             \* an error that cannot be ignored was returned

vars == <<iteratorVars, opened, list, symbols, stopped>>

\* Mutant: an opcode the list forbids does not stop it.
CanIgnoreError_Illegal(e) ==
    e \notin {"InvalidLeb128", "InvalidString", "UnrecognizedBindOpcode"}

CanIgnoreError(e) ==
    e \notin {"InvalidLeb128", "InvalidString", "IllegalBindOpcode",
              "UnrecognizedBindOpcode"}

Init ==
    /\ InitIterator
    /\ opened = FALSE
    /\ list = <<>> /\ symbols = <<>> /\ stopped = FALSE

\* getAction, with the error and how many opcodes had been read.
GetAction ==
    [addr |-> info.addrInSeg, error |-> info.error, at |-> Len(stream),
     symbol |-> info.symbolName, isNew |-> info.newSymbolName, addend |-> info.addend,
     dylib |-> info.dylibOrdinal, segment |-> info.segmentIndex, kind |-> info.writeKind]

Begin ==
    /\ ~opened
    /\ opened' = TRUE
    /\ \E kind \in Lists : Open(kind)
    /\ UNCHANGED <<list, symbols, stopped>>

AdvanceIterator ==
    ~stopped /\ Advance /\ UNCHANGED <<opened, list, symbols, stopped>>

\* Mutant: a symbol whose first action is an error is not listed.
ListAction_NoErrors ==
    /\ pc = "yielded" /\ ~stopped /\ CanIgnoreError(info.error)
    /\ list' = Append(list, GetAction)
    /\ symbols' = IF info.newSymbolName /\ info.error = "None"
                  THEN Append(symbols, GetAction) ELSE symbols
    /\ Resume
    /\ UNCHANGED <<opened, stopped>>

ListAction ==
    /\ pc = "yielded" /\ ~stopped /\ CanIgnoreError(info.error)
    /\ list' = Append(list, GetAction)
    /\ symbols' = IF info.newSymbolName THEN Append(symbols, GetAction) ELSE symbols
    /\ Resume
    /\ UNCHANGED <<opened, stopped>>

StopAtError ==
    /\ pc = "yielded" /\ ~stopped /\ ~CanIgnoreError(info.error)
    /\ stopped' = TRUE
    /\ UNCHANGED <<iteratorVars, opened, list, symbols>>

Returned == opened /\ (stopped \/ pc = "end")
Finished == Returned /\ UNCHANGED vars

Next == Begin \/ AdvanceIterator \/ ListAction \/ StopAtError \/ Finished
Spec == Init /\ [][Next]_vars
FairSpec == Spec /\ WF_vars(Begin \/ AdvanceIterator \/ ListAction \/ StopAtError)

-----------------------------------------------------------------------------
(* Properties *)

\* Type invariant: every integer stays within the width of its C type, and the
\* table of threaded binds within its capacity, as PushBack asserts.
TypeOK ==
    /\ pc \in {"advance", "yielded", "end"}
    /\ stream \in Seq(Opcodes) /\ atEnd \in BOOLEAN /\ reachedEnd \in BOOLEAN
    /\ last \in {NoneLeft, "Done", "DoBind", "DoBindAddAddrUleb",
                 "DoBindAddAddrImmScaled", "DoBindUlebTimesSkippingUleb"}
    /\ \A n \in {info.segOffset, info.skip, info.addrInSeg, addAmt, count} :
            FitsUnsigned(n)
    /\ \A n \in {info.addAddr, segAdd} : FitsSigned(n)
    /\ table.size <= table.cap

NoErrorYet ==
    /\ info.error = "None"
    /\ \A k \in 1..Len(list) : list[k].error = "None"

\* The streams whose addresses are compared: nothing is refused, no address leaves
\* the integers, no opcode is reached astray, and no bind is threaded.
Regular ==
    /\ NoErrorYet /\ NoReadErrors(bindKind, stream)
    /\ WithinSegment(stream) /\ KeepsPlace(bindKind, stream)
    /\ \A k \in 1..Len(stream) : stream[k].op # "Threaded"

\* Between two opcodes the iterator's address is where the opcodes before lead,
\* also with a pending SegAddAddress and after runs, unless it went astray.
CursorFollowsStream ==
    (/\ pc = "advance" /\ last = NoneLeft /\ ~atEnd
     /\ Regular /\ ~Astray(bindKind, stream, Len(stream)))
        => info.addrInSeg + segAdd = CursorAt(stream, Len(stream) - 1)

\* The locations the first k opcodes of s bind, in order, without the last one of
\* each run in lost.
LocationsWithout(lost, s, k) ==
    LET bound(j) == Bound(CursorAt(s, j - 1), s[j])
        listed[j \in 0..k] ==
            IF j = 0 THEN <<>>
            ELSE listed[j - 1] \o (IF j \in lost THEN Front(bound(j)) ELSE bound(j))
    IN listed[k]

\* GetAsList lists the locations that the opcodes bind, all of them, in order and
\* at their place; only the last one of a run of two or more may be missing
\* (BindInfo.h:1018).
Addresses == [k \in 1..Len(list) |-> list[k].addr]
ListedInOrder ==
    Regular => \E lost \in SUBSET LongRuns(stream) :
        LET bound == LocationsWithout(lost, stream, Len(stream))
        IN IsPrefix(Addresses, bound) /\ (Returned => Addresses = bound)

\* What an action has is what the opcodes before it set last, whatever runs,
\* threaded binds and errors come between; of a kind that is not known, which is
\* stored before it is refused (BindInfo.h:558), nothing is said.
KindsAreKnown(k) ==
    \A j \in 1..k : ReadError(bindKind, stream[j]) # "UnrecognizedBindWriteKind"
ActionsOf(at) == {k \in 1..Len(list) : list[k].at = at}
ActionsHaveWhatWasSet ==
    \A at \in 1..Len(stream) :
        LET symbol == SymbolSet(bindKind, stream, at)
            dylib == DylibSet(bindKind, stream, at)
            addend == AddendSet(bindKind, stream, at)
            segment == SegmentSet(bindKind, stream, at)
            known == KindsAreKnown(at)
            kind == KindSet(bindKind, stream, at)
        IN \A k \in ActionsOf(at) :
              /\ list[k].symbol = symbol /\ list[k].dylib = dylib
              /\ list[k].addend = addend /\ list[k].segment = segment
              /\ known => list[k].kind = kind

\* An action is the first with its name exactly if a name was set since the
\* action before, whatever errors come between.
NewNamesAreMarked ==
    \A k \in 1..Len(list) :
        LET before == IF k = 1 THEN 0 ELSE list[k - 1].at
        IN list[k].isNew <=> \E j \in (before + 1)..(list[k].at - 1) :
                                stream[j].op = "SetSymbolTrailingFlagsImm"

\* --list-bind-symbols knows the name of every action of --list-bind-actions,
\* also when the first action with it is an error.
EverySymbolListed ==
    \A k \in 1..Len(list) :
        list[k].symbol # NoString => \E i \in 1..Len(symbols) :
                                    /\ symbols[i].symbol = list[k].symbol
                                    /\ symbols[i].at <= list[k].at

\* DO_BIND is refused for a dylib, segment or kind that was not set, and only for
\* that; a weak list can do without the dylib and a lazy one without the kind,
\* which they have no opcode for.
Missing(k) ==
    {e \in {"NoDylibOrdinal", "NoSegmentIndex", "NoWriteKind"} :
        CASE e = "NoDylibOrdinal" -> DylibSet(bindKind, stream, k) = -1
          [] e = "NoSegmentIndex" -> SegmentSet(bindKind, stream, k) = -1
          [] e = "NoWriteKind" -> KindSet(bindKind, stream, k) = NoWriteKind}
CannotSet == CASE bindKind = "Weak" -> {"NoDylibOrdinal"}
               [] bindKind = "Lazy" -> {"NoWriteKind"}
               [] OTHER -> {}
BindsAreRefusedRightly ==
    \A at \in 1..Len(stream) :
        stream[at].op = "DoBind" /\ KindsAreKnown(at) =>
            LET missing == Missing(at)
            IN \A k \in ActionsOf(at) :
                  /\ list[k].error = "None" => missing \subseteq CannotSet
                  /\ list[k].error \in {"NoDylibOrdinal", "NoSegmentIndex", "NoWriteKind"} =>
                        list[k].error \in missing

\* An action is listed with all that belongs to it: the symbol, dylib, addend,
\* segment and kind that were set last; it is marked as the first of its name;
\* and its name is in the list of symbols.
ActionsAreComplete ==
    /\ ActionsHaveWhatWasSet /\ NewNamesAreMarked
    /\ EverySymbolListed /\ BindsAreRefusedRightly

\* The list goes past an opcode that could not be read only where its error is
\* lost: the first opcode, and the one after an error that was ignored.
FatalErrorsStop ==
    \A j \in 1..(Len(stream) - 1) :
        \/ ReadError(bindKind, stream[j]) \notin
              {"InvalidLeb128", "InvalidString", "IllegalBindOpcode",
               "UnrecognizedBindOpcode"}
        \/ /\ stream[j].op # "Unrecognized"
           /\ \/ j = 1
              \/ \E k \in 1..Len(list) : list[k].at = j - 1 /\ list[k].error # "None"

\* All of a pointer at addr is in one section of the image.
InASection(addr) ==
    \E segment \in DOMAIN Image : \E section \in Image[segment].sections :
        addr..(addr + PtrSize - 1) \subseteq R!Locations(section)

\* Whatever address THREADED starts from, the pointers it lists lie in the image,
\* one next to the other; or the pointers before them do, as the address is moved
\* before the action is listed (BindInfo.h:995).
ThreadedStaysInData ==
    \A k \in 1..Len(list) :
        stream[list[k].at].op = "Threaded" /\ list[k].error = "None" =>
            /\ \E late \in {0, PtrSize} :
                  InASection(ToUnsigned(Image[list[k].segment].mem.begin + list[k].addr - late))
            /\ k > 1 /\ list[k - 1].at = list[k].at =>
                  list[k].addr = ToUnsigned(list[k - 1].addr + PtrSize)

\* Nothing leaves what holds it: no integer its type, no threaded bind its table,
\* though an earlier opcode sized it, and no threaded pointer the data of the image.
StaysInBounds == TypeOK /\ ThreadedStaysInData

\* The opcode listing of the same list: every opcode once, a bind with the
\* address it binds and any other opcode with the address it leaves behind,
\* and a scaled bind a second time (PrintBindOpcodeList.cpp:264).  An opcode
\* that is taken for the end is not looked at.
LinesOf(s, k) ==
    LET line(j) == [op |-> s[k].op, addr |-> CursorAt(s, j), overflows |-> FALSE]
    IN CASE s[k].op = "DoBindAddAddrImmScaled" -> <<line(k - 1), line(k)>>
         [] s[k].op \in {"DoBind", "DoBindAddAddrUleb",
                         "DoBindUlebTimesSkippingUleb"} -> <<line(k - 1)>>
         [] OTHER -> <<line(k)>>
LinesTo(s, k) ==
    LET lines[j \in 0..k] == IF j = 0 THEN <<>> ELSE lines[j - 1] \o LinesOf(s, j)
    IN lines[k]
ListingFollowsStream ==
    ~atEnd /\ NoReadErrors(bindKind, stream) /\ WithinSegment(stream) =>
        CollectBindOpcodeList(bindKind, stream) = LinesTo(stream, Len(stream))

\* The iterator's address, the list of actions and the listing of opcodes are
\* where the opcodes lead, as far as the iterator is not astray.
AddressesFollowStream ==
    CursorFollowsStream /\ ListedInOrder /\ ListingFollowsStream

\* GetAsList returns, unless an address is above those a signed integer holds:
\* there DO_BIND_ADD_ADDR_ULEB may be scanned again for ever.
Terminates == [](info.addrInSeg <= SMax) => <>Returned

=============================================================================

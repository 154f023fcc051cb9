--------------------------- MODULE BindCollection ---------------------------
(***************************************************************************)
(* BindActionCollection::Parse (ADT/Mach-O/BindUtil.cpp): the actions of   *)
(* the three lists of binds, walked with the iterator of BindIterator one  *)
(* list after the other, are put in one map by their address.  It is what  *)
(* the Objective-C parsers look a class up in.                             *)
(***************************************************************************)
EXTENDS BindIterator

CONSTANT
    Ranges              \* the ranges of addresses asked for, {} for all of them

VARIABLES
    remaining,          \* the kinds of list still to be walked
    range,              \* Range
    actions,            \* ActionList, in the order of insertion
    segIndex, segAddr,  \* SegmentIndex and SegmentAddress, -1 and 0 at first
    newSymbol,          \* NewSymbol
    outcome             \* how Parse() ends

collectorVars == <<remaining, range, actions, segIndex, segAddr, newSymbol, outcome>>
parseVars == <<iteratorVars, collectorVars>>

NoSymbol == "nullptr"
NoSegment == -1
ListOrder == [Normal |-> 1, Lazy |-> 2, Weak |-> 3]

\* The address a segment's memory begins at.
SegmentBase == [segment \in DOMAIN Image |-> Image[segment].mem.begin]

\* A null pointer is no name.
ASSUME NoSymbolAssumption == NoSymbol \notin Symbols

ParseInit ==
    /\ InitIterator
    /\ remaining \in SUBSET BindInfoKinds
    /\ range \in Ranges
    /\ actions = <<>>
    /\ segIndex = NoSegment /\ segAddr = 0
    /\ newSymbol = TRUE
    /\ outcome = "collecting"

\* The lists that are there, one call of CollectActionListFromTrie for each.
NextList ==
    /\ pc = "end" /\ outcome = "collecting"
    /\ \E kind \in remaining :
            /\ \A other \in remaining : ListOrder[kind] <= ListOrder[other]
            /\ Open(kind)
            /\ remaining' = remaining \ {kind}
    /\ newSymbol' = TRUE
    /\ segIndex' = NoSegment /\ segAddr' = 0
    /\ UNCHANGED <<range, actions, outcome>>

AdvanceList ==
    outcome = "collecting" /\ Advance /\ UNCHANGED collectorVars

\* The errors a list of this kind goes past.
MayHaveError(kind, e) ==
    \/ e = "None" \/ kind = "Weak"
    \/ kind = "Lazy" /\ e = "NoWriteKind"

Yielded == pc = "yielded" /\ outcome = "collecting"

StopParse ==
    /\ Yielded /\ ~MayHaveError(bindKind, info.error)
    /\ outcome' = "parseError"
    /\ UNCHANGED <<iteratorVars, remaining, range, actions, segIndex, segAddr, newSymbol>>

\* Mutant: the address of the first segment is kept.
SegmentAddress_FirstOnly ==
    IF segIndex # NoSegment \/ info.segmentIndex = NoSegment THEN segAddr
    ELSE SegmentBase[info.segmentIndex]

SegmentAddress ==
    IF info.segmentIndex = segIndex THEN segAddr ELSE SegmentBase[info.segmentIndex]

FullAddr == ToUnsigned(SegmentAddress + info.addrInSeg)

\* atOrNull finds no segment, and its address is asked for all the same.
SegmentIsKnown ==
    info.segmentIndex = segIndex \/ info.segmentIndex \in DOMAIN SegmentBase

InRange(addr) == range = {} \/ addr \in range

AtAddress(addr) == {a \in ToSet(actions) : a.address = addr}

Ordinal32(n) == n % (4 * TopBit)   \* static_cast<uint32_t>

(***************************************************************************)
(* Info::operator==.  setAddress and setOpcodeAddress both write the field *)
(* setSegmentOffset wrote, which is so the place of the opcode in its list *)
(* (here: how many opcodes come before it).  The symbol is compared after  *)
(* the first three fields, through a pointer.                              *)
(***************************************************************************)
SameNumbers(a) ==
    /\ info.writeKind = a.writeKind
    /\ info.addend = a.addend
    /\ info.dylibOrdinal = a.dylibOrdinal

SameAction(a) ==
    /\ SameNumbers(a)
    /\ info.symbolName = a.symbol
    /\ info.segmentIndex = a.segmentIndex
    /\ info.segOffset = a.segmentOffset
    /\ info.addrInSeg = a.addrInSeg
    /\ info.flags = a.flags

NewActionFor(isNew) ==
    [kind |-> bindKind, writeKind |-> info.writeKind, addend |-> info.addend,
     dylibOrdinal |-> Ordinal32(info.dylibOrdinal), segmentIndex |-> info.segmentIndex,
     segmentOffset |-> Len(stream) - 1, addrInSeg |-> info.addrInSeg,
     flags |-> info.flags, address |-> FullAddr,
     symbol |-> IF isNew THEN info.symbolName ELSE NoSymbol,
     means |-> info.symbolName]     \* ghost: the name it would have had

IsNew == newSymbol \/ info.newSymbolName

\* Mutant: an action outside the range uses the name up.
SkipAction_UsesName ==
    /\ Yielded /\ MayHaveError(bindKind, info.error) /\ SegmentIsKnown
    /\ \/ ~InRange(FullAddr) /\ newSymbol' = FALSE
       \/ /\ InRange(FullAddr)
          /\ \E a \in AtAddress(FullAddr) : a.symbol # NoSymbol /\ SameAction(a)
          /\ newSymbol' = IsNew
    /\ segIndex' = info.segmentIndex /\ segAddr' = SegmentAddress
    /\ Resume
    /\ UNCHANGED <<remaining, range, actions, outcome>>

\* An address outside the range, or one that is bound in the same way already.
SkipAction ==
    /\ Yielded /\ MayHaveError(bindKind, info.error) /\ SegmentIsKnown
    /\ \/ ~InRange(FullAddr)
       \/ /\ InRange(FullAddr)
          /\ \E a \in AtAddress(FullAddr) : a.symbol # NoSymbol /\ SameAction(a)
    /\ newSymbol' = IsNew
    /\ segIndex' = info.segmentIndex /\ segAddr' = SegmentAddress
    /\ Resume
    /\ UNCHANGED <<remaining, range, actions, outcome>>

\* Mutant: an address that is bound already is bound again.
InsertAction_Again ==
    /\ Yielded /\ MayHaveError(bindKind, info.error) /\ SegmentIsKnown
    /\ InRange(FullAddr)
    /\ actions' = Append(actions, NewActionFor(IsNew))
    /\ newSymbol' = FALSE
    /\ segIndex' = info.segmentIndex /\ segAddr' = SegmentAddress
    /\ Resume
    /\ UNCHANGED <<remaining, range, outcome>>

InsertAction ==
    /\ Yielded /\ MayHaveError(bindKind, info.error) /\ SegmentIsKnown
    /\ InRange(FullAddr) /\ AtAddress(FullAddr) = {}
    /\ actions' = Append(actions, NewActionFor(IsNew))
    /\ newSymbol' = FALSE
    /\ segIndex' = info.segmentIndex /\ segAddr' = SegmentAddress
    /\ Resume
    /\ UNCHANGED <<remaining, range, outcome>>

\* Another bind of the same address; *Symbol of one that has none is undefined.
RejectAction ==
    /\ Yielded /\ MayHaveError(bindKind, info.error)
    /\ \/ ~SegmentIsKnown /\ outcome' = "undefined"
       \/ /\ SegmentIsKnown /\ InRange(FullAddr)
          /\ \E a \in AtAddress(FullAddr) :
                IF SameNumbers(a) /\ a.symbol = NoSymbol
                THEN outcome' = "undefined"
                ELSE ~SameAction(a) /\ outcome' = "multiple"
    /\ UNCHANGED <<iteratorVars, remaining, range, actions, segIndex, segAddr, newSymbol>>

Parsed ==
    /\ pc = "end" /\ outcome = "collecting" /\ remaining = {}
    /\ outcome' = "parsed"
    /\ UNCHANGED <<iteratorVars, remaining, range, actions, segIndex, segAddr, newSymbol>>

ParseReturned == outcome # "collecting"
ParseFinished == ParseReturned /\ UNCHANGED parseVars

ParseStep ==
    \/ NextList \/ AdvanceList \/ StopParse \/ SkipAction \/ InsertAction \/ RejectAction
    \/ Parsed
ParseNext == ParseStep \/ ParseFinished
ParseSpec == ParseInit /\ [][ParseNext]_parseVars

-----------------------------------------------------------------------------
(* Properties *)

\* Type invariant: the map has one action for an address, and every stored
\* number fits the field it is stored in.
CollectionTypeOK ==
    /\ outcome \in {"collecting", "parseError", "multiple", "undefined", "parsed"}
    /\ segIndex = NoSegment \/ segIndex \in DOMAIN SegmentBase
    /\ newSymbol \in BOOLEAN
    /\ \A i, j \in 1..Len(actions) :
            actions[i].address = actions[j].address => i = j
    /\ \A a \in ToSet(actions) :
            /\ FitsUnsigned(a.address) /\ FitsUnsigned(a.addrInSeg)
            /\ a.dylibOrdinal \in 0..(4 * TopBit - 1)

\* An action that got no symbol follows one of the same list and the same name
\* that has it, so the name can be told from what was collected.
NamelessFollowNamed ==
    \A i \in 1..Len(actions) : actions[i].symbol = NoSymbol =>
        \E j \in 1..(i - 1) :
            /\ actions[j].kind = actions[i].kind
            /\ actions[j].symbol = actions[i].means
            /\ \A k \in j..i : actions[k].means = actions[i].means

(***************************************************************************)
(* The addresses a list binds, from its opcodes alone.                     *)
(***************************************************************************)
SegmentOf(k) ==
    LET set == {j \in 1..k : stream[j].op = "SetSegmentAndOffsetUleb"}
    IN IF set = {} THEN NoSegment
       ELSE stream[CHOOSE j \in set : \A i \in set : i <= j].m

BoundAt(k) == ToSet(Bound(CursorAt(stream, k - 1), stream[k]))
PlacedAt(k) == {ToUnsigned(SegmentBase[SegmentOf(k)] + a) : a \in BoundAt(k)}
Binds == {k \in 1..Len(stream) : BoundAt(k) # {}}
Expected == UNION {PlacedAt(k) : k \in Binds}

\* The last bind of a run of two or more, which the iterator may lose
\* (BindInfo.h:1018).
LastOfRuns ==
    {ToUnsigned(SegmentBase[SegmentOf(k)] + Last(Bound(CursorAt(stream, k - 1), stream[k]))) :
        k \in LongRuns(stream)}

\* Nothing in the list is refused, leaves its segments or is reached astray: each
\* DO_BIND has been given what a list of this kind must give it, and no dylib the
\* ordinal of none.
SetBefore(ops, k) == \E j \in 1..(k - 1) : stream[j].op \in ops
RegularList ==
    /\ WithinSegment(stream) /\ KeepsPlace(bindKind, stream)
    /\ NoReadErrors(bindKind, stream)
    /\ \A k \in Binds :
            /\ SegmentOf(k) \in DOMAIN SegmentBase
            /\ stream[k].op = "DoBind" =>
                  /\ bindKind # "Weak" => SetBefore(DylibOpcodes, k)
                  /\ bindKind = "Normal" => SetBefore({"SetKindImm"}, k)
    /\ \A k \in 1..Len(stream) :
            /\ stream[k].op # "Threaded"
            /\ stream[k].op \in DylibOpcodes => stream[k].n # UMax

OfKind(kinds) == {a.address : a \in {b \in ToSet(actions) : b.kind \in kinds}}

\* When a list has been walked, the map has the addresses in the range that the
\* list binds, and no others of it: none is put in another segment, and none is
\* lost but perhaps the last ones of runs, and those an earlier list had bound.
HasItsBinds ==
    pc = "end" /\ outcome = "collecting" /\ RegularList =>
        LET wanted == {a \in Expected : InRange(a)} \ OfKind(BindInfoKinds \ {bindKind})
        IN /\ OfKind({bindKind}) \subseteq wanted
           /\ wanted \ LastOfRuns \subseteq OfKind({bindKind})

\* A list that binds every address once, and none that an earlier list binds,
\* is not refused: no clash comes from the way the addresses are walked.
Distinct ==
    /\ \A i, j \in Binds : i # j => PlacedAt(i) \cap PlacedAt(j) = {}
    /\ Expected \cap OfKind(BindInfoKinds \ {bindKind}) = {}
NoFalseClash ==
    outcome \in {"multiple", "undefined", "parseError"} => ~(RegularList /\ Distinct)

\* The map holds what the lists bind, but for what a run may lose, and nothing
\* else, one action for an address; and it is refused only for a clash.
CollectedExactly == CollectionTypeOK /\ HasItsBinds /\ NoFalseClash

=============================================================================

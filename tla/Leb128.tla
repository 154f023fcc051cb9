------------------------------- MODULE Leb128 -------------------------------
(***************************************************************************)
(* ReadLeb128Base of Utils/Leb128.h: a number of the operands of opcodes   *)
(* and of the export trie is read byte by byte.  A byte is a digit and a   *)
(* flag that says whether more follow; the list it is read from has `left` *)
(* bytes before its end, and beyond the end memory holds anything.         *)
(***************************************************************************)
EXTENDS MachineIntegers, Sequences

CONSTANTS
  Base,        \* the digits of a byte: 2^7
  LastWeight,  \* Leb128GetIntegerMaxShift, as the weight of the last digit: 2^63
  MaxLeft      \* bound on the bytes left in the list

\* The weights of the digits, from that of the first.
Weight[k \in 0..LastWeight] == IF k = 0 THEN 1 ELSE Weight[k - 1] * Base

\* The digits that fit at LastWeight: Leb128GetLastByteValueMax.
LastDigits == (UMax + 1) \div LastWeight

ASSUME Leb128Assumption ==
  /\ TopBit \in Nat /\ Base \in Nat /\ Base > 1 /\ MaxLeft \in Nat
  /\ LastWeight \in Nat /\ LastWeight > 1
  /\ \E k \in 0..LastWeight : LastWeight = Weight[k]
  /\ LastDigits * LastWeight = UMax + 1
  /\ LastDigits \in 2..(Base - 1)

VARIABLES
  signed,  \* is it ReadSleb128?
  left,    \* End - Begin
  bytes,   \* the bytes read
  weight,  \* 2^Shift
  value,   \* Value, as the bits it holds
  result   \* "reading", or what the call returns: "number" or "refused"

lebVars == <<signed, left, bytes, weight, value, result>>

LebByte == [digit : 0..(Base - 1), more : BOOLEAN]

LebTypeOK ==
  /\ signed \in BOOLEAN
  /\ left \in 0..MaxLeft
  /\ bytes \in Seq(LebByte)
  /\ weight \in 1..LastWeight
  /\ value \in 0..UMax
  /\ result \in {"reading", "number", "refused"}

LebInit ==
  /\ signed \in BOOLEAN
  /\ left \in 0..MaxLeft
  /\ bytes = <<>>
  /\ weight = 1
  /\ value = 0
  /\ result = "reading"

\* The byte at Iter, which is not compared with End before it is read.
Read(b) ==
  /\ result = "reading"
  /\ bytes' = Append(bytes, b)
  /\ UNCHANGED <<signed, left>>

\* The first byte.  The test for an empty list comes after it was read, and
\* compares Begin, which does not move.
ReadFirst(b) ==
  /\ bytes = <<>> /\ Read(b)
  /\ value' = b.digit
  /\ weight' = IF b.more THEN Base ELSE weight
  /\ result' = CASE ~b.more             -> "number"
                 [] b.more /\ left = 0  -> "refused"
                 [] OTHER               -> "reading"

\* A variant of ReadNext that tests for the end of the list before it looks
\* whether the number is complete.
ReadNext_EndFirst(b) ==
  /\ bytes # <<>> /\ weight # LastWeight /\ Read(b)
  /\ value' = value + b.digit * weight
  /\ weight' = weight * Base
  /\ result' = CASE Len(bytes') = left -> "refused"
                 [] Len(bytes') # left /\ ~b.more -> "number"
                 [] OTHER -> "reading"

\* A variant of ReadNext that does not test for the end.
ReadNext_NoEnd(b) ==
  /\ bytes # <<>> /\ weight # LastWeight /\ Read(b)
  /\ value' = value + b.digit * weight
  /\ weight' = weight * Base
  /\ result' = IF b.more THEN "reading" ELSE "number"

\* A variant of ReadNext that does not shift.
ReadNext_NoShift(b) ==
  /\ bytes # <<>> /\ weight # LastWeight /\ Read(b)
  /\ value' = value + b.digit * weight
  /\ weight' = weight
  /\ result' = CASE ~b.more -> "number"
                 [] b.more /\ Len(bytes') = left -> "refused"
                 [] OTHER -> "reading"

\* A turn of the loop.  The sign extension is computed and dropped.
ReadNext(b) ==
  /\ bytes # <<>> /\ weight # LastWeight /\ Read(b)
  /\ value' = value + b.digit * weight
  /\ weight' = weight * Base
  /\ result' = CASE ~b.more                        -> "number"
                 [] b.more /\ Len(bytes') = left   -> "refused"
                 [] OTHER                          -> "reading"

\* A variant of ReadLast that accepts every last byte.
ReadLast_AnyDigit(b) ==
  /\ weight = LastWeight /\ Read(b)
  /\ value' = (value + b.digit * weight) % (UMax + 1)
  /\ result' = IF b.more THEN "refused" ELSE "number"
  /\ UNCHANGED weight

\* The last byte an integer of the type has room for.
ReadLast(b) ==
  /\ weight = LastWeight /\ Read(b)
  /\ IF b.more \/ b.digit >= LastDigits
     THEN result' = "refused" /\ UNCHANGED value
     ELSE result' = "number" /\ value' = value + b.digit * weight
  /\ UNCHANGED weight

Done == result # "reading" /\ UNCHANGED lebVars

LebNext ==
  \/ \E b \in LebByte : ReadFirst(b) \/ ReadNext(b) \/ ReadLast(b)
  \/ Done

LebSpec == LebInit /\ [][LebNext]_lebVars

-----------------------------------------------------------------------------
(***************************************************************************)
(* Properties                                                              *)
(***************************************************************************)

\* The number that bytes stand for, and the number beyond them all.
NumberOf(s) ==
  LET sum[k \in 0..Len(s)] ==
        IF k = 0 THEN [number |-> 0, over |-> 1]
        ELSE [number |-> sum[k - 1].number + s[k].digit * sum[k - 1].over,
              over |-> sum[k - 1].over * Base]
  IN  sum[Len(s)]

Number == NumberOf(bytes)

Negative == signed /\ 2 * bytes[Len(bytes)].digit >= Base

\* A number that is accepted is the one its bytes stand for, no bit of it lost,
\* also when it fills the integer to the last bit or has leading zeros.
ReadsTheNumber ==
  result = "number" =>
    /\ ~bytes[Len(bytes)].more
    /\ \A k \in 1..(Len(bytes) - 1) : bytes[k].more
    /\ value = Number.number

\* A number is refused only if the list ends in it or it has more digits than
\* an integer has room for.
RefusalsHaveAReason ==
  result = "refused" =>
    \/ bytes[Len(bytes)].more /\ Len(bytes) >= left
    \/ Number.over > LastWeight * Base
    \/ Number.over = LastWeight * Base /\ (Number.number > UMax \/ bytes[Len(bytes)].more)

\* Bytes are accepted as their number, and as no other, or refused with reason.
VerdictIsRight == LebTypeOK /\ ReadsTheNumber /\ RefusalsHaveAReason

\* A number is taken from the bytes of the list.  The test for the end protects
\* only a list with more than one byte left.
StaysInTheList == left > 1 => Len(bytes) <= left

-----------------------------------------------------------------------------
(***************************************************************************)
(* A statement of the repository that the code does not keep               *)
(***************************************************************************)

\* BindInfo.h:95, "Set Addend (Sleb128)": the sign of a signed number is the
\* highest bit of its last digit.
SignedNumbersAreRead ==
  (signed /\ result = "number" /\ Number.over <= LastWeight) =>
    ToSigned(value) = Number.number - (IF Negative THEN Number.over ELSE 0)

=============================================================================

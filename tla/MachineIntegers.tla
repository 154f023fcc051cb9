-------------------------- MODULE MachineIntegers --------------------------
(***************************************************************************)
(* The 64-bit integers of the program, with the value of the top bit as a  *)
(* parameter: TopBit = 2^63 in the program, and a small power of two in    *)
(* the instances.  FitsUnsigned and FitsSigned are what the builtins       *)
(* behind Utils/DoesOverflow.h report: whether the result of mathematics   *)
(* is a value of the type of the variable it is stored to.                 *)
(***************************************************************************)
EXTENDS Integers

CONSTANT TopBit

UMax == 2 * TopBit - 1
SMax == TopBit - 1

ToUnsigned(n) == n % (2 * TopBit)
ToSigned(n) == LET u == ToUnsigned(n) IN IF u <= SMax THEN u ELSE u - 2 * TopBit

FitsUnsigned(n) == n \in 0..UMax
FitsSigned(n) == n \in (-SMax - 1)..SMax

=============================================================================

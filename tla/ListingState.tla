---------------------------- MODULE ListingState -----------------------------
(***************************************************************************)
(* What the operations that list something of an image have in common: the *)
(* image, the options, how far they are, and what was printed.             *)
(*                                                                         *)
(* An image has what its load commands say and what the file holds where   *)
(* they say it; each module has its part of it.  "found" is what is left to *)
(* be listed or was found so far, "tables" the load commands that were     *)
(* found, by their numbers, and "section" the one that was asked for.      *)
(***************************************************************************)
EXTENDS Sequences, FiniteSets, Naturals

\* A sequence of families, each with images and the options they are run with.
CONSTANT Families

VARIABLES image, options, pc, at, tables, section, found, end, output
vars == <<image, options, pc, at, tables, section, found, end, output>>

NoSection == [name |-> <<>>, kind |-> "", size |-> 0, reserved1 |-> 0, begin |-> 0, addr |-> 0]

Init ==
    /\ \E f \in DOMAIN Families :
          image \in Families[f].images /\ options \in Families[f].asked
    /\ pc = options.operation
    /\ at = 0 /\ tables = [SymbolTable |-> 0, DynamicSymbolTable |-> 0, DyldInfo |-> 0]
    /\ section = NoSection
    /\ found = {} /\ end = "" /\ output = <<>>

\* The ways to end: each with what it is called.
End(outcome) ==
    /\ pc' = "end" /\ end' = outcome
    /\ UNCHANGED <<image, options, at, tables, section, found, output>>

\* What is listed is in the order of the kinds, the first that differs first.
InOrder(kinds, keys) ==
    \A j \in DOMAIN output, k \in DOMAIN output : j < k =>
        \/ \A n \in DOMAIN kinds : keys[output[j].index][kinds[n]] = keys[output[k].index][kinds[n]]
        \/ \E n \in DOMAIN kinds :
              /\ keys[output[j].index][kinds[n]] < keys[output[k].index][kinds[n]]
              /\ \A m \in 1..(n - 1) :
                    keys[output[j].index][kinds[m]] = keys[output[k].index][kinds[m]]

==============================================================================

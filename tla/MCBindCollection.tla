-------------------------- MODULE MCBindCollection --------------------------
(* BindCollection on a target with two segments of memory. *)
EXTENDS BindCollection

Symbol(s) == [op |-> "SetSymbolTrailingFlagsImm", n |-> 0, m |-> 0, s |-> s, valid |-> TRUE]
Number(op, n, m) == [op |-> op, n |-> n, m |-> m, s |-> "", valid |-> TRUE]

Dylib == Number("SetDylibOrdinalImm", 1, 0)
Kind == Number("SetKindImm", 1, 0)
Segment(n) == Number("SetSegmentAndOffsetUleb", 4, n)
Bind == Number("DoBind", 0, 0)

MCPrologues ==
    [Normal |-> {<<Dylib, Symbol("a"), Kind, Segment(0), Bind>>,
                 <<Dylib, Symbol("a"), Kind, Segment(0), Bind, Segment(1)>>},
     Lazy |-> {<<Segment(1), Dylib, Symbol("a"), Bind>>,
               <<Segment(1)>>},
     Weak |-> {<<Symbol("b"), Kind, Segment(1)>>, <<Symbol("b"), Segment(0), Kind, Bind>>}]
Memory(begin) == [mem |-> [begin |-> begin, size |-> 16], sections |-> {}]
MCImage == 0 :> Memory(0) @@ 1 :> Memory(240)
MCRanges == {{}, 240..252}
MCSkips == {4}
=============================================================================

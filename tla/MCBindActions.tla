--------------------------- MODULE MCBindActions ---------------------------
(* BindActions on lists that begin like those a linker writes, and on any. *)
EXTENDS BindActions

Symbol(s) == [op |-> "SetSymbolTrailingFlagsImm", n |-> 0, m |-> 0, s |-> s, valid |-> TRUE]
Number(op, n, m) == [op |-> op, n |-> n, m |-> m, s |-> "", valid |-> TRUE]

Target == <<Number("SetDylibOrdinalImm", 1, 0), Symbol("a"), Number("SetKindImm", 1, 0),
            Number("SetSegmentAndOffsetUleb", 4, 0)>>
MCPrologues == [Normal |-> {<<>>, <<Target[3], Target[4]>>, Target,
                            Target \o <<Number("Threaded", 1, SetTableSize)>>},
                Lazy |-> {<<>>, <<Target[4], Target[1], Target[2], Number("DoBind", 0, 0)>>},
                Weak |-> {<<>>, <<Target[2], Target[3], Target[4]>>}]
MCAdds == {-4, 6}
MCSkips == {-1, 4}

\* Three segments one after the other; in the first two, the data of one ends where
\* that of the next begins, and the last is reached when an address wraps round.
Extent(begin, size) == [begin |-> begin, size |-> size]
MCImage == 0 :> [mem |-> Extent(16, 8), sections |-> {Extent(20, 4)}]
        @@ 1 :> [mem |-> Extent(24, 8), sections |-> {Extent(24, 4), Extent(30, 2)}]
        @@ 2 :> [mem |-> Extent(8, 8), sections |-> {Extent(12, 4)}]
=============================================================================

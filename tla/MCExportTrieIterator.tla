---------------------- MODULE MCExportTrieIterator ----------------------
(***************************************************************************)
(* Nodes are numbers and Root is 1.  The other nodes are interchangeable,  *)
(* so only the files are explored whose root leads to a node after it led  *)
(* to every smaller one: renaming nodes turns each file into one of these. *)
(***************************************************************************)
EXTENDS ExportTrieIterator

MCInit ==
    /\ Init
    /\ \A k \in DOMAIN Children(Root) :
        \A n \in 2..(Children(Root)[k] - 1) : \E j \in 1..k : Children(Root)[j] = n

MCSpec == MCInit /\ [][Next]_vars /\ WF_vars(Open \/ Advance)
=============================================================================

-------------------------- MODULE MCRebaseActions --------------------------
(* RebaseActions with the operands of the runs that need negative numbers. *)
EXTENDS RebaseActions

MCAdds == {-4, 6}
MCSkips == {-1, 1}
=============================================================================

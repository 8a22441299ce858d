--------------------------- MODULE MCDagDispatch ---------------------------
(* DagDispatch over every graph of up to three nodes. *)
EXTENDS DagDispatch

CONSTANTS n1, n2, n3
=============================================================================

--------------------------- MODULE MCAbsurdQueue ---------------------------
(* AbsurdQueue on small instances.                                         *)
EXTENDS AbsurdQueue, TLC

\* The tasks of a queue are interchangeable.  Used by the safety run only.
QueueSymmetry == Permutations(Tasks)
=============================================================================

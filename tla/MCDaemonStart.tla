--------------------------- MODULE MCDaemonStart ---------------------------
(* DaemonStart with three daemons over what a fourth one left. *)
EXTENDS DaemonStart

CONSTANTS d1, d2, d3
=============================================================================

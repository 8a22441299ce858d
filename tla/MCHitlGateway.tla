--------------------------- MODULE MCHitlGateway ---------------------------
(* HitlGateway with the cards of one task. *)
EXTENDS HitlGateway

CONSTANTS c1, c2, t1

OneTaskOf == [c \in Cards |-> t1]
=============================================================================

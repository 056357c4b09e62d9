--------------------------- MODULE MCDelivery ---------------------------
(***************************************************************************)
(* Delivery for TLC: a GenServer that is started again once.               *)
(***************************************************************************)
EXTENDS Delivery

CONSTANTS p1, p2

MCIncarnations == <<p1, p2>>
==========================================================================

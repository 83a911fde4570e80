------------------------------ MODULE MCDelivery ------------------------------
(***************************************************************************)
(* Values for model-checking Delivery: two drains that race for one        *)
(* payment, and a request for each of them and for a later retry.          *)
(***************************************************************************)
EXTENDS Delivery, TLC

MCSymmetry ==
    Permutations(Drain) \cup Permutations(Server) \cup Permutations(Request)
===============================================================================

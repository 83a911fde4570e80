------------------------------- MODULE MCRelayer -------------------------------
(***************************************************************************)
(* Values for model-checking Relayer: three calls of one sender account,   *)
(* two of them for the same payment, so that a retry meets the lock of     *)
(* another payment, its own earlier transaction, and both.                 *)
(***************************************************************************)
EXTENDS Relayer

CONSTANTS c1, c2, c3, p1, p2

MCCall == {c1, c2, c3}
MCPayment == {p1, p2}
MCPaymentOf == [c \in MCCall |-> IF c = c3 THEN p2 ELSE p1]
===============================================================================

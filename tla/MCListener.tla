------------------------------ MODULE MCListener ------------------------------
(***************************************************************************)
(* Values for model-checking Listener: three transactions in two ledgers,  *)
(* so that a reconnect can find transactions missing inside the ledger of  *)
(* its checkpoint as well as a gap, read in pages of at most two.  The     *)
(* first two share a ledger, and both have a first event.                  *)
(***************************************************************************)
EXTENDS Listener

MCLedgerOf == [i \in 0..MaxTx |-> (i + 1) \div 2]

\* The second transaction has two events; the first event's id is taken.
SharedIds == {<<1, 0>>, <<2, 0>>, <<2, 1>>}

DistinctIds == {<<1, 0>>, <<2, 1>>}
===============================================================================

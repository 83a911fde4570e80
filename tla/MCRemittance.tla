----------------------------- MODULE MCRemittance -----------------------------
(***************************************************************************)
(* Values for model-checking Remittance: two deposits of two units, ledger *)
(* heights around two timeouts of fifteen ledgers (one minute) and the     *)
(* longest timeout ledger a deposit may reach, and two accounts for        *)
(* governance, whose argument vectors include one with a duplicate.        *)
(***************************************************************************)
EXTENDS Remittance, TLC

CONSTANTS a1, a2

MCSigner == {a1, a2}
MCSignerVecs == {<<a1>>, <<a2>>, <<a1, a1>>, <<a2, a2>>, <<a1, a2>>, <<a2, a1>>}
MCThresholds == 0..2
MCAmounts == {1, 2}
MCSplits == {-1, 1, 3}
MCHeights == {0, 15}

\* Accounts and hashes are only compared, and the argument vectors are closed
\* under exchanging the accounts.
MCSymmetry == Permutations(MCSigner) \cup Permutations(Evidence)
===============================================================================

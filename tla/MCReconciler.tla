----------------------------- MODULE MCReconciler -----------------------------
(***************************************************************************)
(* Values for model-checking Reconciler: two escrows, so that a run mixes  *)
(* answers of different moments, and two processes that overlap.           *)
(***************************************************************************)
EXTENDS Reconciler, TLC

MCSymmetry == Permutations(Id) \cup Permutations(Process)
===============================================================================

----------------------------- MODULE MCVaultCreds -----------------------------
(***************************************************************************)
(* Values for model-checking VaultCreds: two calls, so that a second check *)
(* runs while the first waits for Vault, and leases enough for the current *)
(* one, its successor and those that are leaked.                           *)
(***************************************************************************)
EXTENDS VaultCreds
===============================================================================

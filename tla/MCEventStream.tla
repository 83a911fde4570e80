----------------------------- MODULE MCEventStream -----------------------------
(***************************************************************************)
(* Values for model-checking EventStream.  Two ids interleave their event  *)
(* numbers and let a page move from one to the other; three faults in a    *)
(* row reach the polling fallback.                                         *)
(***************************************************************************)
EXTENDS EventStream
===============================================================================

--------------------------- MODULE MCSealedSubmit ---------------------------
(* SealedSubmit for TLC: the constants are given values by MCSubmit*.cfg.  *)
EXTENDS SealedSubmit
=============================================================================

------------------------- MODULE MCResumableUpload -------------------------
(***************************************************************************)
(* Instances of ResumableUpload for TLC.  With chunks of two units a       *)
(* source of 3 has a short last chunk and one of 5 has three chunks, so    *)
(* two lanes compete for the cursor; size 1 takes the single-shot path.    *)
(***************************************************************************)
EXTENDS ResumableUpload
=============================================================================

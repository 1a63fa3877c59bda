----------------------------- MODULE MCPoeWait -----------------------------
(* PoeWait for TLC: the constants are given values by the MCWait*.cfg.     *)
EXTENDS PoeWait
=============================================================================

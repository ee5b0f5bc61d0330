----------------------------- MODULE MCForgeLog -----------------------------
(* Instances of ForgeLog for TLC. *)
EXTENDS ForgeLog
=============================================================================

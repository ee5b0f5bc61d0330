------------------------- MODULE MCForgeMaintenance -------------------------
(* ForgeMaintenance as TLC runs it. *)
EXTENDS ForgeMaintenance
=============================================================================

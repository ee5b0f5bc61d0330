---------------------------- MODULE MCMPMCQueue ----------------------------
(* Instances of MPMCQueue for TLC. *)
EXTENDS MPMCQueue
=============================================================================

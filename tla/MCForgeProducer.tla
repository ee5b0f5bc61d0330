-------------------------- MODULE MCForgeProducer --------------------------
(* Instances of ForgeProducer for TLC. *)
EXTENDS ForgeProducer

CONSTANTS g1, g2
=============================================================================

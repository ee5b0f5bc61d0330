-------------------------- MODULE MCJudgePipeline --------------------------
(* Instances of JudgePipeline for TLC. *)
EXTENDS JudgePipeline

CONSTANTS s1, s2, p1

(* s1 and s2 come from the same user for the same problem. *)
Rivals == [s \in {s1, s2} |-> p1]
=============================================================================

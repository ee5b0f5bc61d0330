----------------------------- MODULE MCJudging -----------------------------
(* Instances of Judging for TLC. *)
EXTENDS Judging

CONSTANTS s1, s2, p1

(* Both submissions are for the same problem. *)
OneProblem == [s \in {s1, s2} |-> p1]
=============================================================================

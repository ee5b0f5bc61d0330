------------------------ MODULE SubmissionLifecycle ------------------------
(***************************************************************************)
(* What the judge promises the author of a submission, with everything but *)
(* the status column and the deliveries hidden: a submission is pending,   *)
(* then judging, then judged; nothing happens to it before it is taken up; *)
(* and a verdict is final unless the submission is taken up once more.     *)
(* The statuses are those of the enum in internal/ent/schema/submission.go *)
(* and "none" stands for "no row yet".                                     *)
(***************************************************************************)
EXTENDS Naturals

CONSTANT Subs           \* the submissions

VARIABLES status,       \* the status column of every submission
          taken         \* how often the worker took it up

Verdicts == {"accepted", "wrong_answer", "time_limit_exceeded",
             "memory_limit_exceeded", "runtime_error", "compile_error"}

Init ==
  /\ status = [s \in Subs |-> "none"]
  /\ taken = [s \in Subs |-> 0]

Submit(s) ==
  /\ status[s] = "none"
  /\ status' = [status EXCEPT ![s] = "pending"]
  /\ UNCHANGED taken

TakeUp(s) ==
  /\ status[s] # "none"
  /\ taken' = [taken EXCEPT ![s] = @ + 1]
  /\ UNCHANGED status

(* Mark the row, or write a verdict: also straight over "pending", for the   *)
(* worker ignores the error of the update that marks the row.                *)
Write(s) ==
  /\ taken[s] > 0
  /\ status[s] \in Verdicts => taken[s] > 1
  /\ \E new \in {"judging"} \cup Verdicts : status' = [status EXCEPT ![s] = new]
  /\ UNCHANGED taken

Next == \E s \in Subs : Submit(s) \/ TakeUp(s) \/ Write(s)

Spec == Init /\ [][Next]_<<status, taken>>
=============================================================================

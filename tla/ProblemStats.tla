---------------------------- MODULE ProblemStats ----------------------------
(***************************************************************************)
(* The counters of a problem, which nothing but a recalculation writes:    *)
(* every five minutes the scheduler counts the submissions of the problems *)
(* that had one created since its last run, and sets the counters.         *)
(*                                                                         *)
(* created_at is stamped by the program before the row is inserted.  The   *)
(* clock is not kept: "old" holds the submissions stamped before the time  *)
(* in lastRun, "before" those stamped before the running recalculation     *)
(* started.  One recalculation is over when the next one starts.           *)
(***************************************************************************)
EXTENDS Integers, FiniteSets

CONSTANTS Subs,
          ProblemOf,  \* the problem of each submission
          MaxErrors   \* bound: database errors

VARIABLES
  row,      \* status of each submission; "new" when stamped, "none" before
  counters, \* submission_count and accepted_count of each problem
  old,
  since,    \* lastRun is set
  run,      \* the recalculation: [step, todo, before, problem, count]
  behind,   \* problems one of whose rows changed too late for the next run,
            \* or whose last count was not read or not written
  errors

Problems == {ProblemOf[s] : s \in Subs}
Stored(p) == {s \in Subs : ProblemOf[s] = p /\ row[s] \notin {"none", "new"}}
Stamped == {s \in Subs : row[s] # "none"}

(* What the SELECT of RecalculateStats returns. *)
Counted(p) == [total |-> Cardinality(Stored(p)),
               accepted |-> Cardinality({s \in Stored(p) : row[s] = "accepted"})]
Zero == [total |-> 0, accepted |-> 0]

Rest == [step |-> "rest", todo |-> {}, before |-> {}, problem |-> {}, count |-> Zero]

StatsInit ==
  /\ row = [s \in Subs |-> "none"]
  /\ counters = [p \in Problems |-> Zero]
  /\ old = {} /\ since = FALSE /\ run = Rest /\ behind = {} /\ errors = 0

(* The row changes.  No later run counts it again if it was stamped before   *)
(* the time the next run will look back to.                                  *)
Change(s, status) ==
  /\ row' = [row EXCEPT ![s] = status]
  /\ behind' = IF s \in old \cup run.before THEN behind \cup {ProblemOf[s]} ELSE behind
  /\ UNCHANGED <<counters, old, since, run, errors>>

Stamp(s) ==
  /\ row[s] = "none"
  /\ row' = [row EXCEPT ![s] = "new"]
  /\ UNCHANGED <<counters, old, since, run, behind, errors>>

Insert(s) ==
  /\ row[s] = "new"
  /\ Change(s, "pending")

Judge(s, accepted) ==
  /\ row[s] = "pending"
  /\ Change(s, IF accepted THEN "accepted" ELSE "rejected")

(* The submission is not loaded, or the update of its row fails, and nobody   *)
(* looks at that error.                                                      *)
NotWritten(s) ==
  /\ row[s] = "pending"
  /\ errors < MaxErrors /\ errors' = errors + 1
  /\ UNCHANGED <<row, counters, old, since, run, behind>>

-----------------------------------------------------------------------------
(* The recalculation. *)

RunStarts ==
  /\ run.step = "rest"
  /\ run' = [Rest EXCEPT !.step = "query", !.before = Stamped]
  /\ UNCHANGED <<row, counters, old, since, behind, errors>>

(* The first run looks at every problem. *)
Query ==
  /\ run.step = "query"
  /\ run' = [run EXCEPT !.step = "loop",
                        !.todo = {p \in Problems : since => ~(Stored(p) \subseteq old)}]
  /\ UNCHANGED <<row, counters, old, since, behind, errors>>

Takes(p, count) ==
  /\ run.step = "loop" /\ p \in run.todo
  /\ run' = [run EXCEPT !.step = "set", !.todo = @ \ {p}, !.problem = {p}, !.count = count]

(* The count sees every change up to now, however old the submission. *)
Count(p) ==
  /\ Takes(p, Counted(p))
  /\ behind' = behind \ {p}
  /\ UNCHANGED <<row, counters, old, since, errors>>

(* No row comes, or it is not read: nobody looks at the error, and the counts *)
(* are the zeros they were declared with.                                    *)
Misread(p) ==
  /\ Takes(p, Zero)
  /\ errors < MaxErrors /\ errors' = errors + 1
  /\ behind' = behind \cup {p}
  /\ UNCHANGED <<row, counters, old, since>>

(* The update; its error is dropped. *)
SetCounters(p) ==
  /\ run.step = "set" /\ p \in run.problem
  /\ \/ /\ counters' = [counters EXCEPT ![p] = run.count]
        /\ UNCHANGED <<behind, errors>>
     \/ /\ errors < MaxErrors /\ errors' = errors + 1
        /\ behind' = behind \cup {p}
        /\ UNCHANGED counters
  /\ run' = [run EXCEPT !.step = "loop", !.problem = {}, !.count = Zero]
  /\ UNCHANGED <<row, old, since>>

(* Mutant: the time is taken when the run has ended. *)
Mut_LastRun == Stamped

(* What was stamped before the time that lastRun is set to. *)
LastRun == run.before

RunEnds ==
  /\ run.step = "loop" /\ run.todo = {}
  /\ old' = LastRun /\ since' = TRUE
  /\ run' = Rest
  /\ UNCHANGED <<row, counters, behind, errors>>

(* The query or a count fails: lastRun stays. *)
RunFails ==
  /\ run.step \in {"query", "loop"}
  /\ run.step = "loop" => run.todo # {}
  /\ errors < MaxErrors /\ errors' = errors + 1
  /\ run' = Rest
  /\ UNCHANGED <<row, counters, old, since, behind>>

StatsStep ==
  \/ RunStarts \/ Query \/ RunEnds \/ RunFails
  \/ \E p \in Problems : Count(p) \/ Misread(p) \/ SetCounters(p)

-----------------------------------------------------------------------------
(* Properties. *)

(* The counters of a problem are right in the end, unless one of its rows    *)
(* was inserted or judged after a run that started behind the submission's   *)
(* created_at, and not counted since (problem.go:206, cron.go:27), or an     *)
(* error nobody looks at spoilt its last count (problem.go:226) or update    *)
(* (problem.go:231).                                                         *)
CountersConverge ==
  \A p \in Problems : <>[](p \in behind \/ counters[p] = Counted(p))

(* Between the runs, wrong counters belong to a problem the next run looks   *)
(* at, or to one that is behind: no other problem is passed over.            *)
WrongIsNoticed ==
  run.step = "rest" =>
    \A p \in Problems : \/ counters[p] = Counted(p)
                        \/ p \in behind
                        \/ ~(Stored(p) \subseteq old)
=============================================================================

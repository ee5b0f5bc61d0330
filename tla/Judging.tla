------------------------------ MODULE Judging ------------------------------
(***************************************************************************)
(* The jobs of the docker pool judge the submissions that the statistics   *)
(* count: a submission waits for a container while recalculations go on    *)
(* beside it.  A submission is delivered once; the queue and restarts are  *)
(* in JudgePipeline.                                                       *)
(***************************************************************************)
EXTENDS Integers, Sequences, FiniteSets

CONSTANTS Subs, ProblemOf, MaxErrors, PoolSize, MaxDeaths, None

ASSUME JudgingAssumption ==
  /\ IsFiniteSet(Subs)
  /\ PoolSize \in Nat \ {0}
  /\ None \notin -1..(PoolSize - 1)
  /\ MaxErrors \in Nat /\ MaxDeaths \in Nat

VARIABLES containers, closed, alive, pc, held, lost, deaths,
          row, counters, old, since, run, behind, errors

Pool == INSTANCE DockerPool WITH Jobs <- Subs
Stats == INSTANCE ProblemStats

pool == <<containers, closed, alive, pc, held, lost, deaths>>
stats == <<row, counters, old, since, run, behind, errors>>
vars == <<containers, closed, alive, pc, held, lost, deaths,
          row, counters, old, since, run, behind, errors>>

Init == Pool!PoolInit /\ Stats!StatsInit

(* submissionService.Create *)
Submit(s) == (Stats!Stamp(s) \/ Stats!Insert(s)) /\ UNCHANGED pool

Verdict(s, accepted) == Stats!Judge(s, accepted) \/ Stats!NotWritten(s)

Deliver(s) ==
  /\ row[s] = "pending"
  /\ \/ Pool!Begin(s) /\ UNCHANGED stats
     \/ Pool!GiveUp(s) /\ Verdict(s, FALSE)

Acquire(s) ==
  \/ (Pool!Receive(s) \/ Pool!RemoveOld(s) \/ Pool!Create(s))
       /\ UNCHANGED stats
  \/ Pool!CreateFails(s) /\ Verdict(s, FALSE)

(* The verdict is written before the container goes back. *)
Execute(s) == \E accepted \in BOOLEAN : Pool!Run(s, accepted) /\ Verdict(s, accepted)

Release(s) == Pool!Release(s) /\ UNCHANGED stats

Containers ==
  /\ Pool!Shutdown \/ Pool!Drain \/ \E c \in Pool!Names : Pool!Die(c)
  /\ UNCHANGED stats

Recalculate == Stats!StatsStep /\ UNCHANGED pool

JobStep(s) == Deliver(s) \/ Acquire(s) \/ Execute(s) \/ Release(s)

Next ==
  \/ \E s \in Subs : Submit(s) \/ JobStep(s)
  \/ Containers
  \/ Recalculate

Spec == Init /\ [][Next]_vars

(* Jobs go on, and the scheduler runs the recalculation again and again.     *)
(* Nobody owes a submission, a death or a shutdown.                          *)
FairSpec ==
  /\ Spec
  /\ \A s \in Subs : WF_vars(JobStep(s))
  /\ WF_vars(Recalculate)

-----------------------------------------------------------------------------
(* Properties, explained in the modules they come from. *)

(* Until Shutdown each container is in the channel once, with one job, or     *)
(* lost (docker_pool.go:82).                                                 *)
OnePlacePerContainer == Pool!OnePlacePerContainer

(* Whatever dies, a job that waits for a container ends, unless all of them   *)
(* were lost (docker_pool.go:75).                                            *)
JobsEnd == Pool!JobsEnd

(* Counters that neither a late change of a row nor an unseen error excuses   *)
(* are right in the end (problem.go:206, problem.go:226).                    *)
CountersConverge == Stats!CountersConverge

(* Between two recalculations wrong counters are of a problem the next one    *)
(* looks at, of one whose row changed too late for it (cron.go:27), or of one *)
(* whose count or update failed unseen (problem.go:226, problem.go:231).     *)
WrongIsNoticed == Stats!WrongIsNoticed
=============================================================================

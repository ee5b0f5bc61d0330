----------------------------- MODULE DockerPool -----------------------------
(***************************************************************************)
(* The pool of sandbox containers and the jobs that use it.  The pool is a *)
(* channel of names; a job takes a name, looks whether the container runs, *)
(* recreates it if not, runs the submission in it and puts the name back.  *)
(* Containers die; Shutdown closes the channel while jobs may run.         *)
(*                                                                         *)
(* A container is named by its index.  Each docker command is a step where *)
(* another job can come between.                                           *)
(***************************************************************************)
EXTENDS Integers, Sequences

CONSTANTS Jobs,       \* calls of processSubmission
          PoolSize,
          MaxDeaths,  \* bound: containers that die by themselves
          None        \* not an index

VARIABLES
  containers,  \* the buffered channel
  closed,      \* it is
  alive,       \* the containers that run
  pc,          \* where a job is, from "idle" to "done"
  held,        \* the name it received
  lost,        \* names that failed to come back to life
  deaths

Names == 0..(PoolSize - 1)

(* The empty name, which a receive from a closed channel yields. *)
Empty == -1

(* fmt.Sscanf leaves the index 0 when the name does not match. *)
Index(name) == IF name = Empty THEN 0 ELSE name

PoolInit ==
  /\ containers = [i \in 1..PoolSize |-> i - 1]
  /\ closed = FALSE
  /\ alive = Names
  /\ pc = [j \in Jobs |-> "idle"] /\ held = [j \in Jobs |-> None]
  /\ lost = {} /\ deaths = 0

Goto(j, l) == pc' = [pc EXCEPT ![j] = l]

(* The pool invokes processSubmission; after Stop it does not. *)
Begin(j) ==
  /\ pc[j] = "idle" /\ ~closed
  /\ Goto(j, "wait")
  /\ UNCHANGED <<containers, closed, alive, held, lost, deaths>>

(* It returns before Acquire: the submission, its problem or its test cases   *)
(* could not be loaded.                                                      *)
GiveUp(j) ==
  /\ pc[j] = "idle" /\ ~closed
  /\ Goto(j, "done")
  /\ UNCHANGED <<containers, closed, alive, held, lost, deaths>>

(* Acquire receives a name, or from the closed and drained channel none, and *)
(* looks whether the container runs.  An inspection that fails says it does  *)
(* not.                                                                      *)
Receive(j) ==
  /\ pc[j] = "wait"
  /\ \/ /\ containers # <<>>
        /\ held' = [held EXCEPT ![j] = Head(containers)]
        /\ containers' = Tail(containers)
     \/ /\ containers = <<>> /\ closed
        /\ held' = [held EXCEPT ![j] = Empty]
        /\ UNCHANGED containers
  /\ \/ held'[j] \in alive /\ Goto(j, "run")
     \/ Goto(j, "remove")
  /\ UNCHANGED <<closed, alive, lost, deaths>>

(* recreateContainer and createContainer remove whatever has the name. *)
RemoveOld(j) ==
  /\ pc[j] = "remove"
  /\ alive' = alive \ {Index(held[j])}
  /\ Goto(j, "create")
  /\ UNCHANGED <<containers, closed, held, lost, deaths>>

Create(j) ==
  /\ pc[j] = "create" /\ Index(held[j]) \notin alive
  /\ alive' = alive \cup {Index(held[j])}
  /\ held' = [held EXCEPT ![j] = Index(held[j])]
  /\ Goto(j, "run")
  /\ UNCHANGED <<containers, closed, lost, deaths>>

(* docker create or start fails, as it must when another job has created a   *)
(* container of that name.  Acquire returns the error and the job ends       *)
(* without Release.                                                          *)
CreateFails(j) ==
  /\ pc[j] = "create"
  /\ lost' = lost \cup ({held[j]} \ {Empty})
  /\ held' = [held EXCEPT ![j] = None]
  /\ Goto(j, "done")
  /\ UNCHANGED <<containers, closed, alive, deaths>>

(* Copying, compiling and running in the container, which must be alive for  *)
(* anything but an error to come of it.                                      *)
Run(j, accepted) ==
  /\ pc[j] = "run"
  /\ accepted => held[j] \in alive
  /\ Goto(j, "release")
  /\ UNCHANGED <<containers, closed, alive, held, lost, deaths>>

(* Mutant: a container that has died is not put back. *)
Mut_PutBack(j) == IF held[j] \in alive THEN Append(containers, held[j]) ELSE containers

PutBack(j) == Append(containers, held[j])

(* Release.  The send on the closed channel panics, and the goroutine pool    *)
(* recovers: the container is left running.                                  *)
Release(j) ==
  /\ pc[j] = "release"
  /\ containers' = IF closed THEN containers ELSE PutBack(j)
  /\ held' = [held EXCEPT ![j] = None]
  /\ Goto(j, "done")
  /\ UNCHANGED <<closed, alive, lost, deaths>>

Die(c) ==
  /\ c \in alive /\ deaths < MaxDeaths
  /\ alive' = alive \ {c} /\ deaths' = deaths + 1
  /\ UNCHANGED <<containers, closed, pc, held, lost>>

(* Shutdown closes the channel and removes what it receives from it. *)
Shutdown ==
  /\ ~closed /\ closed' = TRUE
  /\ UNCHANGED <<containers, alive, pc, held, lost, deaths>>

Drain ==
  /\ closed /\ containers # <<>>
  /\ alive' = alive \ {Head(containers)}
  /\ containers' = Tail(containers)
  /\ UNCHANGED <<closed, pc, held, lost, deaths>>

-----------------------------------------------------------------------------
(* Properties. *)

InChannel(c) == \E i \in 1..Len(containers) : containers[i] = c

(* Until Shutdown a container is in one place: in the channel once, or in    *)
(* the hands of one job, or lost because it could not be recreated           *)
(* (docker_pool.go:82).  So no two jobs share a sandbox, no job removes the  *)
(* container of another, and Release finds room in the channel.              *)
OnePlacePerContainer ==
  ~closed =>
    /\ \A j \in Jobs : held[j] # None =>
         held[j] \in Names \ lost /\ ~InChannel(held[j])
    /\ \A i, j \in Jobs : held[i] = held[j] /\ held[i] # None => i = j
    /\ \A i, k \in 1..Len(containers) : containers[i] = containers[k] => i = k
    /\ \A c \in Names : InChannel(c) => c \notin lost
    /\ \A c \in Names : InChannel(c) \/ c \in lost \/ \E j \in Jobs : held[j] = c

(* A job that waits for a container gets one and ends, whichever containers  *)
(* die, unless every one of them was lost (docker_pool.go:75).               *)
JobsEnd ==
  \A j \in Jobs : (pc[j] # "idle") ~> (pc[j] = "done" \/ lost = Names)
=============================================================================

----------------------------- MODULE WorkerPool -----------------------------
(***************************************************************************)
(* GenericPool, the goroutine pool the judge and EXP workers hand their    *)
(* jobs to: callers of Invoke, the worker goroutines, the purge goroutine, *)
(* Tune and Release.                                                       *)
(*                                                                         *)
(* What makes it hard is what happens outside the lock: running, capacity  *)
(* and state are atomics, a new worker is counted after the unlock, and    *)
(* most calls of Signal and Broadcast do not hold the lock, so they can    *)
(* fall between a caller's decision to wait and its entry in the list of   *)
(* cond.Wait.  A step below is what happens under one hold of the lock or  *)
(* at one atomic operation.                                                *)
(***************************************************************************)
EXTENDS Integers, Sequences, FiniteSets

CONSTANTS Callers,     \* goroutines that call Invoke
          Workers,     \* worker objects: those in workerCache, and new ones
          None,
          Size,        \* capacity the pool is made with
          Sizes,       \* arguments of Tune
          MaxWaiting,  \* MaxBlockingTasks; 0 with Nonblocking; the callers with neither
          HasPurge,    \* not DisablePurge
          MayRelease,  \* Release is called
          MaxInvokes,  \* bound: calls of Invoke
          MaxPanics,   \* bound: jobs that panic
          MaxTunes     \* bound: calls of Tune

ASSUME PoolAssumption ==
  /\ IsFiniteSet(Callers) /\ IsFiniteSet(Workers) /\ None \notin Workers
  /\ Size \in Nat \ {0} /\ Sizes \subseteq Nat \ {0}
  /\ MaxWaiting \in Nat /\ HasPurge \in BOOLEAN /\ MayRelease \in BOOLEAN
  /\ MaxInvokes \in Nat /\ MaxPanics \in Nat /\ MaxTunes \in Nat

VARIABLES
  closed,    \* state
  capacity,
  running,
  caller,    \* where each call of Invoke is
  holds,     \* the worker it got
  list,      \* notify list of cond, oldest first
  idle,      \* workers.items
  worker,    \* where each worker goroutine is
  arg,       \* workers with a job in their channel
  exit,      \* workers with a token in their exit channel
  signals,   \* goroutines that ended but for their cond.Signal
  purge,     \* where the purge goroutine is
  expired,   \* expiredWorkers that were not told to leave yet
  dormant,   \* isDormant, until Waiting() is looked at
  release,   \* where ReleaseTimeout is
  tune,      \* the wake-up a Tune still owes
  allDone,   \* the channel is closed
  invokes, accepted, ended, panics, tunes

callVars == <<caller, holds, list, invokes, accepted>>
workVars == <<worker, arg, exit, signals, ended, panics>>
purgeVars == <<purge, expired, dormant>>
ctlVars == <<purgeVars, release, tune, tunes>>
vars == <<closed, capacity, running, idle, allDone, callVars, workVars, ctlVars>>

CallerPCs == {"idle", "retrieve", "spawn", "give", "wait", "asleep", "awake"}
WorkerPCs == {"off", "select", "busy", "revert", "insert", "leave"}

Init ==
  /\ closed = FALSE /\ capacity = Size /\ running = 0 /\ idle = <<>> /\ allDone = FALSE
  /\ caller = [c \in Callers |-> "idle"] /\ holds = [c \in Callers |-> None]
  /\ list = <<>> /\ invokes = 0 /\ accepted = 0
  /\ worker = [w \in Workers |-> "off"] /\ arg = {} /\ exit = {}
  /\ signals = 0 /\ ended = 0 /\ panics = 0
  /\ purge = "tick" /\ expired = {} /\ dormant = FALSE
  /\ release = "none" /\ tune = "none" /\ tunes = 0

(* Only a caller that is about to wait keeps the lock over a step. *)
LockFree == \A c \in Callers : caller[c] # "wait"

(* Callers that count as waiting, but for c. *)
Waiting(c) ==
  Cardinality({d \in Callers \ {c} : caller[d] \in {"wait", "asleep", "awake"}})

Woken(n) ==
  [c \in Callers |-> IF \E i \in 1..n : list[i] = c THEN "awake" ELSE caller[c]]

Signal ==
  IF list = <<>> THEN UNCHANGED <<caller, list>>
  ELSE caller' = Woken(1) /\ list' = Tail(list)

Broadcast == caller' = Woken(Len(list)) /\ list' = <<>>

-----------------------------------------------------------------------------
(* Invoke and retrieveWorker. *)

Goto(c, pc) == caller' = [caller EXCEPT ![c] = pc]

Invoke(c) ==
  /\ caller[c] = "idle" /\ ~closed /\ invokes < MaxInvokes
  /\ invokes' = invokes + 1
  /\ Goto(c, "retrieve")
  /\ UNCHANGED <<closed, capacity, running, idle, allDone, holds, list, accepted,
                 workVars, ctlVars>>

(* At "retry", with the lock. *)
Retries(c) ==
  LockFree /\ (caller[c] = "retrieve" \/ (caller[c] = "awake" /\ ~closed))

Detach(c) ==
  /\ Retries(c) /\ idle # <<>>
  /\ holds' = [holds EXCEPT ![c] = idle[Len(idle)]]
  /\ idle' = SubSeq(idle, 1, Len(idle) - 1)
  /\ Goto(c, "give")
  /\ UNCHANGED <<closed, capacity, running, allDone, list, invokes, accepted, workVars, ctlVars>>

(* Mutant: one worker more than the capacity. *)
Mut_HasRoom == capacity >= running

HasRoom == capacity > running

Grow(c) ==
  /\ Retries(c) /\ idle = <<>> /\ HasRoom
  /\ Goto(c, "spawn")
  /\ UNCHANGED <<closed, capacity, running, idle, allDone, holds, list, invokes, accepted,
                 workVars, ctlVars>>

(* worker.run counts itself and starts; the object may be a used one. *)
Run(c) ==
  /\ caller[c] = "spawn"
  /\ \E w \in Workers :
       /\ worker[w] = "off"
       /\ worker' = [worker EXCEPT ![w] = "select"]
       /\ holds' = [holds EXCEPT ![c] = w]
  /\ running' = running + 1
  /\ Goto(c, "give")
  /\ UNCHANGED <<closed, capacity, idle, allDone, list, invokes, accepted,
                 arg, exit, signals, ended, panics, ctlVars>>

(* ErrPoolOverload *)
Overload(c) ==
  /\ Retries(c) /\ idle = <<>> /\ ~HasRoom /\ Waiting(c) >= MaxWaiting
  /\ Goto(c, "idle")
  /\ UNCHANGED <<closed, capacity, running, idle, allDone, holds, list, invokes, accepted,
                 workVars, ctlVars>>

DecideToWait(c) ==
  /\ Retries(c) /\ idle = <<>> /\ ~HasRoom /\ Waiting(c) < MaxWaiting
  /\ Goto(c, "wait")
  /\ UNCHANGED <<closed, capacity, running, idle, allDone, holds, list, invokes, accepted,
                 workVars, ctlVars>>

(* cond.Wait enters the list, then unlocks. *)
Wait(c) ==
  /\ caller[c] = "wait"
  /\ list' = Append(list, c)
  /\ Goto(c, "asleep")
  /\ UNCHANGED <<closed, capacity, running, idle, allDone, holds, invokes, accepted,
                 workVars, ctlVars>>

(* ErrPoolClosed after a wait *)
WokenByRelease(c) ==
  /\ caller[c] = "awake" /\ LockFree /\ closed
  /\ Goto(c, "idle")
  /\ UNCHANGED <<closed, capacity, running, idle, allDone, holds, list, invokes, accepted,
                 workVars, ctlVars>>

(* inputParam, on a channel of one place. *)
Give(c) ==
  /\ caller[c] = "give" /\ holds[c] \notin arg
  /\ arg' = arg \cup {holds[c]}
  /\ holds' = [holds EXCEPT ![c] = None]
  /\ accepted' = accepted + 1
  /\ Goto(c, "idle")
  /\ UNCHANGED <<closed, capacity, running, idle, allDone, list, invokes,
                 worker, exit, signals, ended, panics, ctlVars>>

-----------------------------------------------------------------------------
(* A worker goroutine. *)

WorkerGoto(w, pc) == worker' = [worker EXCEPT ![w] = pc]

Take(w) ==
  /\ worker[w] = "select" /\ w \in arg
  /\ arg' = arg \ {w}
  /\ WorkerGoto(w, "busy")
  /\ UNCHANGED <<closed, capacity, running, idle, allDone, exit, signals, ended, panics,
                 callVars, ctlVars>>

Quit(w) ==
  /\ worker[w] = "select" /\ w \in exit
  /\ exit' = exit \ {w}
  /\ WorkerGoto(w, "leave")
  /\ UNCHANGED <<closed, capacity, running, idle, allDone, arg, signals, ended, panics,
                 callVars, ctlVars>>

Return(w) ==
  /\ worker[w] = "busy"
  /\ ended' = ended + 1
  /\ WorkerGoto(w, "revert")
  /\ UNCHANGED <<closed, capacity, running, idle, allDone, arg, exit, signals, panics,
                 callVars, ctlVars>>

Panic(w) ==
  /\ worker[w] = "busy" /\ panics < MaxPanics
  /\ panics' = panics + 1 /\ ended' = ended + 1
  /\ WorkerGoto(w, "leave")
  /\ UNCHANGED <<closed, capacity, running, idle, allDone, arg, exit, signals, callVars, ctlVars>>

(* revertWorker before the lock: too many workers, or the pool is closed. *)
Surplus(w) ==
  /\ worker[w] = "revert" /\ (running > capacity \/ closed)
  /\ Broadcast
  /\ WorkerGoto(w, "leave")
  /\ UNCHANGED <<closed, capacity, running, idle, allDone, holds, invokes, accepted,
                 arg, exit, signals, ended, panics, ctlVars>>

Keep(w) ==
  /\ worker[w] = "revert" /\ ~(running > capacity \/ closed)
  /\ WorkerGoto(w, "insert")
  /\ UNCHANGED <<closed, capacity, running, idle, allDone, arg, exit, signals, ended, panics,
                 callVars, ctlVars>>

(* Mutant: no second look at the state. *)
Mut_TooLate == FALSE

(* revertWorker looks at the state again when it has the lock. *)
TooLate == closed

Insert(w) ==
  /\ worker[w] = "insert" /\ LockFree
  /\ IF TooLate
     THEN WorkerGoto(w, "leave") /\ UNCHANGED <<idle, caller, list>>
     ELSE WorkerGoto(w, "select") /\ idle' = Append(idle, w) /\ Signal
  /\ UNCHANGED <<closed, capacity, running, allDone, holds, invokes, accepted,
                 arg, exit, signals, ended, panics, ctlVars>>

(* The deferred function: count down, close allDone, back to the cache... *)
Leave(w) ==
  /\ worker[w] = "leave"
  /\ running' = running - 1
  /\ allDone' = (allDone \/ (running = 1 /\ closed))
  /\ signals' = signals + 1
  /\ WorkerGoto(w, "off")
  /\ UNCHANGED <<closed, capacity, idle, arg, exit, ended, panics, callVars, ctlVars>>

(* ...and the signal, when the object may already run again. *)
LastSignal ==
  /\ signals > 0
  /\ signals' = signals - 1
  /\ Signal
  /\ UNCHANGED <<closed, capacity, running, idle, allDone, holds, invokes, accepted,
                 worker, arg, exit, ended, panics, ctlVars>>

-----------------------------------------------------------------------------
(* The purge goroutine. *)

(* Mutant: refresh keeps the last expired worker. *)
Mut_Unexpired(n) == SubSeq(idle, IF n = 0 THEN 1 ELSE n, Len(idle))

(* The stack without the n workers that were not used for longest. *)
Unexpired(n) == SubSeq(idle, n + 1, Len(idle))

(* Mutant: only a pool without workers is dormant. *)
Mut_IsDormant(n) == FALSE

IsDormant(n) == running = 0 \/ running = n

(* A tick in an open pool. *)
PurgeTick ==
  /\ HasPurge /\ purge = "tick" /\ ~closed
  /\ purge' = "refresh"
  /\ UNCHANGED <<closed, capacity, running, idle, allDone, callVars, workVars,
                 expired, dormant, release, tune, tunes>>

(* What is next: the loop of finish, the look at Waiting(), the next tick. *)
Behind(left, isDormant) ==
  IF left # {} THEN "finish" ELSE IF isDormant THEN "check" ELSE "tick"

(* refresh, under the lock. *)
PurgeRefresh ==
  /\ purge = "refresh" /\ LockFree
  /\ \E n \in 0..Len(idle) :
       /\ idle' = Unexpired(n)
       /\ expired' = {idle[i] : i \in 1..n}
       /\ dormant' = IsDormant(n)
  /\ purge' = Behind(expired', dormant')
  /\ UNCHANGED <<closed, capacity, running, allDone, callVars, workVars, release, tune, tunes>>

(* finish of one expired worker, without the lock; nobody sees their order. *)
PurgeFinish(w) ==
  /\ purge = "finish" /\ w \in expired /\ w \notin exit
  /\ exit' = exit \cup {w}
  /\ expired' = expired \ {w}
  /\ purge' = Behind(expired', dormant)
  /\ UNCHANGED <<closed, capacity, running, idle, allDone, callVars,
                 worker, arg, signals, ended, panics, dormant, release, tune, tunes>>

(* Waiting() > 0, then the wake-up. *)
PurgeCheck ==
  /\ purge = "check"
  /\ purge' = IF Waiting(None) > 0 THEN "wake" ELSE "tick"
  /\ dormant' = FALSE
  /\ UNCHANGED <<closed, capacity, running, idle, allDone, callVars, workVars,
                 expired, release, tune, tunes>>

PurgeWake ==
  /\ purge = "wake"
  /\ purge' = "tick"
  /\ Broadcast
  /\ UNCHANGED <<closed, capacity, running, idle, allDone, holds, invokes, accepted,
                 workVars, expired, dormant, release, tune, tunes>>

(* The context is done, or the tick finds the pool closed: purgeDone. *)
PurgeEnds ==
  /\ HasPurge /\ purge = "tick" /\ closed
  /\ purge' = "done"
  /\ UNCHANGED <<closed, capacity, running, idle, allDone, callVars, workVars,
                 expired, dormant, release, tune, tunes>>

-----------------------------------------------------------------------------
(* ReleaseTimeout: Release, then wait for the workers. *)

Release ==
  /\ MayRelease /\ release = "none"
  /\ closed' = TRUE
  /\ release' = "reset"
  /\ UNCHANGED <<capacity, running, idle, allDone, callVars, workVars, purgeVars, tune, tunes>>

ReleaseReset ==
  /\ release = "reset" /\ LockFree
  /\ exit' = exit \cup {idle[i] : i \in 1..Len(idle)}
  /\ idle' = <<>>
  /\ release' = "broadcast"
  /\ UNCHANGED <<closed, capacity, running, allDone, callVars,
                 worker, arg, signals, ended, panics, purgeVars, tune, tunes>>

ReleaseBroadcast ==
  /\ release = "broadcast"
  /\ Broadcast
  /\ release' = "check"
  /\ UNCHANGED <<closed, capacity, running, idle, allDone, holds, invokes, accepted,
                 workVars, purgeVars, tune, tunes>>

ReleaseCheck ==
  /\ release = "check"
  /\ allDone' = (allDone \/ running = 0)
  /\ release' = "join"
  /\ UNCHANGED <<closed, capacity, running, idle, callVars, workVars, purgeVars, tune, tunes>>

(* ticktockDone comes about by itself: the clock goroutine takes no lock. *)
ReleaseReturns ==
  /\ release = "join" /\ allDone /\ running = 0
  /\ HasPurge => purge = "done"
  /\ release' = "joined"
  /\ UNCHANGED <<closed, capacity, running, idle, allDone, callVars, workVars,
                 purgeVars, tune, tunes>>

-----------------------------------------------------------------------------
Tune(n) ==
  /\ tunes < MaxTunes /\ tune = "none" /\ n # capacity
  /\ capacity' = n
  /\ tune' = CASE n = capacity + 1 -> "signal"
               [] n > capacity + 1 -> "broadcast"
               [] OTHER -> "none"
  /\ tunes' = tunes + 1
  /\ UNCHANGED <<closed, running, idle, allDone, callVars, workVars, purgeVars, release>>

TuneWakes ==
  /\ tune # "none"
  /\ IF tune = "signal" THEN Signal ELSE Broadcast
  /\ tune' = "none"
  /\ UNCHANGED <<closed, capacity, running, idle, allDone, holds, invokes, accepted,
                 workVars, purgeVars, release, tunes>>

CallerStep(c) ==
  Detach(c) \/ Grow(c) \/ Run(c) \/ Overload(c) \/ DecideToWait(c) \/ Wait(c)
  \/ WokenByRelease(c) \/ Give(c)

WorkerStep(w) ==
  Take(w) \/ Quit(w) \/ Return(w) \/ Surplus(w) \/ Keep(w) \/ Insert(w) \/ Leave(w)

PurgeStep ==
  PurgeTick \/ PurgeRefresh \/ (\E w \in Workers : PurgeFinish(w)) \/ PurgeCheck \/ PurgeWake
  \/ PurgeEnds

ReleaseStep == ReleaseReset \/ ReleaseBroadcast \/ ReleaseCheck \/ ReleaseReturns

Next ==
  \/ \E c \in Callers : Invoke(c) \/ CallerStep(c)
  \/ \E w \in Workers : WorkerStep(w) \/ Panic(w)
  \/ LastSignal
  \/ PurgeStep
  \/ Release \/ ReleaseStep
  \/ \E n \in Sizes : Tune(n)
  \/ TuneWakes

Spec == Init /\ [][Next]_vars

(* Every goroutine that can go on does, jobs end, and the ticker of the      *)
(* purge goroutine keeps ticking.  Nobody has to call Invoke, Release or     *)
(* Tune.                                                                     *)
Fairness ==
  /\ \A c \in Callers : WF_vars(CallerStep(c))
  /\ \A w \in Workers : WF_vars(WorkerStep(w))
  /\ WF_vars(LastSignal)
  /\ WF_vars(PurgeStep) /\ WF_vars(ReleaseStep) /\ WF_vars(TuneWakes)

FairSpec == Spec /\ Fairness

-----------------------------------------------------------------------------
(* Properties. *)

TypeOK ==
  /\ closed \in BOOLEAN /\ allDone \in BOOLEAN
  /\ capacity \in Sizes \cup {Size} /\ running \in Nat
  /\ caller \in [Callers -> CallerPCs] /\ holds \in [Callers -> Workers \cup {None}]
  /\ list \in Seq(Callers) /\ idle \in Seq(Workers)
  /\ worker \in [Workers -> WorkerPCs]
  /\ arg \subseteq Workers /\ exit \subseteq Workers
  /\ signals \in Nat
  /\ purge \in {"tick", "refresh", "finish", "check", "wake", "done"}
  /\ expired \subseteq Workers /\ dormant \in BOOLEAN
  /\ release \in {"none", "reset", "broadcast", "check", "join", "joined"}
  /\ tune \in {"none", "signal", "broadcast"}
  /\ invokes \in Nat /\ accepted \in Nat /\ ended \in Nat /\ panics \in Nat /\ tunes \in Nat

(* A job lies only in the channel of a worker that will take it: one that    *)
(* runs, was not told to leave and is not about to be.  purge and Release    *)
(* tell workers to leave after retrieveWorker may have handed them out.      *)
NoJobIsStranded == \A w \in arg : worker[w] = "select" /\ w \notin exit \cup expired

(* Callers that saw room at the same time can exceed the capacity, each by   *)
(* one worker and never more: with one caller, as the poll loops are, the    *)
(* pool keeps to a size it was given.                                        *)
Capacities == {Size} \cup IF tunes = 0 THEN {} ELSE Sizes
RunningIsBounded ==
  \E n \in Capacities :
    running + Cardinality({c \in Callers : caller[c] = "spawn"}) < n + Cardinality(Callers)

(* Release reaches every worker: once it has reset the stack, a worker that  *)
(* waits for work was told to leave, is among the expired ones the purge     *)
(* goroutine tells next, has a job to run first, or is in the hands of a     *)
(* caller that took it before; none was put back behind reset.               *)
ReleaseReachesAll ==
  release \notin {"none", "reset"} =>
    \A w \in Workers : worker[w] = "select" =>
      w \in arg \cup exit \cup expired \/ \E c \in Callers : holds[c] = w

(* The users make MaxInvokes calls; "in the end" is behind the last of them. *)

(* A job whose Invoke returned nil runs in the end, whatever happens to the  *)
(* pool.                                                                     *)
AcceptedJobsRun == <>[](accepted = ended)

(* No caller waits for ever in an open pool: a wake-up that falls between    *)
(* the decision to wait and the list is made good by the purge goroutine.    *)
(* In a closed pool a caller can stay behind asleep, and nowhere else: the   *)
(* last signal and Release's broadcast may both fall into that gap, and      *)
(* Release has stopped the purge goroutine (pool_common.go:320).             *)
InvokeReturns ==
  <>[](\A c \in Callers : caller[c] = "idle" \/ (closed /\ caller[c] = "asleep"))

(* ReleaseTimeout sees all workers and the purge goroutine off, with no      *)
(* time-out: somebody always closes allDone, no worker is put back behind    *)
(* reset, and those the purge goroutine took before are told to leave.       *)
ReleaseCompletes == <>[](release \in {"none", "joined"})
=============================================================================

--------------------------- MODULE Judging_proofs ---------------------------
(***************************************************************************)
(* Theorems about Judging: containers have one place each, and counters    *)
(* that are wrong between two recalculations are noticed.  The pool and    *)
(* the statistics share nothing but the jobs, so each has an invariant of  *)
(* its own.                                                                *)
(***************************************************************************)
EXTENDS Judging, FiniteSetTheorems, TLAPS

-----------------------------------------------------------------------------
(* The containers. *)

JobPCs == {"idle", "wait", "remove", "create", "run", "release", "done"}

PoolTypeOK ==
  /\ containers \in Seq(Pool!Names)
  /\ closed \in BOOLEAN
  /\ lost \subseteq Pool!Names
  /\ pc \in [Subs -> JobPCs]
  /\ held \in [Subs -> Pool!Names \cup {Pool!Empty, None}]

(* A job holds a name from Receive to the end of its call. *)
HeldInv == \A s \in Subs : held[s] = None <=> pc[s] \in {"idle", "wait", "done"}

(* The empty name comes from the closed channel only. *)
OpenInv == closed \/ \A s \in Subs : held[s] # Pool!Empty

PoolInv == PoolTypeOK /\ HeldInv /\ OpenInv /\ OnePlacePerContainer

LEMMA NamesAreNames ==
  /\ None \notin Pool!Names /\ Pool!Empty \notin Pool!Names /\ None # Pool!Empty
  /\ Pool!Names \subseteq Int
BY JudgingAssumption DEF Pool!Names, Pool!Empty

(* The actions that leave the channel and the names alone. *)
LEMMA HandsKept ==
  ASSUME PoolInv, NEW s \in Subs,
         containers' = containers, held' = held, lost' = lost, closed' = closed,
         NEW l \in JobPCs, pc' = [pc EXCEPT ![s] = l],
         l \in {"idle", "wait", "done"} <=> pc[s] \in {"idle", "wait", "done"}
  PROVE  PoolInv'
<1>1. PoolTypeOK'
  BY DEF PoolInv, PoolTypeOK
<1>2. HeldInv'
  BY DEF PoolInv, PoolTypeOK, HeldInv
<1>3. OpenInv' /\ OnePlacePerContainer'
  BY DEF PoolInv, OpenInv, OnePlacePerContainer, Pool!OnePlacePerContainer, Pool!InChannel
<1> QED BY <1>1, <1>2, <1>3 DEF PoolInv

(* OnePlacePerContainer, for any channel q, hands h and lost names l. *)
Has(q, x) == \E i \in 1..Len(q) : q[i] = x

Placed(q, h, l) ==
  /\ \A s \in Subs : h[s] # None => h[s] \in Pool!Names \ l /\ ~Has(q, h[s])
  /\ \A s, t \in Subs : h[s] = h[t] /\ h[s] # None => s = t
  /\ \A i, k \in 1..Len(q) : q[i] = q[k] => i = k
  /\ \A x \in Pool!Names : Has(q, x) => x \notin l
  /\ \A x \in Pool!Names : Has(q, x) \/ x \in l \/ \E s \in Subs : h[s] = x

LEMMA OnePlaceIsPlaced ==
  /\ OnePlacePerContainer <=> closed \/ Placed(containers, held, lost)
  /\ OnePlacePerContainer' <=> closed' \/ Placed(containers', held', lost')
BY DEF OnePlacePerContainer, Pool!OnePlacePerContainer, Pool!InChannel, Placed, Has

LEMMA HasTail ==
  ASSUME NEW S, NEW q \in Seq(S), q # <<>>, NEW x,
         \A i, k \in 1..Len(q) : q[i] = q[k] => i = k
  PROVE  Has(Tail(q), x) <=> Has(q, x) /\ x # Head(q)
<1>1. /\ Len(q) > 0 /\ Head(q) = q[1] /\ Len(Tail(q)) = Len(q) - 1
      /\ \A i \in 1..Len(Tail(q)) : Tail(q)[i] = q[i + 1]
  OBVIOUS
<1>2. ASSUME Has(q, x), x # Head(q)
      PROVE  Has(Tail(q), x)
  <2>1. PICK i \in 1..Len(q) : q[i] = x
    BY <1>2 DEF Has
  <2>2. i - 1 \in 1..Len(Tail(q)) /\ Tail(q)[i - 1] = x
    BY <1>1, <1>2, <2>1
  <2> QED BY <2>2 DEF Has
<1>3. ASSUME Has(Tail(q), x)
      PROVE  Has(q, x) /\ x # Head(q)
  <2>1. PICK i \in 1..Len(Tail(q)) : Tail(q)[i] = x
    BY <1>3 DEF Has
  <2>2. i + 1 \in 1..Len(q) /\ q[i + 1] = x /\ 1 \in 1..Len(q) /\ i + 1 # 1
    BY <1>1, <2>1
  <2>3. q[1] # q[i + 1]
    BY <2>2
  <2> QED BY <1>1, <2>2, <2>3 DEF Has
<1> QED BY <1>2, <1>3

LEMMA HasAppend ==
  ASSUME NEW S, NEW q \in Seq(S), NEW y \in S, NEW x
  PROVE  Has(Append(q, y), x) <=> Has(q, x) \/ x = y
<1>1. /\ Len(q) \in Nat /\ Len(Append(q, y)) = Len(q) + 1
      /\ \A i \in 1..Len(q) : Append(q, y)[i] = q[i]
      /\ Append(q, y)[Len(q) + 1] = y
  OBVIOUS
<1> QED BY <1>1 DEF Has

LEMMA ReceiveKeeps ==
  ASSUME PoolInv, NEW s \in Subs, Pool!Receive(s)
  PROVE  PoolInv'
<1> USE NamesAreNames
<1> DEFINE c == held'[s]
<1>1. /\ pc[s] = "wait" /\ held[s] = None
      /\ pc' \in [Subs -> JobPCs] /\ pc'[s] \in {"run", "remove"}
      /\ \A t \in Subs \ {s} : pc'[t] = pc[t]
      /\ closed' = closed /\ lost' = lost
  BY DEF PoolInv, PoolTypeOK, HeldInv, JobPCs, Pool!Receive, Pool!Goto
<1>2. CASE containers # <<>> /\ held' = [held EXCEPT ![s] = Head(containers)]
           /\ containers' = Tail(containers)
  <2>1. /\ containers \in Seq(Pool!Names) /\ Len(containers) > 0
        /\ c = containers[1] /\ c \in Pool!Names
        /\ containers' \in Seq(Pool!Names) /\ Len(containers') = Len(containers) - 1
        /\ \A i \in 1..Len(containers') : containers'[i] = containers[i + 1]
        /\ held' \in [Subs -> Pool!Names \cup {Pool!Empty, None}]
        /\ \A t \in Subs \ {s} : held'[t] = held[t]
    BY <1>2 DEF PoolInv, PoolTypeOK
  <2>2. PoolTypeOK'
    BY <1>1, <2>1 DEF PoolInv, PoolTypeOK
  <2>3. HeldInv' /\ OpenInv'
    BY <1>1, <2>1 DEF PoolInv, HeldInv, OpenInv
  <2>4. ASSUME ~closed
        PROVE  Placed(containers', held', lost')
    <3>1. Placed(containers, held, lost)
      BY <2>4, OnePlaceIsPlaced DEF PoolInv
    <3>2. Has(containers, c) /\ c \notin lost /\ c # None
      <4>1. 1 \in 1..Len(containers) /\ containers[1] = c
        BY <2>1
      <4>2. Has(containers, c)
        BY <4>1 DEF Has
      <4> QED BY <2>1, <3>1, <4>2 DEF Placed
    <3>3. \A x : Has(containers', x) <=> Has(containers, x) /\ x # c
      <4>1. \A i, k \in 1..Len(containers) : containers[i] = containers[k] => i = k
        BY <3>1 DEF Placed
      <4> QED BY <1>2, <2>1, <4>1, HasTail
    <3>4. \A t \in Subs : held'[t] # None =>
            held'[t] \in Pool!Names \ lost' /\ ~Has(containers', held'[t])
      BY <1>1, <2>1, <3>1, <3>2, <3>3 DEF Placed
    <3>5. \A t, u \in Subs : held'[t] = held'[u] /\ held'[t] # None => t = u
      BY <1>1, <2>1, <3>1, <3>2 DEF Placed
    <3>6. \A i, k \in 1..Len(containers') : containers'[i] = containers'[k] => i = k
      BY <2>1, <3>1 DEF Placed
    <3>7. \A x \in Pool!Names : Has(containers', x) => x \notin lost'
      BY <1>1, <3>1, <3>3 DEF Placed
    <3>8. \A x \in Pool!Names :
            Has(containers', x) \/ x \in lost' \/ \E t \in Subs : held'[t] = x
      BY <1>1, <2>1, <3>1, <3>3 DEF Placed
    <3> QED BY <3>4, <3>5, <3>6, <3>7, <3>8 DEF Placed
  <2>5. OnePlacePerContainer'
    BY <1>1, <2>4, OnePlaceIsPlaced DEF PoolInv, PoolTypeOK
  <2> QED BY <2>2, <2>3, <2>5 DEF PoolInv
<1>3. CASE containers = <<>> /\ closed /\ held' = [held EXCEPT ![s] = Pool!Empty]
           /\ containers' = containers
  <2>1. PoolTypeOK'
    BY <1>1, <1>3 DEF PoolInv, PoolTypeOK
  <2>2. HeldInv' /\ OpenInv'
    BY <1>1, <1>3 DEF PoolInv, PoolTypeOK, HeldInv, OpenInv
  <2>3. OnePlacePerContainer'
    BY <1>1, <1>3, OnePlaceIsPlaced
  <2> QED BY <2>1, <2>2, <2>3 DEF PoolInv
<1> QED BY <1>2, <1>3 DEF Pool!Receive
(* Release gives the name back, or loses it to the panic when the channel is  *)
(* closed.                                                                   *)
LEMMA ReleaseKeeps ==
  ASSUME PoolInv, NEW s \in Subs, Pool!Release(s)
  PROVE  PoolInv'
<1> USE NamesAreNames
<1> DEFINE c == held[s]
<1>1. /\ pc[s] = "release" /\ c # None /\ c \in Pool!Names \cup {Pool!Empty}
      /\ pc' = [pc EXCEPT ![s] = "done"] /\ held' = [held EXCEPT ![s] = None]
      /\ closed' = closed /\ lost' = lost
      /\ containers' = IF closed THEN containers ELSE Append(containers, c)
  BY DEF PoolInv, PoolTypeOK, HeldInv, JobPCs, Pool!Release, Pool!PutBack, Pool!Goto
<1>2. /\ held' \in [Subs -> Pool!Names \cup {Pool!Empty, None}] /\ held'[s] = None
      /\ \A t \in Subs \ {s} : held'[t] = held[t]
  BY <1>1 DEF PoolInv, PoolTypeOK
<1>3. ~closed => c \in Pool!Names
  BY <1>1 DEF PoolInv, OpenInv
<1>4. PoolTypeOK'
  BY <1>1, <1>2, <1>3 DEF PoolInv, PoolTypeOK, JobPCs
<1>5. HeldInv' /\ OpenInv'
  BY <1>1, <1>2 DEF PoolInv, PoolTypeOK, HeldInv, OpenInv
<1>6. ASSUME ~closed
      PROVE  Placed(containers', held', lost')
  <2>1. Placed(containers, held, lost)
    BY <1>6, OnePlaceIsPlaced DEF PoolInv
  <2>2. \A x : Has(containers', x) <=> Has(containers, x) \/ x = c
    BY <1>1, <1>3, <1>6, HasAppend DEF PoolInv, PoolTypeOK
  <2>3. ~Has(containers, c) /\ c \notin lost
    BY <1>1, <2>1 DEF Placed
  <2>4. \A t \in Subs : held'[t] # None =>
          held'[t] \in Pool!Names \ lost' /\ ~Has(containers', held'[t])
    BY <1>1, <1>2, <2>1, <2>2 DEF Placed
  <2>5. \A t, u \in Subs : held'[t] = held'[u] /\ held'[t] # None => t = u
    BY <1>2, <2>1 DEF Placed
  <2>6. \A i, k \in 1..Len(containers') : containers'[i] = containers'[k] => i = k
    <3>1. /\ Len(containers) \in Nat /\ Len(containers') = Len(containers) + 1
          /\ \A i \in 1..Len(containers) : containers'[i] = containers[i]
          /\ containers'[Len(containers) + 1] = c
      BY <1>1, <1>3, <1>6 DEF PoolInv, PoolTypeOK
    <3>2. \A i \in 1..Len(containers) : containers[i] # c
      BY <2>3 DEF Has
    <3> QED BY <2>1, <3>1, <3>2 DEF Placed
  <2>7. \A x \in Pool!Names : Has(containers', x) => x \notin lost'
    BY <1>1, <2>1, <2>2, <2>3 DEF Placed
  <2>8. \A x \in Pool!Names :
          Has(containers', x) \/ x \in lost' \/ \E t \in Subs : held'[t] = x
    BY <1>1, <1>2, <2>1, <2>2 DEF Placed
  <2> QED BY <2>4, <2>5, <2>6, <2>7, <2>8 DEF Placed
<1>7. OnePlacePerContainer'
  BY <1>1, <1>6, OnePlaceIsPlaced DEF PoolInv, PoolTypeOK
<1> QED BY <1>4, <1>5, <1>7 DEF PoolInv

(* A name whose container cannot be created again is lost. *)
LEMMA CreateFailsKeeps ==
  ASSUME PoolInv, NEW s \in Subs, Pool!CreateFails(s)
  PROVE  PoolInv'
<1> USE NamesAreNames
<1>1. /\ pc[s] = "create" /\ held[s] # None /\ held[s] \in Pool!Names \cup {Pool!Empty}
      /\ pc' = [pc EXCEPT ![s] = "done"] /\ held' = [held EXCEPT ![s] = None]
      /\ closed' = closed /\ containers' = containers
      /\ lost' = lost \cup ({held[s]} \ {Pool!Empty})
  BY DEF PoolInv, PoolTypeOK, HeldInv, JobPCs, Pool!CreateFails, Pool!Goto
<1>2. /\ held' \in [Subs -> Pool!Names \cup {Pool!Empty, None}] /\ held'[s] = None
      /\ \A t \in Subs \ {s} : held'[t] = held[t]
  BY <1>1 DEF PoolInv, PoolTypeOK
<1>3. PoolTypeOK'
  BY <1>1, <1>2 DEF PoolInv, PoolTypeOK, JobPCs
<1>4. HeldInv' /\ OpenInv'
  BY <1>1, <1>2 DEF PoolInv, PoolTypeOK, HeldInv, OpenInv
<1>5. ASSUME ~closed
      PROVE  Placed(containers', held', lost')
  <2>1. Placed(containers, held, lost)
    BY <1>5, OnePlaceIsPlaced DEF PoolInv
  <2>2. held[s] \in Pool!Names /\ lost' = lost \cup {held[s]}
    BY <1>1, <1>5 DEF PoolInv, OpenInv
  <2> QED BY <1>1, <1>2, <2>1, <2>2 DEF Placed
<1>6. OnePlacePerContainer'
  BY <1>1, <1>5, OnePlaceIsPlaced DEF PoolInv, PoolTypeOK
<1> QED BY <1>3, <1>4, <1>6 DEF PoolInv

(* Whatever Create does to containers in the docker daemon, until Shutdown    *)
(* the name in the job's hands is the one it received.                       *)
LEMMA CreateKeeps ==
  ASSUME PoolInv, NEW s \in Subs, Pool!Create(s)
  PROVE  PoolInv'
<1> USE NamesAreNames
<1>1. /\ pc[s] = "create" /\ held[s] # None /\ held[s] \in Pool!Names \cup {Pool!Empty}
      /\ pc' = [pc EXCEPT ![s] = "run"]
      /\ held' = [held EXCEPT ![s] = Pool!Index(held[s])]
      /\ closed' = closed /\ containers' = containers /\ lost' = lost
  BY DEF PoolInv, PoolTypeOK, HeldInv, JobPCs, Pool!Create, Pool!Goto
<1>2. CASE closed
  <2>1. Pool!Index(held[s]) \in Pool!Names
    BY <1>1, JudgingAssumption DEF Pool!Index, Pool!Names, Pool!Empty
  <2>2. PoolTypeOK'
    BY <1>1, <2>1 DEF PoolInv, PoolTypeOK, JobPCs
  <2>3. HeldInv' /\ OpenInv' /\ OnePlacePerContainer'
    BY <1>1, <1>2, <2>1, OnePlaceIsPlaced DEF PoolInv, PoolTypeOK, HeldInv, OpenInv
  <2> QED BY <2>2, <2>3 DEF PoolInv
<1>3. CASE ~closed
  <2>1. held' = held
    BY <1>1, <1>3 DEF PoolInv, PoolTypeOK, OpenInv, Pool!Index
  <2> QED BY <1>1, <2>1, HandsKept DEF JobPCs
<1> QED BY <1>2, <1>3 DEF PoolInv, PoolTypeOK

(* Shutdown releases the claim, and Drain moves when nothing is claimed. *)
LEMMA ContainersKeep ==
  ASSUME PoolInv, Containers
  PROVE  PoolInv'
<1>1. CASE Pool!Shutdown
  BY <1>1, OnePlaceIsPlaced DEF PoolInv, PoolTypeOK, HeldInv, OpenInv, Pool!Shutdown
<1>2. CASE Pool!Drain
  <2>1. /\ closed /\ closed' = closed /\ held' = held /\ pc' = pc /\ lost' = lost
        /\ containers # <<>> /\ containers' = Tail(containers)
    BY <1>2 DEF Pool!Drain
  <2>2. Tail(containers) \in Seq(Pool!Names)
    BY <2>1 DEF PoolInv, PoolTypeOK
  <2> QED BY <2>1, <2>2, OnePlaceIsPlaced DEF PoolInv, PoolTypeOK, HeldInv, OpenInv
<1>3. CASE \E c \in Pool!Names : Pool!Die(c)
  BY <1>3, OnePlaceIsPlaced DEF PoolInv, PoolTypeOK, HeldInv, OpenInv, Pool!Die
<1> QED BY <1>1, <1>2, <1>3 DEF Containers

LEMMA PoolInitially == Init => PoolInv
<1> SUFFICES ASSUME Init PROVE PoolInv
  OBVIOUS
<1> USE NamesAreNames, JudgingAssumption
<1>1. /\ containers = [i \in 1..PoolSize |-> i - 1] /\ closed = FALSE /\ lost = {}
      /\ pc = [j \in Subs |-> "idle"] /\ held = [j \in Subs |-> None]
  BY DEF Init, Pool!PoolInit
<1>2. /\ containers \in Seq(Pool!Names) /\ Len(containers) = PoolSize
      /\ \A i \in 1..PoolSize : containers[i] = i - 1
  BY <1>1 DEF Pool!Names
<1>3. PoolTypeOK /\ HeldInv /\ OpenInv
  BY <1>1, <1>2 DEF PoolTypeOK, HeldInv, OpenInv, JobPCs
<1>4. \A x \in Pool!Names : Has(containers, x)
  <2>1. ASSUME NEW x \in Pool!Names
        PROVE  Has(containers, x)
    <3>1. x + 1 \in 1..Len(containers) /\ containers[x + 1] = x
      BY <1>2 DEF Pool!Names
    <3> QED BY <3>1 DEF Has
  <2> QED BY <2>1
<1>5. Placed(containers, held, lost)
  BY <1>1, <1>2, <1>4 DEF Placed
<1> QED BY <1>3, <1>5, OnePlaceIsPlaced DEF PoolInv

LEMMA PoolStep == PoolInv /\ [Next]_vars => PoolInv'
<1> SUFFICES ASSUME PoolInv, [Next]_vars PROVE PoolInv'
  OBVIOUS
<1>1. CASE pool' = pool
  BY <1>1, OnePlaceIsPlaced
     DEF pool, PoolInv, PoolTypeOK, HeldInv, OpenInv
<1>2. CASE Containers
  BY <1>2, ContainersKeep
<1>3. ASSUME NEW s \in Subs, Deliver(s) \/ Acquire(s) \/ Execute(s) \/ Release(s)
      PROVE  PoolInv'
  <2>1. CASE Deliver(s)
    BY <2>1, HandsKept DEF Deliver, Pool!Begin, Pool!GiveUp, Pool!Goto, JobPCs
  <2>2. CASE Pool!Receive(s)
    BY <2>2, ReceiveKeeps
  <2>3. CASE Pool!RemoveOld(s)
    BY <2>3, HandsKept DEF Pool!RemoveOld, Pool!Goto, JobPCs
  <2>4. CASE Pool!Create(s)
    BY <2>4, CreateKeeps
  <2>5. CASE Pool!CreateFails(s)
    BY <2>5, CreateFailsKeeps
  <2>6. CASE Execute(s)
    BY <2>6, HandsKept DEF Execute, Pool!Run, Pool!Goto, JobPCs
  <2>7. CASE Release(s)
    BY <2>7, ReleaseKeeps DEF Release
  <2> QED BY <1>3, <2>1, <2>2, <2>3, <2>4, <2>5, <2>6, <2>7 DEF Acquire
<1>4. CASE \E s \in Subs : Submit(s)
  BY <1>1, <1>4 DEF Submit
<1>5. CASE Recalculate
  BY <1>1, <1>5 DEF Recalculate
<1>6. CASE UNCHANGED vars
  BY <1>1, <1>6 DEF vars, pool
<1> QED BY <1>2, <1>3, <1>4, <1>5, <1>6 DEF Next, JobStep

(* Until Shutdown a container is in the channel once, in the hands of one     *)
(* job, or lost (docker_pool.go:82).                                         *)
THEOREM ContainersStayInPlace == Spec => []OnePlacePerContainer
<1>1. PoolInv => OnePlacePerContainer
  BY DEF PoolInv
<1> QED BY <1>1, PoolInitially, PoolStep, PTL DEF Spec
-----------------------------------------------------------------------------
(* The counters. *)

Statuses == {"none", "new", "pending", "accepted", "rejected"}
Counts == [total : Nat, accepted : Nat]
Runs == [step : {"rest", "query", "loop", "set"}, todo : SUBSET Stats!Problems,
         before : SUBSET Subs, problem : SUBSET Stats!Problems, count : Counts]

StatsTypeOK ==
  /\ row \in [Subs -> Statuses]
  /\ counters \in [Stats!Problems -> Counts]
  /\ old \subseteq Subs /\ behind \subseteq Stats!Problems
  /\ since \in BOOLEAN /\ run \in Runs

(* lastRun does not go back. *)
TimeInv ==
  /\ old \subseteq Stats!Stamped /\ run.before \subseteq Stats!Stamped
  /\ run.step # "rest" => old \subseteq run.before

(* What has been counted is right, or p is behind. *)
Right(p, count) == count = Stats!Counted(p) \/ p \in behind

(* Until the query, wrong counters have a submission the query looks for. In *)
(* the loop they wait for their turn or are being set, or have a submission  *)
(* that the next query looks for.                                            *)
OneAtATime ==
  /\ run.step # "set" => run.problem = {}
  /\ \A p, q \in run.problem : p = q

RunInv ==
  \A p \in Stats!Problems :
    /\ run.step \in {"rest", "query"} => Right(p, counters[p]) \/ ~(Stats!Stored(p) \subseteq old)
    /\ run.step \in {"loop", "set"} =>
         \/ p \in run.problem
         \/ Right(p, counters[p])
         \/ ~(Stats!Stored(p) \subseteq IF p \in run.todo THEN old ELSE run.before)
    /\ p \in run.problem => Right(p, run.count) \/ ~(Stats!Stored(p) \subseteq run.before)

StatsInv == StatsTypeOK /\ TimeInv /\ OneAtATime /\ RunInv

LEMMA SameCardinality == \A S : Stats!Cardinality(S) = Cardinality(S)
BY DEF Stats!Cardinality, Cardinality

LEMMA CountsAreNumbers ==
  ASSUME NEW p
  PROVE  Stats!Counted(p) \in Counts
<1>1. /\ IsFiniteSet(Stats!Stored(p))
      /\ IsFiniteSet({s \in Stats!Stored(p) : row[s] = "accepted"})
  <2>1. Stats!Stored(p) \subseteq Subs
    BY DEF Stats!Stored
  <2> QED BY <2>1, FS_Subset, JudgingAssumption
<1> QED BY <1>1, FS_CardinalityType, SameCardinality DEF Stats!Counted, Counts

(* A row is inserted or judged. *)
LEMMA ChangeKeeps ==
  ASSUME StatsInv, NEW s \in Subs, row[s] \in {"new", "pending"},
         NEW st \in {"pending", "accepted", "rejected"}, Stats!Change(s, st)
  PROVE  StatsInv'
<1> DEFINE q == ProblemOf[s]
<1>1. /\ row' = [row EXCEPT ![s] = st]
      /\ counters' = counters /\ old' = old /\ run' = run /\ since' = since
      /\ behind' = IF s \in old \cup run.before THEN behind \cup {q} ELSE behind
      /\ q \in Stats!Problems
  BY DEF Stats!Change, Stats!Problems
<1>2. StatsTypeOK'
  BY <1>1 DEF StatsInv, StatsTypeOK, Statuses
<1>3. Stats!Stamped' = Stats!Stamped
  BY <1>1 DEF StatsInv, StatsTypeOK, Stats!Stamped
<1>4. TimeInv' /\ OneAtATime'
  BY <1>1, <1>3 DEF StatsInv, TimeInv, OneAtATime
<1>5. \A p \in Stats!Problems \ {q} :
        /\ Stats!Stored(p)' = Stats!Stored(p)
        /\ Stats!Counted(p)' = Stats!Counted(p)
        /\ p \in behind' <=> p \in behind
  <2>1. ASSUME NEW p \in Stats!Problems \ {q}
        PROVE  /\ Stats!Stored(p)' = Stats!Stored(p)
               /\ {t \in Stats!Stored(p)' : row'[t] = "accepted"}
                    = {t \in Stats!Stored(p) : row[t] = "accepted"}
    BY <1>1 DEF StatsInv, StatsTypeOK, Stats!Stored
  <2> QED BY <1>1, <2>1 DEF Stats!Counted
<1>6. Stats!Stored(q) \subseteq Stats!Stored(q)' /\ s \in Stats!Stored(q)'
  BY <1>1 DEF StatsInv, StatsTypeOK, Stats!Stored
<1>7. q \in behind' \/ (s \notin old' /\ s \notin run'.before)
  BY <1>1
<1>8. RunInv'
  <2>1. ASSUME NEW p \in Stats!Problems
        PROVE  /\ run'.step \in {"rest", "query"} =>
                    Right(p, counters[p])' \/ ~(Stats!Stored(p)' \subseteq old')
               /\ run'.step \in {"loop", "set"} =>
                    \/ p \in run'.problem
                    \/ Right(p, counters[p])'
                    \/ ~(Stats!Stored(p)' \subseteq IF p \in run'.todo THEN old' ELSE run'.before)
               /\ p \in run'.problem =>
                    Right(p, run.count)' \/ ~(Stats!Stored(p)' \subseteq run'.before)
    <3>1. CASE p = q
      <4>1. Right(p, counters[p])' \/ ~(Stats!Stored(p)' \subseteq old')
        BY <1>6, <1>7, <3>1 DEF Right
      <4>2. Right(p, counters[p])' \/ ~(Stats!Stored(p)' \subseteq run'.before)
        BY <1>6, <1>7, <3>1 DEF Right
      <4>3. Right(p, run.count)' \/ ~(Stats!Stored(p)' \subseteq run'.before)
        BY <1>6, <1>7, <3>1 DEF Right
      <4> QED BY <4>1, <4>2, <4>3
    <3>2. CASE p # q
      <4>1. /\ Stats!Stored(p)' = Stats!Stored(p)
            /\ Right(p, counters[p])' <=> Right(p, counters[p])
            /\ Right(p, run.count)' <=> Right(p, run.count)
        BY <1>1, <1>5, <3>2 DEF Right
      <4> QED BY <1>1, <4>1 DEF StatsInv, RunInv
    <3> QED BY <3>1, <3>2
  <2> QED BY <2>1 DEF RunInv
<1> QED BY <1>2, <1>4, <1>8 DEF StatsInv

LEMMA StampKeeps ==
  ASSUME StatsInv, NEW s \in Subs, Stats!Stamp(s)
  PROVE  StatsInv'
<1>1. /\ row[s] = "none" /\ row' = [row EXCEPT ![s] = "new"]
      /\ counters' = counters /\ old' = old /\ run' = run /\ behind' = behind
      /\ since' = since
  BY DEF Stats!Stamp
<1>2. StatsTypeOK' /\ TimeInv' /\ OneAtATime'
  BY <1>1 DEF StatsInv, StatsTypeOK, Statuses, TimeInv, OneAtATime, Stats!Stamped
<1>3. \A p \in Stats!Problems :
        /\ Stats!Stored(p)' = Stats!Stored(p)
        /\ Stats!Counted(p)' = Stats!Counted(p)
  <2>1. ASSUME NEW p \in Stats!Problems
        PROVE  /\ Stats!Stored(p)' = Stats!Stored(p)
               /\ {t \in Stats!Stored(p)' : row'[t] = "accepted"}
                    = {t \in Stats!Stored(p) : row[t] = "accepted"}
    BY <1>1 DEF StatsInv, StatsTypeOK, Stats!Stored
  <2> QED BY <2>1 DEF Stats!Counted
<1>4. RunInv'
  BY <1>1, <1>3 DEF StatsInv, RunInv, Right
<1> QED BY <1>2, <1>4 DEF StatsInv

(* The rows stay where they are while the recalculation takes a step. *)
LEMMA RowsStay ==
  ASSUME row' = row
  PROVE  /\ Stats!Stamped' = Stats!Stamped
         /\ \A p : Stats!Stored(p)' = Stats!Stored(p) /\ Stats!Counted(p)' = Stats!Counted(p)
BY DEF Stats!Stamped, Stats!Stored, Stats!Counted

LEMMA RecalculationKeeps ==
  ASSUME StatsInv, Stats!StatsStep
  PROVE  StatsInv'
<1>1. CASE Stats!RunStarts
  <2>1. /\ run.step = "rest" /\ run'.step = "query" /\ run'.problem = {}
        /\ run'.before = Stats!Stamped /\ run' \in Runs
        /\ row' = row /\ counters' = counters /\ old' = old /\ behind' = behind
        /\ since' = since
    <3>1. Stats!Stamped \subseteq Subs /\ Stats!Zero \in Counts
      BY DEF Stats!Stamped, Stats!Zero, Counts
    <3> QED BY <1>1, <3>1 DEF Stats!RunStarts, Stats!Rest, Runs
  <2>2. StatsTypeOK' /\ TimeInv' /\ OneAtATime'
    BY <2>1, RowsStay DEF StatsInv, StatsTypeOK, TimeInv, OneAtATime
  <2>3. RunInv'
    BY <2>1, RowsStay DEF StatsInv, OneAtATime, RunInv, Right
  <2> QED BY <2>2, <2>3 DEF StatsInv
<1>2. CASE Stats!Query
  <2>1. /\ run.step = "query" /\ run'.step = "loop" /\ run'.problem = run.problem
        /\ run'.count = run.count /\ run'.before = run.before /\ run' \in Runs
        /\ \A p \in Stats!Problems \ run'.todo : Stats!Stored(p) \subseteq old
        /\ row' = row /\ counters' = counters /\ old' = old /\ behind' = behind
        /\ since' = since
    BY <1>2 DEF StatsInv, StatsTypeOK, Stats!Query, Runs
  <2>2. StatsTypeOK' /\ TimeInv' /\ OneAtATime'
    BY <2>1, RowsStay DEF StatsInv, StatsTypeOK, TimeInv, OneAtATime
  <2>3. RunInv'
    BY <2>1, RowsStay DEF StatsInv, OneAtATime, RunInv, Right
  <2> QED BY <2>2, <2>3 DEF StatsInv
<1>3. ASSUME NEW p \in Stats!Problems, Stats!Count(p) \/ Stats!Misread(p)
      PROVE  StatsInv'
  <2>1. /\ run.step = "loop" /\ run'.step = "set" /\ p \in run.todo
        /\ run'.problem = {p} /\ run'.todo = run.todo \ {p}
        /\ run'.before = run.before /\ run' \in Runs
        /\ row' = row /\ counters' = counters /\ old' = old /\ since' = since
        /\ \/ run'.count = Stats!Counted(p) /\ behind' = behind \ {p}
           \/ behind' = behind \cup {p}
    <3>1. Stats!Counted(p) \in Counts /\ Stats!Zero \in Counts
      BY CountsAreNumbers DEF Stats!Zero, Counts
    <3>2. PICK count \in Counts : Stats!Takes(p, count)
      BY <1>3, <3>1 DEF Stats!Count, Stats!Misread
    <3>3. /\ run.step = "loop" /\ run'.step = "set" /\ p \in run.todo
          /\ run'.problem = {p} /\ run'.todo = run.todo \ {p}
          /\ run'.before = run.before /\ run' \in Runs
      BY <3>2 DEF StatsInv, StatsTypeOK, Stats!Takes, Runs
    <3>4. Stats!Count(p) => run'.count = Stats!Counted(p)
      BY DEF StatsInv, StatsTypeOK, Stats!Count, Stats!Takes, Runs
    <3> QED BY <1>3, <3>3, <3>4 DEF Stats!Count, Stats!Misread
  <2>2. StatsTypeOK' /\ TimeInv' /\ OneAtATime'
    BY <2>1, RowsStay DEF StatsInv, StatsTypeOK, TimeInv, OneAtATime
  <2>3. Right(p, run.count)' /\ \A x \in Stats!Problems \ {p} :
          x \notin run'.problem /\ (Right(x, counters[x])' <=> Right(x, counters[x]))
    BY <2>1, RowsStay DEF Right
  <2>4. RunInv'
    BY <2>1, <2>3, RowsStay DEF StatsInv, OneAtATime, RunInv
  <2> QED BY <2>2, <2>4 DEF StatsInv
<1>4. ASSUME NEW p \in Stats!Problems, Stats!SetCounters(p)
      PROVE  StatsInv'
  <2>1. /\ run.step = "set" /\ run'.step = "loop" /\ p \in run.problem
        /\ run'.problem = {} /\ run'.todo = run.todo
        /\ run'.before = run.before /\ run' \in Runs /\ run.count \in Counts
        /\ row' = row /\ old' = old /\ since' = since
        /\ \/ counters' = [counters EXCEPT ![p] = run.count] /\ behind' = behind
           \/ behind' = behind \cup {p} /\ counters' = counters
    <3>1. Stats!Zero \in Counts
      BY DEF Stats!Zero, Counts
    <3> QED BY <1>4, <3>1 DEF StatsInv, StatsTypeOK, Stats!SetCounters, Runs
  <2>2. StatsTypeOK' /\ TimeInv' /\ OneAtATime'
    BY <1>4, <2>1, RowsStay DEF StatsInv, StatsTypeOK, TimeInv, OneAtATime
  <2>3. /\ Right(p, counters[p])' \/ ~(Stats!Stored(p)' \subseteq run'.before)
        /\ \A x \in Stats!Problems : x # p =>
             (Right(x, counters[x])' <=> Right(x, counters[x]))
    BY <1>4, <2>1, RowsStay DEF StatsInv, StatsTypeOK, RunInv, Right
  <2>4. \A x \in Stats!Problems : x \in run.problem <=> x = p
    BY <1>4, <2>1 DEF StatsInv, OneAtATime
  <2>5. ASSUME NEW x \in Stats!Problems
        PROVE  \/ Right(x, counters[x])'
               \/ ~(Stats!Stored(x)' \subseteq IF x \in run'.todo THEN old' ELSE run'.before)
    <3>1. CASE x = p
      <4>1. Right(p, counters[p])' \/ ~(Stats!Stored(p)' \subseteq old')
        BY <2>1, <2>3 DEF StatsInv, TimeInv
      <4> QED BY <2>3, <3>1, <4>1
    <3>2. CASE x # p
      BY <2>1, <2>3, <2>4, <3>2, RowsStay DEF StatsInv, RunInv
    <3> QED BY <3>1, <3>2
  <2>6. RunInv'
    BY <2>1, <2>5 DEF RunInv
  <2> QED BY <2>2, <2>6 DEF StatsInv
<1>5. CASE Stats!RunEnds
  <2>1. /\ run.step = "loop" /\ run.todo = {} /\ run'.step = "rest"
        /\ run'.problem = {} /\ run'.before = {} /\ run' \in Runs
        /\ row' = row /\ counters' = counters /\ old' = run.before /\ behind' = behind
        /\ since' \in BOOLEAN
    <3>1. Stats!Zero \in Counts
      BY DEF Stats!Zero, Counts
    <3> QED BY <1>5, <3>1 DEF Stats!RunEnds, Stats!LastRun, Stats!Rest, Runs
  <2>2. StatsTypeOK' /\ TimeInv' /\ OneAtATime'
    BY <2>1, RowsStay DEF StatsInv, StatsTypeOK, TimeInv, OneAtATime, Runs
  <2>3. RunInv'
    BY <2>1, RowsStay DEF StatsInv, OneAtATime, RunInv, Right
  <2> QED BY <2>2, <2>3 DEF StatsInv
<1>6. CASE Stats!RunFails
  <2>1. /\ run.step \in {"query", "loop"} /\ run'.step = "rest"
        /\ run'.problem = {} /\ run'.before = {} /\ run' \in Runs
        /\ row' = row /\ counters' = counters /\ old' = old /\ behind' = behind
        /\ since' = since
    <3>1. Stats!Zero \in Counts
      BY DEF Stats!Zero, Counts
    <3> QED BY <1>6, <3>1 DEF Stats!RunFails, Stats!Rest, Runs
  <2>2. StatsTypeOK' /\ TimeInv' /\ OneAtATime'
    BY <2>1, RowsStay DEF StatsInv, StatsTypeOK, TimeInv, OneAtATime
  <2>3. old \subseteq run.before
    BY <2>1 DEF StatsInv, TimeInv
  <2>4. RunInv'
    BY <2>1, <2>3, RowsStay DEF StatsInv, OneAtATime, RunInv, Right
  <2> QED BY <2>2, <2>4 DEF StatsInv
<1> QED BY <1>1, <1>2, <1>3, <1>4, <1>5, <1>6 DEF Stats!StatsStep

LEMMA StatsInitially == Init => StatsInv
<1> SUFFICES ASSUME Init PROVE StatsInv
  OBVIOUS
<1>1. /\ row = [s \in Subs |-> "none"] /\ counters = [p \in Stats!Problems |-> Stats!Zero]
      /\ old = {} /\ behind = {} /\ run = Stats!Rest /\ since = FALSE
  BY DEF Init, Stats!StatsInit
<1>2. Stats!Zero \in Counts
  BY DEF Stats!Zero, Counts
<1>3. StatsTypeOK /\ TimeInv /\ OneAtATime
  BY <1>1, <1>2 DEF StatsTypeOK, TimeInv, OneAtATime, Statuses, Runs, Stats!Rest
<1>4. \A p : Stats!Counted(p) = Stats!Zero
  <2>1. \A p : Stats!Stored(p) = {} /\ {s \in Stats!Stored(p) : row[s] = "accepted"} = {}
    BY <1>1 DEF Stats!Stored
  <2> QED BY <2>1, FS_EmptySet, SameCardinality DEF Stats!Counted, Stats!Zero
<1>5. RunInv
  BY <1>1, <1>4 DEF RunInv, Right, Stats!Rest
<1> QED BY <1>3, <1>5 DEF StatsInv

LEMMA StatsNext == StatsInv /\ [Next]_vars => StatsInv'
<1> SUFFICES ASSUME StatsInv, [Next]_vars PROVE StatsInv'
  OBVIOUS
<1>1. CASE stats' = stats
  <2>1. /\ row' = row /\ counters' = counters /\ old' = old /\ run' = run /\ behind' = behind
        /\ since' = since
    BY <1>1 DEF stats
  <2> QED BY <2>1, RowsStay DEF StatsInv, StatsTypeOK, TimeInv, OneAtATime, RunInv, Right
<1>2. ASSUME NEW s \in Subs, NEW accepted \in BOOLEAN, Verdict(s, accepted)
      PROVE  StatsInv'
  <2>1. CASE Stats!Judge(s, accepted)
    BY <2>1, ChangeKeeps DEF Stats!Judge
  <2>2. CASE Stats!NotWritten(s)
    <3>1. /\ row' = row /\ counters' = counters /\ old' = old /\ run' = run /\ behind' = behind
          /\ since' = since
      BY <2>2 DEF Stats!NotWritten
    <3> QED BY <3>1, RowsStay DEF StatsInv, StatsTypeOK, TimeInv, OneAtATime, RunInv, Right
  <2> QED BY <1>2, <2>1, <2>2 DEF Verdict
<1>3. ASSUME NEW s \in Subs, Submit(s)
      PROVE  StatsInv'
  <2>1. CASE Stats!Stamp(s)
    BY <2>1, StampKeeps
  <2>2. CASE Stats!Insert(s)
    BY <2>2, ChangeKeeps DEF Stats!Insert
  <2> QED BY <1>3, <2>1, <2>2 DEF Submit
<1>4. ASSUME NEW s \in Subs, JobStep(s)
      PROVE  StatsInv'
  <2>1. CASE Deliver(s) \/ Release(s)
    BY <1>1, <1>2, <2>1 DEF Deliver, Release
  <2>2. CASE Acquire(s)
    BY <1>1, <1>2, <2>2 DEF Acquire
  <2>3. CASE Execute(s)
    BY <1>2, <2>3 DEF Execute
  <2> QED BY <1>4, <2>1, <2>2, <2>3 DEF JobStep
<1>5. CASE Containers
  BY <1>1, <1>5 DEF Containers
<1>6. CASE Recalculate
  BY <1>6, RecalculationKeeps DEF Recalculate
<1>7. CASE UNCHANGED vars
  BY <1>1, <1>7 DEF vars, stats
<1> QED BY <1>3, <1>4, <1>5, <1>6, <1>7 DEF Next

(* Between two recalculations, a problem with wrong counters has a submission *)
(* the next one looks for, or is behind (cron.go:27).                        *)
THEOREM WrongCountersAreNoticed == Spec => []WrongIsNoticed
<1>1. StatsInv => WrongIsNoticed
  BY DEF StatsInv, RunInv, Right, WrongIsNoticed, Stats!WrongIsNoticed
<1> QED BY <1>1, StatsInitially, StatsNext, PTL DEF Spec
=============================================================================

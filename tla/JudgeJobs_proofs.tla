-------------------------- MODULE JudgeJobs_proofs --------------------------
(***************************************************************************)
(* Theorems about what a run of processSubmission leaves behind, on top of *)
(* the inductive invariant of JudgePipeline_proofs.                        *)
(*                                                                         *)
(* A container moves between the channel and the jobs that are past        *)
(* Acquire, one at a time (HoldInv).  While nothing has failed, what a job *)
(* has left behind is decided by where it stands (TraceInv).  With one     *)
(* goroutine the check and the insert of a first solve meet no other job   *)
(* (SoloInv, FirstInv).                                                    *)
(***************************************************************************)
EXTENDS JudgePipeline_proofs, FiniteSetTheorems, SequenceTheorems

HoldInv == IsFiniteSet(Holders) /\ ContainersConserved

HoldingPCs == {"judge", "count", "check", "insert", "publish", "release"}

-----------------------------------------------------------------------------
(* Containers. *)

(* How a step can touch the channel and the holders.  *)
HoldersStay ==
  /\ Holders' = Holders /\ faults' \in {faults, faults + 1}
  /\ containers' = containers
  /\ phase' = phase \/ (phase = "up" /\ phase' = "stopped")

ContainerIsLost ==
  /\ Holders' = Holders /\ faults' = faults + 1 /\ phase' = phase
  /\ containers > 0 /\ containers' = containers - 1

HolderEnters(s) ==
  /\ s \notin Holders /\ Holders' = Holders \cup {s}
  /\ faults' = faults /\ phase' = phase
  /\ (containers > 0 /\ containers' = containers - 1) \/ phase = "shut"

HolderLeaves(s) ==
  /\ s \in Holders /\ Holders' = Holders \ {s}
  /\ faults' = faults /\ phase' = phase
  /\ containers' = IF phase = "shut" THEN containers ELSE containers + 1

AllLeave == Holders' = {} /\ containers' = PoolSize /\ faults' = faults

PoolIsShut == Holders' = Holders /\ phase' = "shut"

LEMMA HoldersMove ==
  ASSUME IInv, Next
  PROVE  \/ HoldersStay \/ ContainerIsLost \/ AllLeave \/ PoolIsShut
         \/ \E s \in Subs : HolderEnters(s) \/ HolderLeaves(s)
<1>t. job \in [Subs -> Job] /\ containers \in Nat /\ faults \in Nat
  BY DEF IInv, TypeOK, JobsOK, HistoryOK
<1> USE DEF Holders, Fault, NoFault
<1>1. ASSUME NEW s \in Subs, AcquireContainer(s)
      PROVE  HolderEnters(s) \/ ContainerIsLost \/ HoldersStay
  <2>1. job[s].pc = "acquire" /\ phase' = phase
    BY <1>1 DEF AcquireContainer, SaveFailed
  <2>2. ASSUME Goto(s, "judge") PROVE Holders' = Holders \cup {s}
    BY <2>2, <1>t DEF Goto, Job
  <2>3. ASSUME Goto(s, "idle") PROVE Holders' = Holders
    BY <2>1, <2>3, <1>t DEF Goto, Job
  <2> QED
    BY <1>1, <2>1, <2>2, <2>3
       DEF AcquireContainer, SaveFailed, HolderEnters, ContainerIsLost, HoldersStay
<1>2. ASSUME NEW s \in Subs, ReleaseContainer(s) PROVE HolderLeaves(s)
  <2>1. job[s].pc = "release" /\ Goto(s, "idle")
    BY <1>2 DEF ReleaseContainer
  <2>2. s \in Holders /\ Holders' = Holders \ {s}
    BY <2>1, <1>t DEF Goto, Job
  <2> QED
    BY <1>2, <2>2 DEF ReleaseContainer, HolderLeaves
<1>3. ASSUME NEW s \in Subs,
             BeginJudging(s) \/ Judge(s) \/ CountSubmission(s) \/ CheckFirstSolve(s)
               \/ InsertUserSolved(s) \/ PublishExpReward(s)
      PROVE  HoldersStay
  <2>1. /\ \A t \in Subs : t # s => job'[t] = job[t]
        /\ job'[s].pc \in HoldingPCs <=> job[s].pc \in HoldingPCs
    <3>1. CASE BeginJudging(s)
      BY <3>1, <1>t DEF BeginJudging, Goto, Job, HoldingPCs
    <3>2. CASE Judge(s)
      BY <3>2, <1>t DEF Judge, SaveFailed, Goto, Job, HoldingPCs
    <3>3. CASE CountSubmission(s)
      BY <3>3, <1>t DEF CountSubmission, CountFailed, AfterCount, Goto, Job, HoldingPCs
    <3>4. CASE CheckFirstSolve(s) \/ InsertUserSolved(s) \/ PublishExpReward(s)
      BY <3>4, <1>t DEF CheckFirstSolve, InsertUserSolved, PublishExpReward, Goto, Job,
                        HoldingPCs
    <3> QED
      BY <1>3, <3>1, <3>2, <3>3, <3>4
  <2>2. Holders' = Holders
    BY <2>1 DEF HoldingPCs
  <2>3. faults' \in {faults, faults + 1} /\ containers' = containers /\ phase' = phase
    BY <1>3 DEF BeginJudging, SaveRow, Judge, SaveFailed, CountSubmission, CountFailed,
                CheckFirstSolve, InsertUserSolved, PublishExpReward
  <2> QED
    BY <2>2, <2>3 DEF HoldersStay
<1>4. CASE Dispatch
  <2> DEFINE s == judgeLog[disp + 1]
  <2>1. s \in Subs /\ disp + 1 \in 1..Len(judgeLog)
    BY <1>4 DEF Dispatch, NextRecord, IInv, TypeOK, QueueOK, ConsumerOK
  <2>2. job[s].pc = "idle"
    BY <2>1 DEF IInv, DispatchInv, TypeOK, ConsumerOK
  <2>3. job' = [job EXCEPT ![s] = [NoJob EXCEPT !.pc = "load"]]
        /\ UNCHANGED <<containers, phase, faults>>
    BY <1>4 DEF Dispatch, NextRecord
  <2> HIDE DEF s
  <2> QED
    BY <1>t, <2>1, <2>2, <2>3 DEF NoJob, Job, HoldersStay
<1>5. CASE Restart
  BY <1>5 DEF Restart, NoJob, AllLeave
<1>6. CASE Stop \/ Shutdown
  BY <1>6 DEF Stop, Shutdown, history, HoldersStay, PoolIsShut
<1>7. ASSUME FlushJudge \/ FlushExp \/ Poll \/ Refuse \/ Commit
             \/ \E s \in Subs : InsertRow(s) \/ SendJob(s)
      PROVE  HoldersStay
  BY <1>7 DEF FlushJudge, FlushExp, LingerFlush, Poll, Refuse, Commit, InsertRow, SendJob,
              HoldersStay
<1> HIDE DEF Holders, Fault, NoFault
<1> QED
  BY <1>1, <1>2, <1>3, <1>4, <1>5, <1>6, <1>7 DEF Next, JobStep

LEMMA HoldStep == IInv /\ HoldInv /\ [Next]_vars => HoldInv'
<1> SUFFICES ASSUME IInv, HoldInv, [Next]_vars PROVE HoldInv'
  OBVIOUS
<1>t. containers \in Nat /\ faults \in Nat /\ PoolSize \in Nat
  BY PipelineAssumption DEF IInv, TypeOK, JobsOK, HistoryOK
<1>f. IsFiniteSet(Holders) /\ Cardinality(Holders) \in Nat
  BY FS_CardinalityType DEF HoldInv
<1>1. CASE UNCHANGED vars
  <2>1. Holders' = Holders
    BY <1>1 DEF vars, Holders
  <2> QED
    BY <1>1, <2>1 DEF vars, HoldInv, ContainersConserved
<1> USE DEF HoldInv, ContainersConserved
<1>2. ASSUME NEW s \in Subs, HolderEnters(s) PROVE HoldInv'
  <2>1. IsFiniteSet(Holders') /\ Cardinality(Holders') = Cardinality(Holders) + 1
    BY <1>2, <1>f, FS_AddElement DEF HolderEnters
  <2> QED
    BY <1>t, <1>f, <1>2, <2>1 DEF HolderEnters
<1>3. ASSUME NEW s \in Subs, HolderLeaves(s) PROVE HoldInv'
  <2>1. IsFiniteSet(Holders') /\ Cardinality(Holders') = Cardinality(Holders) - 1
    BY <1>3, <1>f, FS_RemoveElement DEF HolderLeaves
  <2> QED
    BY <1>t, <1>f, <1>3, <2>1 DEF HolderLeaves
<1>4. CASE AllLeave
  BY <1>t, <1>4, FS_EmptySet DEF AllLeave
<1>5. CASE HoldersStay \/ ContainerIsLost
  BY <1>t, <1>f, <1>5 DEF HoldersStay, ContainerIsLost
<1>6. CASE PoolIsShut
  BY <1>6 DEF PoolIsShut
<1> QED
  BY <1>1, <1>2, <1>3, <1>4, <1>5, <1>6, HoldersMove

LEMMA HoldInit == Init => HoldInv
<1> SUFFICES ASSUME Init PROVE HoldInv
  OBVIOUS
<1>1. Holders = {}
  BY DEF Init, Holders, NoJob
<1> QED
  BY <1>1, FS_EmptySet, PipelineAssumption DEF Init, HoldInv, ContainersConserved

(* Until the pool is shut, no container is created or given up by mistake:   *)
(* channel and jobs together hold PoolSize of them but for one per failure,  *)
(* for any number of goroutines and containers.                              *)
THEOREM ContainersAddUp == Spec => []ContainersConserved
<1>1. HoldInv => ContainersConserved
  BY DEF HoldInv
<1> QED
  BY Inductive, HoldInit, HoldStep, <1>1, PTL DEF Spec

-----------------------------------------------------------------------------
(* The EXP events. *)

Events == expLog \o expBuf
EventOf(s) == [pair |-> PairOf[s], first |-> job[s].first]

LEMMA EventTypes ==
  ASSUME TypeOK
  PROVE  /\ expLog \in Seq(Event) /\ expBuf \in Seq(Event) /\ Events \in Seq(Event)
         /\ \A s \in Subs : EventOf(s) \in Event
         /\ faults \in Nat /\ restarts \in Nat
  BY ConcatProperties, PipelineAssumption
     DEF TypeOK, QueueOK, JobsOK, HistoryOK, Job, Event, Events, EventOf

(* An event that is published without a failure joins the others at the end, *)
(* whether its batch stays in the buffer or is flushed.                      *)
LEMMA PublishAppends ==
  ASSUME TypeOK, NEW s \in Subs, PublishExpReward(s), faults' = faults
  PROVE  Events' = Append(Events, EventOf(s))
<1> DEFINE e == EventOf(s)
<1>1. \/ expBuf' = Append(expBuf, e) /\ expLog' = expLog
      \/ expBuf' = <<>> /\ expLog' = expLog \o Append(expBuf, e)
  <2>1. ~Fault
    BY EventTypes DEF Fault
  <2> QED
    BY <2>1 DEF PublishExpReward, EventOf
<1>2. e \in Event
  BY EventTypes
<1> HIDE DEF e
<1>3. /\ Append(expBuf, e) = expBuf \o <<e>> /\ <<e>> \in Seq(Event)
      /\ Append(expBuf, e) \in Seq(Event) /\ expLog \o expBuf \in Seq(Event)
  <2>1. expBuf \in Seq(Event) /\ expLog \in Seq(Event)
    BY EventTypes
  <2>2. Append(expBuf, e) = expBuf \o <<e>>
    BY <1>2, <2>1, AppendIsConcat
  <2>3. Append(expBuf, e) \in Seq(Event)
    BY <1>2, <2>1, AppendProperties
  <2>4. <<e>> \in Seq(Event)
    BY <1>2
  <2>5. expLog \o expBuf \in Seq(Event)
    BY <2>1, ConcatProperties
  <2> QED
    BY <2>2, <2>3, <2>4, <2>5
<1>4. expLog \o Append(expBuf, e) = Append(expLog \o expBuf, e)
  <2>1. (expLog \o expBuf) \o <<e>> = expLog \o (expBuf \o <<e>>)
    <3>1. expLog \in Seq(Event) /\ expBuf \in Seq(Event) /\ <<e>> \in Seq(Event)
      BY <1>3, EventTypes
    <3> QED
      BY <3>1, ConcatAssociative
  <2>2. Append(expLog \o expBuf, e) = (expLog \o expBuf) \o <<e>>
    BY <1>2, <1>3, AppendIsConcat
  <2> QED
    BY <1>3, <2>1, <2>2
<1>5. (expLog \o Append(expBuf, e)) \o <<>> = expLog \o Append(expBuf, e)
  <2>1. expLog \o Append(expBuf, e) \in Seq(Event)
    BY <1>3, EventTypes, ConcatProperties
  <2> QED
    BY <2>1, ConcatEmptySeq
<1> QED
  BY <1>1, <1>4, <1>5 DEF e, Events

(* Without a failure or a restart an event is only ever added. *)
LEMMA EventsMove ==
  ASSUME TypeOK, Next, faults' = faults
  PROVE  \/ Events' = Events
         \/ Restart /\ Events' = expLog
         \/ \E s \in Subs : PublishExpReward(s) /\ Events' = Append(Events, EventOf(s))
<1> USE DEF Events, expQueue
<1>1. CASE UNCHANGED expQueue
  BY <1>1
<1>2. CASE FlushExp
  <2>1. expLog' = expLog \o expBuf /\ expBuf' = <<>>
    BY <1>2, EventTypes DEF FlushExp, LingerFlush, Fault
  <2> QED
    BY <2>1, EventTypes, ConcatEmptySeq
<1>3. CASE Restart
  BY <1>3, EventTypes, ConcatEmptySeq DEF Restart
<1>4. ASSUME NEW s \in Subs, PublishExpReward(s)
      PROVE  Events' = Append(Events, EventOf(s))
  BY <1>4, PublishAppends
<1> QED
  BY <1>1, <1>2, <1>3, <1>4
     DEF Next, JobStep, InsertRow, SendJob, FlushJudge, Poll, Dispatch, Refuse, Commit,
         Stop, Shutdown, BeginJudging, AcquireContainer, Judge, SaveFailed,
         CountSubmission, CheckFirstSolve, InsertUserSolved, ReleaseContainer

Sent(p) == \E i \in 1..Len(Events) : Events[i].pair = p

LEMMA SentStays ==
  ASSUME TypeOK, [Next]_vars, faults' = faults, ~Restart, NEW p
  PROVE  Sent(p) => Sent(p)'
<1>1. CASE Events' = Events
  BY <1>1 DEF Sent
<1>2. ASSUME NEW s \in Subs, Events' = Append(Events, EventOf(s)) PROVE Sent(p) => Sent(p)'
  <2>1. /\ Len(Append(Events, EventOf(s))) = Len(Events) + 1 /\ Len(Events) \in Nat
        /\ \A i \in 1..Len(Events) : Append(Events, EventOf(s))[i] = Events[i]
    BY EventTypes, AppendProperties
  <2> QED
    BY <1>2, <2>1 DEF Sent
<1>3. CASE UNCHANGED vars
  BY <1>1, <1>3 DEF vars, expQueue, Events
<1> QED
  BY <1>1, <1>2, <1>3, EventsMove

LEMMA PublishSends ==
  ASSUME TypeOK, NEW s \in Subs, PublishExpReward(s), faults' = faults
  PROVE  Sent(PairOf[s])'
<1>1. Events' = Append(Events, EventOf(s))
  BY PublishAppends
<1>2. Events \in Seq(Event) /\ EventOf(s) \in Event /\ EventOf(s).pair = PairOf[s]
  BY EventTypes DEF EventOf
<1>3. /\ Len(Events') = Len(Events) + 1 /\ Len(Events) \in Nat
      /\ Events'[Len(Events) + 1] = EventOf(s)
  BY <1>1, <1>2, AppendProperties
<1> QED
  BY <1>2, <1>3 DEF Sent

-----------------------------------------------------------------------------
(* What a job has left behind. *)

Clean == faults = 0 /\ restarts = 0

Rewarded(s) == PairOf[s] \in solved /\ Sent(PairOf[s])

Trace(s) ==
  /\ Undecided(s) => ~Judged(s) /\ counted[s] = 0
  /\ job[s].pc = "count" =>
       Judged(s) /\ counted[s] = 0 /\ db[s].status = job[s].verdict
  /\ job[s].pc \in {"check", "insert", "publish"} =>
       db[s].status = "accepted" /\ counted[s] = 1
  /\ job[s].pc = "publish" => PairOf[s] \in solved
  /\ job[s].pc \in {"release", "idle"} /\ Judged(s) =>
       counted[s] = 1 /\ (db[s].status = "accepted" => Rewarded(s))

TraceInv == Clean => \A s \in Subs : Trace(s)

LEMMA FaultsGrow ==
  ASSUME TypeOK, [Next]_vars
  PROVE  /\ faults' >= faults /\ faults' \in Nat
         /\ restarts' >= restarts /\ (Restart => restarts' > restarts)
<1>t. faults \in Nat /\ restarts \in Nat
  BY DEF TypeOK, HistoryOK
<1> USE DEF Fault, NoFault
<1>1. ASSUME NEW s \in Subs, JobStep(s)
      PROVE  faults' \in {faults, faults + 1} /\ restarts' = restarts
  BY <1>1 DEF JobStep, BeginJudging, AcquireContainer, Judge, SaveFailed, SaveRow,
              CountSubmission, CheckFirstSolve, InsertUserSolved, PublishExpReward,
              ReleaseContainer, history
<1>2. ASSUME FlushJudge \/ FlushExp \/ Poll \/ Dispatch \/ Refuse \/ Commit \/ Stop
             \/ Shutdown \/ \E s \in Subs : InsertRow(s) \/ SendJob(s)
      PROVE  faults' \in {faults, faults + 1} /\ restarts' = restarts
  BY <1>2 DEF FlushJudge, FlushExp, LingerFlush, Poll, Dispatch, Refuse, Commit, Stop,
     Shutdown, InsertRow, SendJob, history
<1>3. ASSUME Restart PROVE faults' = faults /\ restarts' = restarts + 1
  BY <1>3 DEF Restart
<1>4. ASSUME UNCHANGED vars PROVE faults' = faults /\ restarts' = restarts
  BY <1>4 DEF vars, history
<1>5. ~(Restart /\ restarts' = restarts)
  BY <1>t, <1>3
<1> QED
  BY <1>t, <1>1, <1>2, <1>3, <1>4, <1>5 DEF Next

(* Nothing of a submission's trace changes but by its own steps. *)
LEMMA TraceKept ==
  ASSUME NEW s \in Subs, Trace(s), job'[s] = job[s], db'[s] = db[s],
         counted'[s] = counted[s], solved \subseteq solved',
         Sent(PairOf[s]) => Sent(PairOf[s])'
  PROVE  Trace(s)'
  BY DEF Trace, Undecided, Judged, Rewarded

LEMMA TraceStep == IInv /\ TraceInv /\ [Next]_vars => TraceInv'
<1> SUFFICES ASSUME IInv, TraceInv, [Next]_vars, Clean'
             PROVE  \A s \in Subs : Trace(s)'
  BY DEF TraceInv
<1>t. /\ counted \in [Subs -> Nat] /\ delivered \in [Subs -> Nat]
      /\ job \in [Subs -> Job] /\ db \in [Subs -> Row]
      /\ TypeOK /\ LogInv /\ DispatchInv /\ JobInv
  BY DEF IInv, TypeOK, RowsOK, JobsOK, HistoryOK
<1>c. /\ Clean /\ ~Restart /\ faults' = faults /\ faults' # faults + 1
      /\ \A s \in Subs : Trace(s)
  BY <1>t, FaultsGrow DEF Clean, TraceInv, TypeOK, HistoryOK
<1>e. \A s \in Subs : Sent(PairOf[s]) => Sent(PairOf[s])'
  BY <1>t, <1>c, SentStays
<1> HIDE DEF Trace
<1>1. ASSUME NEW s \in Subs, InsertRow(s) PROVE \A u \in Subs : Trace(u)'
  <2>1. /\ \A u \in Subs : u # s => db'[u] = db[u]
        /\ UNCHANGED <<job, counted, solved>>
        /\ db'[s].status = "pending"
    BY <1>1, <1>t DEF InsertRow, Row
  <2>2. delivered[s] = 0
    <3>1. ~(delivered[s] > 0)
      BY <1>1, <1>t DEF InsertRow, Fresh, DispatchInv, LogInv, NoneFresh
    <3> QED
      BY <1>t, <3>1
  <2>3. job[s].pc = "idle" /\ counted[s] = 0
    BY <1>t, <2>2 DEF DispatchInv, JobInv
  <2>4. Trace(s)'
    BY <2>1, <2>3 DEF Trace, Undecided, Judged, Verdicts
  <2> QED
    BY <1>c, <1>e, <2>1, <2>4, TraceKept
<1>2. CASE Dispatch
  <2>n. /\ disp \in Nat /\ disp + 1 \in 1..Len(judgeLog)
        /\ judgeLog[disp + 1] \in Subs
    <3>1. disp < pos
      BY <1>2 DEF Dispatch
    <3> QED
      BY <1>t, <3>1 DEF TypeOK, QueueOK, ConsumerOK
  <2>1. PICK s \in Subs : s = judgeLog[disp + 1]
    BY <2>n
  <2>2. delivered[s] = 0
    <3>1. disp + 1 > disp
      BY <2>n
    <3>2. delivered[s] <= restarts
      BY <1>t, <2>n, <2>1, <3>1 DEF DispatchInv
    <3> QED
      BY <1>t, <1>c, <3>2 DEF Clean
  <2>3. job' = [job EXCEPT ![s] = [NoJob EXCEPT !.pc = "load"]]
        /\ UNCHANGED <<db, counted, solved>>
    BY <1>2, <2>1 DEF Dispatch, NextRecord, rowVars
  <2>4. job'[s].pc = "load" /\ \A u \in Subs : u # s => job'[u] = job[u]
    BY <1>t, <2>1, <2>3 DEF NoJob, Job
  <2>5. counted[s] = 0 /\ ~Judged(s)
    BY <1>t, <2>1, <2>2 DEF JobInv
  <2>6. Trace(s)'
    BY <2>3, <2>4, <2>5 DEF Trace, Undecided, Judged
  <2> QED
    BY <1>c, <1>e, <2>1, <2>3, <2>4, <2>6, TraceKept
<1>3. ASSUME NEW s \in Subs, JobStep(s) PROVE \A u \in Subs : Trace(u)'
  <2>1. /\ \A u \in Subs : u # s =>
             job'[u] = job[u] /\ db'[u] = db[u] /\ counted'[u] = counted[u]
        /\ solved \subseteq solved'
    BY <1>3, <1>t DEF JobStep, BeginJudging, SaveRow, AcquireContainer, Judge, SaveFailed,
                      CountSubmission, CountFailed, CheckFirstSolve, InsertUserSolved,
                      PublishExpReward, ReleaseContainer, Goto, rowVars
  <2>2. ASSUME BeginJudging(s) PROVE Trace(s)'
    <3>1. /\ job[s].pc = "load" /\ job'[s].pc = "acquire" /\ counted' = counted
          /\ db'[s].status \in {"judging", db[s].status}
      BY <1>c, <1>t, <2>2 DEF BeginJudging, SaveRow, Fault, Job, Row
    <3> QED
      BY <1>c, <3>1 DEF Trace, Undecided, Judged, Verdicts
  <2>3. ASSUME AcquireContainer(s) PROVE Trace(s)'
    <3>1. job[s].pc = "acquire" /\ job'[s].pc = "judge" /\ UNCHANGED <<db, counted>>
      BY <1>c, <1>t, <2>3 DEF AcquireContainer, SaveFailed, Fault, Goto, Job
    <3> QED
      BY <1>c, <3>1 DEF Trace, Undecided, Judged
  <2>4. ASSUME Judge(s) PROVE Trace(s)'
    <3>1. PICK o \in Outcomes :
            /\ db' = [db EXCEPT ![s] = [status |-> o[1], passed |-> PassedAfter(s, o[2]),
                                        total |-> TestCount]]
            /\ job' = [job EXCEPT ![s].pc = "count", ![s].verdict = o[1]]
      BY <1>c, <2>4 DEF Judge, SaveFailed, SaveRow, Fault
    <3>2. job[s].pc = "judge" /\ counted' = counted /\ o[1] \in Verdicts
      BY <2>4 DEF Judge, SaveFailed, Outcomes
    <3>3. db'[s].status = o[1]
      BY <1>t, <3>1
    <3>4. job'[s].pc = "count" /\ job'[s].verdict = o[1]
      BY <1>t, <3>1 DEF Job
    <3> QED
      BY <1>c, <3>2, <3>3, <3>4 DEF Trace, Undecided, Judged
  <2>5. ASSUME CountSubmission(s) PROVE Trace(s)'
    <3>1. /\ job[s].pc = "count" /\ UNCHANGED <<db, solved>> /\ counted'[s] = counted[s] + 1
          /\ job'[s].pc = (IF job[s].verdict = "accepted" THEN "check" ELSE "release")
      BY <1>c, <1>t, <2>5 DEF CountSubmission, Fault, Goto, AfterCount, Job
    <3> QED
      BY <1>c, <1>e, <3>1 DEF Trace, Undecided, Judged
  <2>6. ASSUME CheckFirstSolve(s) PROVE Trace(s)'
    <3>1. job[s].pc = "check" /\ job'[s].pc = "insert" /\ UNCHANGED <<db, counted>>
      BY <1>t, <2>6 DEF CheckFirstSolve, rowVars, Goto, Job
    <3> QED
      BY <1>c, <3>1 DEF Trace, Undecided, Judged
  <2>7. ASSUME InsertUserSolved(s) PROVE Trace(s)'
    <3>1. /\ job[s].pc = "insert" /\ job'[s].pc = "publish" /\ UNCHANGED <<db, counted>>
          /\ PairOf[s] \in solved'
      BY <1>c, <1>t, <2>7 DEF InsertUserSolved, Fault, Goto, Job
    <3> QED
      BY <1>c, <3>1 DEF Trace, Undecided, Judged
  <2>8. ASSUME PublishExpReward(s) PROVE Trace(s)'
    <3>1. /\ job[s].pc = "publish" /\ job'[s].pc = "release"
          /\ UNCHANGED <<db, counted, solved>>
      BY <1>t, <2>8 DEF PublishExpReward, rowVars, Goto, Job
    <3>2. Sent(PairOf[s])'
      BY <1>t, <1>c, <2>8, PublishSends
    <3> QED
      BY <1>c, <3>1, <3>2 DEF Trace, Undecided, Judged, Rewarded
  <2>9. ASSUME ReleaseContainer(s) PROVE Trace(s)'
    <3>1. /\ job[s].pc = "release" /\ job'[s].pc = "idle"
          /\ UNCHANGED <<db, counted, solved>>
      BY <1>t, <2>9 DEF ReleaseContainer, rowVars, Goto, Job
    <3> QED
      BY <1>c, <1>e, <3>1 DEF Trace, Undecided, Judged, Rewarded
  <2>10. Trace(s)'
    BY <1>3, <2>2, <2>3, <2>4, <2>5, <2>6, <2>7, <2>8, <2>9 DEF JobStep
  <2> QED
    BY <1>c, <1>e, <2>1, <2>10, TraceKept
<1>4. CASE UNCHANGED <<rowVars, job>>
  BY <1>4, <1>c, <1>e, TraceKept DEF rowVars
<1> QED
  BY <1>1, <1>2, <1>3, <1>4, <1>c
     DEF Next, vars, SendJob, FlushJudge, FlushExp, Poll, Refuse, Commit, Stop, Shutdown

LEMMA TraceInit == Init => TraceInv
  BY DEF Init, TraceInv, Trace, Undecided, Judged, NoJob, Verdicts

(* As long as nothing failed and nothing restarted, a finished job has left  *)
(* its submission counted and, if accepted, a solved row and an event,       *)
(* whatever the other jobs did in between.                                   *)
THEOREM JobsAreAccountedFor == Spec => []FinishedJobIsAccountedFor
<1>1. TraceInv => FinishedJobIsAccountedFor
  BY DEF TraceInv, Clean, Trace, Rewarded, Sent, Events, FinishedJobIsAccountedFor
<1> QED
  BY Inductive, TraceInit, TraceStep, <1>1, PTL DEF Spec

-----------------------------------------------------------------------------
(* The first solve, with one goroutine. *)

IsFirst(i, p) == i \in 1..Len(Events) /\ Events[i] = [pair |-> p, first |-> TRUE]

SoloInv ==
  \A s, t \in Subs : job[s].pc # "idle" /\ job[t].pc # "idle" => s = t

FirstInv ==
  /\ \A p \in Pairs, i \in Nat : IsFirst(i, p) => p \in solved
  /\ \A p \in Pairs, i, j \in Nat : IsFirst(i, p) /\ IsFirst(j, p) => i = j
  /\ \A s \in Subs : job[s].pc = "insert" /\ job[s].first => PairOf[s] \notin solved
  /\ \A s \in Subs : job[s].pc = "publish" =>
       /\ PairOf[s] \in solved
       /\ job[s].first => \A i \in Nat : ~IsFirst(i, PairOf[s])

(* A pool of one goroutine has room only when no job runs. *)
LEMMA RoomIsEmpty ==
  ASSUME WorkerCount = 1, SoloInv, PoolHasRoom
  PROVE  \A s \in Subs : job[s].pc = "idle"
<1> SUFFICES ASSUME NEW s \in Subs, job[s].pc # "idle" PROVE FALSE
  OBVIOUS
<1>1. Running = {s}
  BY DEF Running, SoloInv
<1>2. Cardinality(Running) = 1
  BY <1>1, FS_Singleton
<1> QED
  BY <1>2 DEF PoolHasRoom

LEMMA SoloStep ==
  ASSUME WorkerCount = 1, TypeOK, SoloInv, [Next]_vars
  PROVE  SoloInv'
<1>t. job \in [Subs -> Job]
  BY DEF TypeOK, JobsOK
<1>1. CASE Dispatch
  <2>1. \A s \in Subs : job[s].pc = "idle"
    BY <1>1, RoomIsEmpty DEF Dispatch
  <2>2. \A s \in Subs : s # judgeLog[disp + 1] => job'[s] = job[s]
    BY <1>1, <1>t DEF Dispatch
  <2> QED
    BY <2>1, <2>2 DEF SoloInv
<1>2. ASSUME NEW s \in Subs, JobStep(s) PROVE SoloInv'
  <2>1. job[s].pc # "idle" /\ \A t \in Subs : t # s => job'[t] = job[t]
    BY <1>2, <1>t DEF JobStep, BeginJudging, AcquireContainer, Judge, SaveFailed,
                      CountSubmission, CountFailed, CheckFirstSolve, InsertUserSolved,
                      PublishExpReward, ReleaseContainer, Goto
  <2> QED
    BY <2>1 DEF SoloInv
<1>3. CASE Restart
  BY <1>3 DEF Restart, NoJob, SoloInv
<1>4. CASE UNCHANGED job
  BY <1>4 DEF SoloInv
<1> QED
  BY <1>1, <1>2, <1>3, <1>4
     DEF Next, vars, InsertRow, SendJob, FlushJudge, FlushExp, Poll, Refuse, Commit,
         Stop, Shutdown

(* What a step does to the first-solve events. *)
LEMMA FirstEventsMove ==
  ASSUME TypeOK, [Next]_vars, faults' = faults, NEW p \in Pairs, NEW i \in Nat,
         IsFirst(i, p)'
  PROVE  \/ IsFirst(i, p)
         \/ \E s \in Subs : /\ PublishExpReward(s) /\ i = Len(Events) + 1
                            /\ p = PairOf[s] /\ job[s].first
<1>1. CASE Events' = Events
  BY <1>1 DEF IsFirst
<1>2. CASE Events' = expLog
  <2>1. /\ Len(Events) = Len(expLog) + Len(expBuf)
        /\ Len(expLog) \in Nat /\ Len(expBuf) \in Nat
        /\ \A k \in 1..Len(expLog) : Events[k] = expLog[k]
    BY EventTypes, ConcatProperties DEF Events
  <2> QED
    BY <1>2, <2>1 DEF IsFirst
<1>3. ASSUME NEW s \in Subs, PublishExpReward(s), Events' = Append(Events, EventOf(s))
      PROVE  IsFirst(i, p) \/ (i = Len(Events) + 1 /\ p = PairOf[s] /\ job[s].first)
  <2>1. /\ Len(Events') = Len(Events) + 1 /\ Len(Events) \in Nat
        /\ \A k \in 1..Len(Events) : Events'[k] = Events[k]
        /\ Events'[Len(Events) + 1] = EventOf(s)
    BY <1>3, EventTypes, AppendProperties
  <2>2. CASE i = Len(Events) + 1
    <3>1. EventOf(s) = [pair |-> p, first |-> TRUE]
      BY <2>1, <2>2 DEF IsFirst
    <3>2. EventOf(s).pair = p /\ EventOf(s).first = TRUE
      BY <3>1
    <3> QED
      BY <2>2, <3>2 DEF EventOf
  <2>3. CASE i # Len(Events) + 1
    <3>1. i \in 1..Len(Events) /\ Events'[i] = [pair |-> p, first |-> TRUE]
      BY <2>1, <2>3 DEF IsFirst
    <3>2. Events'[i] = Events[i]
      BY <2>1, <3>1
    <3> QED
      BY <3>1, <3>2 DEF IsFirst
  <2> QED
    BY <2>2, <2>3
<1>4. CASE UNCHANGED vars
  BY <1>1, <1>4 DEF vars, expQueue, Events
<1> QED
  BY <1>1, <1>2, <1>3, <1>4, EventsMove

LEMMA FirstStep ==
  ASSUME WorkerCount = 1, MaxFaults = 0, TypeOK, SoloInv, FirstInv, [Next]_vars
  PROVE  FirstInv'
<1>t. /\ job \in [Subs -> Job] /\ solved \subseteq Pairs /\ faults \in Nat
      /\ PairOf \in [Subs -> Pairs]
  BY PipelineAssumption DEF TypeOK, JobsOK, RowsOK, HistoryOK
<1>f. ~Fault
  BY <1>t DEF Fault
<1>u. faults' = faults
  BY <1>f DEF Next, vars, NoFault, JobStep, BeginJudging, AcquireContainer, Judge,
              SaveFailed, SaveRow, CountSubmission, CheckFirstSolve, InsertUserSolved,
              PublishExpReward, ReleaseContainer, FlushJudge, FlushExp, LingerFlush, Poll,
              Dispatch, Refuse, Commit, Stop, Shutdown, InsertRow, SendJob, Restart
<1> DEFINE Publishes == \E s \in Subs : PublishExpReward(s)
<1>e. ~Publishes => \A p \in Pairs, i \in Nat : IsFirst(i, p)' => IsFirst(i, p)
  BY <1>u, FirstEventsMove
<1>1. ASSUME NEW s \in Subs, PublishExpReward(s) PROVE FirstInv'
  <2>1. /\ job[s].pc = "publish" /\ job'[s].pc = "release" /\ solved' = solved
        /\ \A t \in Subs : t # s => job'[t] = job[t] /\ job[t].pc = "idle"
    BY <1>1, <1>t DEF PublishExpReward, rowVars, Goto, Job, SoloInv
  <2>2. \A u \in Subs : PublishExpReward(u) => u = s
    BY <2>1 DEF PublishExpReward
  <2>3. ASSUME NEW p \in Pairs, NEW i \in Nat, IsFirst(i, p)'
        PROVE  \/ IsFirst(i, p)
               \/ i = Len(Events) + 1 /\ p = PairOf[s] /\ job[s].first
    BY <1>u, <2>2, <2>3, FirstEventsMove
  <2>4. PairOf[s] \in solved /\ (job[s].first => \A i \in Nat : ~IsFirst(i, PairOf[s]))
    BY <2>1 DEF FirstInv
  <2>5. \A p \in Pairs, i \in Nat : IsFirst(i, p)' => p \in solved'
    BY <2>1, <2>3, <2>4 DEF FirstInv
  <2>6. \A p \in Pairs, i, j \in Nat : IsFirst(i, p)' /\ IsFirst(j, p)' => i = j
    BY <2>3, <2>4 DEF FirstInv
  <2> QED
    BY <2>1, <2>5, <2>6 DEF FirstInv
<1>2. ASSUME NEW s \in Subs, CheckFirstSolve(s) PROVE FirstInv'
  <2>1. /\ job' = [job EXCEPT ![s].pc = "insert", ![s].first = PairOf[s] \notin solved]
        /\ solved' = solved /\ job[s].pc = "check"
    BY <1>2, <1>f DEF CheckFirstSolve, rowVars
  <2>2. /\ \A t \in Subs : t # s => job'[t] = job[t] /\ job[t].pc = "idle"
        /\ job'[s].pc = "insert" /\ job'[s].first = (PairOf[s] \notin solved)
    BY <1>t, <2>1 DEF Job, SoloInv
  <2>3. ~Publishes
    BY <2>1, <2>2 DEF PublishExpReward
  <2> QED
    BY <1>e, <2>1, <2>2, <2>3 DEF FirstInv
<1>3. ASSUME NEW s \in Subs, InsertUserSolved(s) PROVE FirstInv'
  <2>1. /\ job' = [job EXCEPT ![s].pc = "publish"]
        /\ solved' = solved \cup {PairOf[s]} /\ job[s].pc = "insert"
    BY <1>3, <1>f DEF InsertUserSolved, Goto
  <2>2. /\ \A t \in Subs : t # s => job'[t] = job[t] /\ job[t].pc = "idle"
        /\ job'[s].pc = "publish" /\ job'[s].first = job[s].first
    BY <1>t, <2>1 DEF Job, SoloInv
  <2>3. ~Publishes
    BY <2>1, <2>2 DEF PublishExpReward
  <2>4. job[s].first => \A i \in Nat : ~IsFirst(i, PairOf[s])
    BY <1>t, <2>1 DEF FirstInv
  <2> QED
    BY <1>t, <1>e, <2>1, <2>2, <2>3, <2>4 DEF FirstInv
<1>4. ASSUME solved' = solved, ~Publishes,
             \A s \in Subs : job'[s].pc \in {"insert", "publish"} => job'[s] = job[s]
      PROVE  FirstInv'
  <2>1. \A p \in Pairs, i \in Nat : IsFirst(i, p)' => IsFirst(i, p)
    BY <1>e, <1>4
  <2>2. ASSUME NEW s \in Subs, job'[s].pc = "insert", job'[s].first
        PROVE  PairOf[s] \notin solved'
    <3>1. job'[s] = job[s]
      BY <1>4, <2>2
    <3> QED
      BY <1>4, <2>2, <3>1 DEF FirstInv
  <2>3. ASSUME NEW s \in Subs, job'[s].pc = "publish"
        PROVE  /\ PairOf[s] \in solved'
               /\ job'[s].first => \A i \in Nat : ~IsFirst(i, PairOf[s])'
    <3>1. job'[s] = job[s] /\ PairOf[s] \in Pairs
      BY <1>t, <1>4, <2>3
    <3> QED
      BY <1>4, <2>1, <2>3, <3>1 DEF FirstInv
  <2> QED
    BY <1>4, <2>1, <2>2, <2>3 DEF FirstInv
<1>5. ASSUME NEW s \in Subs,
             BeginJudging(s) \/ AcquireContainer(s) \/ Judge(s) \/ CountSubmission(s)
               \/ ReleaseContainer(s)
      PROVE  FirstInv'
  <2>1. /\ solved' = solved /\ job'[s].pc \notin {"insert", "publish"}
        /\ job[s].pc # "publish" /\ job[s].pc # "idle"
        /\ \A t \in Subs : t # s => job'[t] = job[t]
    <3>1. CASE BeginJudging(s)
      BY <3>1, <1>t DEF BeginJudging, Goto, Job
    <3>2. CASE AcquireContainer(s)
      <4>1. solved' = solved /\ job[s].pc = "acquire" /\ (Goto(s, "judge") \/ Goto(s, "idle"))
        BY <3>2 DEF AcquireContainer, SaveFailed
      <4> QED
        BY <4>1, <1>t DEF Goto, Job
    <3>3. CASE Judge(s)
      BY <3>3, <1>t DEF Judge, SaveFailed, Goto, Job
    <3>4. CASE CountSubmission(s)
      BY <3>4, <1>t DEF CountSubmission, CountFailed, AfterCount, Goto, Job
    <3>5. CASE ReleaseContainer(s)
      BY <3>5, <1>t DEF ReleaseContainer, rowVars, Goto, Job
    <3> QED
      BY <1>5, <3>1, <3>2, <3>3, <3>4, <3>5
  <2>2. ~Publishes
    BY <2>1 DEF PublishExpReward, SoloInv
  <2> QED
    BY <1>4, <2>1, <2>2
<1>6. CASE Dispatch
  <2>1. \A s \in Subs : job[s].pc = "idle"
    BY <1>6, RoomIsEmpty DEF Dispatch
  <2>2. job' = [job EXCEPT ![judgeLog[disp + 1]] = [NoJob EXCEPT !.pc = "load"]]
        /\ solved' = solved
    BY <1>6 DEF Dispatch, rowVars
  <2>3. \A s \in Subs : job'[s].pc \notin {"insert", "publish"}
    BY <1>t, <2>1, <2>2 DEF NoJob
  <2>4. ~Publishes
    BY <2>1 DEF PublishExpReward
  <2> QED
    BY <1>4, <2>2, <2>3, <2>4
<1>7. CASE Restart
  <2>1. solved' = solved /\ \A s \in Subs : job'[s].pc = "idle"
    BY <1>7 DEF Restart, rowVars, NoJob
  <2>2. ~Publishes
    <3>1. restarts' # restarts
      BY <1>7 DEF Restart, TypeOK, HistoryOK
    <3> QED
      BY <3>1 DEF PublishExpReward, history
  <2> QED
    BY <1>4, <2>1, <2>2
<1>8. ASSUME UNCHANGED <<solved, job>> PROVE FirstInv'
  <2>1. ASSUME NEW s \in Subs, PublishExpReward(s) PROVE FALSE
    <3>1. job[s].pc = "publish" /\ job' = [job EXCEPT ![s].pc = "release"] /\ job' = job
      BY <1>8, <2>1 DEF PublishExpReward, Goto
    <3>2. job'[s].pc = "release"
      BY <1>t, <3>1 DEF Job
    <3> QED
      BY <3>1, <3>2
  <2> QED
    BY <1>4, <1>8, <2>1
<1> QED
  BY <1>1, <1>2, <1>3, <1>5, <1>6, <1>7, <1>8
     DEF Next, JobStep, vars, rowVars, InsertRow, SendJob, FlushJudge, FlushExp, Poll,
         Refuse, Commit, Stop, Shutdown

LEMMA FirstInit == Init => SoloInv /\ FirstInv
<1> SUFFICES ASSUME Init PROVE SoloInv /\ FirstInv
  OBVIOUS
<1>1. Len(Events) = 0
  BY ConcatType, EmptyLen, EmptySeq DEF Init, Events
<1> QED
  BY <1>1 DEF Init, NoJob, SoloInv, FirstInv, IsFirst

(* One goroutine and a database that answers: at most one event of a user    *)
(* and a problem claims the first solve, however many submissions there are  *)
(* and wherever the process dies.                                            *)
THEOREM OneGoroutineSolvesOnce ==
  WorkerCount = 1 /\ MaxFaults = 0 => (Spec => []FirstSolveOnce)
<1> SUFFICES ASSUME WorkerCount = 1, MaxFaults = 0
             PROVE  Spec => []FirstSolveOnce
  OBVIOUS
<1>1. TypeOK /\ SoloInv /\ FirstInv /\ [Next]_vars => (SoloInv /\ FirstInv)'
  BY SoloStep, FirstStep
<1>2. FirstInv => FirstSolveOnce
  <2> SUFFICES ASSUME FirstInv, NEW p \in Pairs PROVE Cardinality(FirstEvents(p)) <= 1
    BY DEF FirstSolveOnce
  <2>1. \A i : i \in FirstEvents(p) => IsFirst(i, p) /\ i \in Nat
    BY DEF FirstEvents, IsFirst, Events
  <2>2. CASE FirstEvents(p) = {}
    BY <2>2, FS_EmptySet
  <2>3. ASSUME NEW i \in FirstEvents(p) PROVE Cardinality(FirstEvents(p)) <= 1
    <3>1. FirstEvents(p) = {i}
      BY <2>1 DEF FirstInv
    <3> QED
      BY <3>1, FS_Singleton
  <2> QED
    BY <2>2, <2>3
<1> QED
  BY TypeCorrect, FirstInit, <1>1, <1>2, PTL DEF Spec
=============================================================================

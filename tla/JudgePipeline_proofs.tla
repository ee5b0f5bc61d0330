----------------------- MODULE JudgePipeline_proofs -----------------------
(***************************************************************************)
(* Theorems about JudgePipeline, for every set of submissions and every    *)
(* value of the bounds.                                                    *)
(*                                                                         *)
(* The inductive invariant IInv says why one log record is one delivery    *)
(* per process: a submission occurs once in log and buffer (LogInv), a     *)
(* record the poll loop has not reached in this process has no running job *)
(* and one delivery less than the bound (DispatchInv), and a job that has  *)
(* not decided yet still has its delivery unspent (JobInv).  A row exists  *)
(* exactly for the submissions whose handler has begun (RowInv).           *)
(***************************************************************************)
EXTENDS JudgePipeline, TLAPS

Fresh(s) == request[s] \in {"none", "inserted"}

Distinct(q) == \A i, j \in 1..Len(q) : q[i] = q[j] => i = j
Apart(q, r) == \A i \in 1..Len(q), j \in 1..Len(r) : q[i] # r[j]
NoneFresh(q) == \A i \in 1..Len(q) : ~Fresh(q[i])

LogInv ==
  /\ Distinct(judgeLog) /\ Distinct(judgeBuf) /\ Apart(judgeLog, judgeBuf)
  /\ NoneFresh(judgeLog) /\ NoneFresh(judgeBuf)

DispatchInv ==
  /\ \A s \in Subs : delivered[s] <= 1 + restarts
  /\ \A s \in Subs : delivered[s] > 0 => \E i \in 1..Len(judgeLog) : judgeLog[i] = s
  /\ \A s \in Subs : job[s].pc # "idle" => delivered[s] > 0
  /\ \A i \in 1..Len(judgeLog) : i > disp =>
       delivered[judgeLog[i]] <= restarts /\ job[judgeLog[i]].pc = "idle"
  /\ \A i \in 1..disp : delivered[judgeLog[i]] > 0 \/ judgeLog[i] \in refused

Undecided(s) == job[s].pc \in {"load", "acquire", "judge"}

JobInv ==
  \A s \in Subs :
    /\ counted[s] <= delivered[s]
    /\ Undecided(s) \/ job[s].pc = "count" => counted[s] < delivered[s]
    /\ delivered[s] = 0 => db[s].passed = 0 /\ ~Judged(s)
    /\ delivered[s] = 1 /\ Undecided(s) =>
         db[s].passed = 0 /\ job[s].passed = 0 /\ ~Judged(s)
    /\ delivered[s] <= 1 => db[s].passed <= TestCount

(* A row exists exactly for the submissions whose handler has begun. *)
RowInv == \A s \in Subs : db[s].status = "none" <=> request[s] = "none"

IInv == TypeOK /\ LogInv /\ DispatchInv /\ JobInv /\ RowInv

-----------------------------------------------------------------------------
(* Type correctness, part by part. *)

LEMMA ConcatType ==
  ASSUME NEW S, NEW q \in Seq(S), NEW r \in Seq(S)
  PROVE  /\ q \o r \in Seq(S)
         /\ Len(q \o r) = Len(q) + Len(r)
         /\ Len(q) \in Nat /\ Len(r) \in Nat
  OBVIOUS

LEMMA EmptyType ==
  ASSUME NEW S
  PROVE  <<>> \in Seq(S)
  OBVIOUS

LEMMA EmptyLen == Len(<<>>) = 0
  OBVIOUS

LEMMA FailedRowType ==
  ASSUME RowsOK, JobsOK, NEW s \in Subs
  PROVE  FailedRow(s, db[s].total) \in Row /\ FailedRow(s, TestCount) \in Row
<1>1. "runtime_error" \in Verdicts
  BY DEF Verdicts
<1> QED
  BY <1>1, PipelineAssumption DEF FailedRow, RowsOK, JobsOK, Job, Row

LEMMA InitTypes == Init => TypeOK
<1> SUFFICES ASSUME Init PROVE TypeOK
  OBVIOUS
<1>1. RowsOK
  BY DEF Init, RowsOK, Row
<1>2. QueueOK
  BY EmptyType DEF Init, QueueOK
<1>5. ConsumerOK
  <2>1. phase \in {"up", "stopped", "shut"}
    BY Zenon DEF Init
  <2> QED
    BY EmptyLen, <2>1 DEF Init, ConsumerOK
<1>3. JobsOK
  BY PipelineAssumption DEF Init, JobsOK, Job, NoJob, JobPCs
<1>4. HistoryOK
  BY DEF Init, HistoryOK
<1> QED
  BY <1>1, <1>2, <1>3, <1>4, <1>5 DEF TypeOK

LEMMA RowsStep == TypeOK /\ [Next]_vars => RowsOK'
<1> SUFFICES ASSUME RowsOK, JobsOK, [Next]_vars PROVE RowsOK'
  BY DEF TypeOK
<1> USE DEF RowsOK, Row
<1>1. ASSUME NEW s \in Subs, InsertRow(s) PROVE RowsOK'
  BY <1>1 DEF InsertRow
<1>2. ASSUME NEW s \in Subs, SendJob(s) PROVE RowsOK'
  BY <1>2 DEF SendJob, rowVars
<1>3. ASSUME NEW s \in Subs, BeginJudging(s) PROVE RowsOK'
  BY <1>3 DEF BeginJudging, SaveRow
<1>4. ASSUME NEW s \in Subs, AcquireContainer(s) PROVE RowsOK'
  BY <1>4, FailedRowType DEF AcquireContainer, SaveFailed
<1>5. ASSUME NEW s \in Subs, Judge(s) PROVE RowsOK'
  <2>1. ASSUME NEW o \in Outcomes
        PROVE  [status |-> o[1], passed |-> PassedAfter(s, o[2]), total |-> TestCount]
                 \in Row
    BY PipelineAssumption DEF Outcomes, PassedAfter, JobsOK, Job
  <2> QED
    BY <1>5, <2>1, FailedRowType DEF Judge, SaveFailed, SaveRow
<1>6. ASSUME NEW s \in Subs, CountSubmission(s) PROVE RowsOK'
  BY <1>6 DEF CountSubmission, CountFailed, AfterCount
<1>7. ASSUME NEW s \in Subs, InsertUserSolved(s) PROVE RowsOK'
  BY <1>7, PipelineAssumption DEF InsertUserSolved
<1>8. CASE Restart
  BY <1>8 DEF Restart, rowVars
<1>9. CASE UNCHANGED <<rowVars, request>>
  BY <1>9 DEF rowVars
<1> QED
  BY <1>1, <1>2, <1>3, <1>4, <1>5, <1>6, <1>7, <1>8, <1>9
     DEF Next, JobStep, vars, CheckFirstSolve, PublishExpReward, ReleaseContainer,
         FlushJudge, FlushExp, Poll, Dispatch, NextRecord, Refuse, Commit, Stop, Shutdown

LEMMA QueueStep == TypeOK /\ [Next]_vars => QueueOK'
<1> SUFFICES ASSUME QueueOK, JobsOK, [Next]_vars PROVE QueueOK'
  BY DEF TypeOK
<1> USE DEF QueueOK, judgeQueue, expQueue
<1>1. ASSUME NEW s \in Subs, SendJob(s) PROVE QueueOK'
  <2>1. Append(judgeBuf, s) \in Seq(Subs)
    OBVIOUS
  <2>2. judgeLog \o Append(judgeBuf, s) \in Seq(Subs)
    BY <2>1, ConcatType
  <2> QED
    BY <1>1, <2>1, <2>2, EmptyType DEF SendJob
<1>2. CASE FlushJudge
  <2>1. judgeLog \o judgeBuf \in Seq(Subs)
    BY ConcatType
  <2> QED
    BY <1>2, <2>1, EmptyType DEF FlushJudge, LingerFlush, LingerDue
<1>3. CASE FlushExp
  <2>1. expLog \o expBuf \in Seq(Event)
    BY ConcatType
  <2> QED
    BY <1>3, <2>1, EmptyType DEF FlushExp, LingerFlush, LingerDue
<1>4. ASSUME NEW s \in Subs, PublishExpReward(s) PROVE QueueOK'
  <2>1. [pair |-> PairOf[s], first |-> job[s].first] \in Event
    BY PipelineAssumption DEF Event, JobsOK, Job
  <2>2. /\ Append(expBuf, [pair |-> PairOf[s], first |-> job[s].first]) \in Seq(Event)
        /\ expLog \o Append(expBuf, [pair |-> PairOf[s], first |-> job[s].first])
             \in Seq(Event)
    BY <2>1
  <2> QED
    BY <1>4, <2>2, EmptyType DEF PublishExpReward
<1>5. CASE Restart
  BY <1>5, EmptyType DEF Restart
<1>6. CASE UNCHANGED <<judgeQueue, expQueue>>
  BY <1>6
<1> QED
  BY <1>1, <1>2, <1>3, <1>4, <1>5, <1>6
     DEF Next, JobStep, vars, InsertRow, Poll, Dispatch, NextRecord, Refuse, Commit, Stop,
         Shutdown, BeginJudging, AcquireContainer, Judge, SaveFailed, CountSubmission,
         CountFailed, AfterCount, CheckFirstSolve, InsertUserSolved, ReleaseContainer

(* The log only grows, and the records it has stay where they are. *)
LogGrows == /\ Len(judgeLog') >= Len(judgeLog)
            /\ \A i \in 1..Len(judgeLog) : judgeLog'[i] = judgeLog[i]

LEMMA LogAppendOnly == TypeOK /\ [Next]_vars => LogGrows
<1> SUFFICES ASSUME QueueOK, [Next]_vars PROVE LogGrows
  BY DEF TypeOK
<1> USE DEF QueueOK, judgeQueue, LogGrows
<1>1. ASSUME NEW b \in Seq(Subs), judgeLog' = judgeLog \o b PROVE LogGrows
  <2>1. Len(judgeLog \o b) = Len(judgeLog) + Len(b) /\ Len(b) \in Nat
        /\ Len(judgeLog) \in Nat
    BY ConcatType
  <2>2. \A i \in 1..Len(judgeLog) : (judgeLog \o b)[i] = judgeLog[i]
    OBVIOUS
  <2> QED
    BY <1>1, <2>1, <2>2
<1>2. CASE UNCHANGED judgeLog
  BY <1>2
<1>3. ASSUME NEW s \in Subs, SendJob(s) PROVE LogGrows
  <2>1. Append(judgeBuf, s) \in Seq(Subs)
    OBVIOUS
  <2>2. judgeLog' = judgeLog \o Append(judgeBuf, s) \/ UNCHANGED judgeLog
    BY <1>3 DEF SendJob
  <2> QED
    BY <1>1, <1>2, <2>1, <2>2
<1>4. CASE FlushJudge
  <2>1. judgeLog' = judgeLog \o judgeBuf \/ UNCHANGED judgeLog
    BY <1>4 DEF FlushJudge, LingerFlush, LingerDue
  <2> QED
    BY <1>1, <1>2, <2>1
<1> QED
  BY <1>2, <1>3, <1>4
     DEF Next, JobStep, vars, InsertRow, Poll, Dispatch, NextRecord, Refuse, Commit, Stop,
         Shutdown, Restart, BeginJudging, AcquireContainer, Judge, SaveFailed,
         CountSubmission, CountFailed, AfterCount, CheckFirstSolve, InsertUserSolved,
         PublishExpReward, ReleaseContainer, FlushExp

LEMMA ConsumerStep == TypeOK /\ [Next]_vars => ConsumerOK'
<1> SUFFICES ASSUME TypeOK, QueueOK, ConsumerOK, [Next]_vars PROVE ConsumerOK'
  BY DEF TypeOK
<1>1. Len(judgeLog') >= Len(judgeLog) /\ Len(judgeLog) \in Nat /\ Len(judgeLog') \in Nat
  BY LogAppendOnly, QueueStep DEF LogGrows, QueueOK
<1> USE DEF ConsumerOK, consumer
<1>2. CASE Poll
  BY <1>1, <1>2, PipelineAssumption DEF Poll, judgeQueue
<1>3. CASE Dispatch
  BY <1>1, <1>3 DEF Dispatch, NextRecord
<1>4. CASE Refuse
  BY <1>1, <1>4 DEF Refuse
<1>5. CASE Commit
  BY <1>1, <1>5 DEF Commit, BatchDone
<1>6. CASE Stop \/ Shutdown
  BY <1>1, <1>6 DEF Stop, Shutdown
<1>7. CASE Restart
  <2>1. phase' \in {"up", "stopped", "shut"}
    BY <1>7, Zenon DEF Restart
  <2> QED
    BY <1>1, <1>7, <2>1 DEF Restart, ResumeOffset
<1>8. CASE UNCHANGED <<consumer, phase>>
  BY <1>1, <1>8
<1> QED
  BY <1>2, <1>3, <1>4, <1>5, <1>6, <1>7, <1>8
     DEF Next, JobStep, vars, InsertRow, SendJob, FlushJudge, FlushExp, BeginJudging,
         AcquireContainer, Judge, SaveFailed, CountSubmission, CountFailed, AfterCount,
         CheckFirstSolve, InsertUserSolved, PublishExpReward, ReleaseContainer

LEMMA JobsStep == TypeOK /\ [Next]_vars => JobsOK'
<1> SUFFICES ASSUME RowsOK, JobsOK, [Next]_vars PROVE JobsOK'
  BY DEF TypeOK
<1> USE DEF JobsOK, Job, JobPCs, NoJob, Goto
<1>1. ASSUME NEW s \in Subs, BeginJudging(s) PROVE JobsOK'
  <2>1. db[s].passed \in Nat
    BY DEF RowsOK, Row
  <2> QED
    BY <1>1, <2>1 DEF BeginJudging
<1>2. ASSUME NEW s \in Subs, AcquireContainer(s) PROVE JobsOK'
  BY <1>2 DEF AcquireContainer, SaveFailed
<1>3. ASSUME NEW s \in Subs, Judge(s) PROVE JobsOK'
  <2>1. \/ \E v \in Verdicts : job' = [job EXCEPT ![s].pc = "count", ![s].verdict = v]
        \/ job' = [job EXCEPT ![s].pc = "release"]
    BY <1>3 DEF Judge, SaveFailed, Outcomes
  <2> QED
    BY <1>3, <2>1 DEF Judge, SaveFailed
<1>4. ASSUME NEW s \in Subs, CountSubmission(s) PROVE JobsOK'
  BY <1>4 DEF CountSubmission, CountFailed, AfterCount
<1>5. ASSUME NEW s \in Subs, CheckFirstSolve(s) PROVE JobsOK'
  BY <1>5 DEF CheckFirstSolve
<1>6. ASSUME NEW s \in Subs, InsertUserSolved(s) PROVE JobsOK'
  BY <1>6 DEF InsertUserSolved
<1>7. ASSUME NEW s \in Subs, PublishExpReward(s) PROVE JobsOK'
  BY <1>7 DEF PublishExpReward
<1>8. ASSUME NEW s \in Subs, ReleaseContainer(s) PROVE JobsOK'
  BY <1>8 DEF ReleaseContainer
<1>9. CASE Dispatch
  BY <1>9 DEF Dispatch, NextRecord
<1>10. CASE Restart
  BY <1>10, PipelineAssumption DEF Restart
<1>11. CASE UNCHANGED <<job, containers>>
  BY <1>11
<1> QED
  BY <1>1, <1>2, <1>3, <1>4, <1>5, <1>6, <1>7, <1>8, <1>9, <1>10, <1>11
     DEF Next, JobStep, vars, InsertRow, SendJob, FlushJudge, FlushExp, Poll, Refuse,
         Commit, Stop, Shutdown

LEMMA HistoryStep == TypeOK /\ [Next]_vars => HistoryOK'
<1> SUFFICES ASSUME QueueOK, ConsumerOK, HistoryOK, [Next]_vars PROVE HistoryOK'
  BY DEF TypeOK
<1> USE DEF HistoryOK, history, Fault, NoFault
<1>1. CASE Dispatch
  <2>1. judgeLog[disp + 1] \in Subs
    BY <1>1 DEF Dispatch, NextRecord, QueueOK, ConsumerOK
  <2> QED
    BY <1>1, <2>1 DEF Dispatch, NextRecord
<1>2. CASE Refuse
  <2>1. judgeLog[disp + 1] \in Subs
    BY <1>2 DEF Refuse, QueueOK, ConsumerOK
  <2> QED
    BY <1>2, <2>1 DEF Refuse
<1>3. CASE Restart
  BY <1>3 DEF Restart, Unrecoverable
<1>4. CASE UNCHANGED history /\ faults' \in Nat
  BY <1>4
<1>5. ASSUME NEW s \in Subs, InsertRow(s) \/ SendJob(s) PROVE UNCHANGED history /\ faults' \in Nat
  BY <1>5 DEF InsertRow, SendJob
<1>6. ASSUME NEW s \in Subs, JobStep(s) PROVE UNCHANGED history /\ faults' \in Nat
  BY <1>6 DEF JobStep, BeginJudging, AcquireContainer, Judge, SaveFailed, SaveRow,
              CountSubmission, CountFailed, AfterCount, CheckFirstSolve, InsertUserSolved,
              PublishExpReward, ReleaseContainer
<1>7. ASSUME FlushJudge \/ FlushExp \/ Poll \/ Commit \/ Stop \/ Shutdown
      PROVE UNCHANGED history /\ faults' \in Nat
  BY <1>7 DEF FlushJudge, FlushExp, LingerFlush, LingerDue, Poll, Commit, Stop, Shutdown
<1> QED
  BY <1>1, <1>2, <1>3, <1>4, <1>5, <1>6, <1>7 DEF Next, vars

(* The state of the pipeline keeps its shape and its offsets their order:    *)
(* the committed offset never passes the dispatched one, which never passes  *)
(* the read position, which never passes the log.                            *)
THEOREM TypeCorrect == Spec => []TypeOK
<1>1. TypeOK /\ [Next]_vars => TypeOK'
  BY RowsStep, QueueStep, ConsumerStep, JobsStep, HistoryStep DEF TypeOK
<1> QED
  BY InitTypes, <1>1, PTL DEF Spec

-----------------------------------------------------------------------------
(* A submission occurs once in the log and the producer's buffer together.  *)

LEMMA AppendFacts ==
  ASSUME NEW S, NEW q \in Seq(S), NEW e \in S
  PROVE  /\ Append(q, e) \in Seq(S)
         /\ Len(Append(q, e)) = Len(q) + 1
         /\ \A i \in 1..Len(q) : Append(q, e)[i] = q[i]
         /\ Append(q, e)[Len(q) + 1] = e
  OBVIOUS

LEMMA ConcatMembers ==
  ASSUME NEW S, NEW q \in Seq(S), NEW r \in Seq(S), NEW i \in 1..Len(q \o r)
  PROVE  \/ i \in 1..Len(q) /\ (q \o r)[i] = q[i]
         \/ i - Len(q) \in 1..Len(r) /\ (q \o r)[i] = r[i - Len(q)]
<1>1. Len(q \o r) = Len(q) + Len(r) /\ Len(q) \in Nat /\ Len(r) \in Nat
  BY ConcatType
<1>2. CASE i <= Len(q)
  BY <1>1, <1>2
<1>3. CASE i > Len(q)
  BY <1>1, <1>3
<1> QED
  BY <1>1, <1>2, <1>3

LEMMA DistinctConcat ==
  ASSUME NEW S, NEW q \in Seq(S), NEW r \in Seq(S),
         Distinct(q), Distinct(r), Apart(q, r)
  PROVE  Distinct(q \o r)
<1> SUFFICES ASSUME NEW i \in 1..Len(q \o r), NEW j \in 1..Len(q \o r),
                    (q \o r)[i] = (q \o r)[j]
             PROVE  i = j
  BY DEF Distinct
<1>1. \/ i \in 1..Len(q) /\ (q \o r)[i] = q[i]
      \/ i - Len(q) \in 1..Len(r) /\ (q \o r)[i] = r[i - Len(q)]
  BY ConcatMembers
<1>2. \/ j \in 1..Len(q) /\ (q \o r)[j] = q[j]
      \/ j - Len(q) \in 1..Len(r) /\ (q \o r)[j] = r[j - Len(q)]
  BY ConcatMembers
<1>3. Len(q) \in Nat
  BY ConcatType
<1> HIDE DEF Distinct
<1>4. CASE i \in 1..Len(q) /\ j \in 1..Len(q)
  <2>1. Len(q \o r) = Len(q) + Len(r) /\ Len(r) \in Nat
    BY ConcatType
  <2>2. q[i] = q[j]
    BY <1>4, <1>3, <2>1
  <2> QED
    BY <1>4, <2>2 DEF Distinct
<1> QED
  BY <1>1, <1>2, <1>3, <1>4 DEF Distinct, Apart

LEMMA LogStep == TypeOK /\ LogInv /\ [Next]_vars => LogInv'
<1> SUFFICES ASSUME QueueOK, RowsOK, LogInv, [Next]_vars PROVE LogInv'
  BY DEF TypeOK
<1>e. /\ <<>> \in Seq(Subs) /\ Distinct(<<>>) /\ NoneFresh(<<>>)'
      /\ \A q : Apart(q, <<>>)
  BY EmptyLen, EmptyType DEF Distinct, NoneFresh, Apart
<1> USE DEF LogInv, judgeQueue
<1>1. ASSUME NEW s \in Subs, InsertRow(s) PROVE LogInv'
  BY <1>1 DEF InsertRow, Fresh, RowsOK, NoneFresh, QueueOK
<1>2. ASSUME NEW s \in Subs, SendJob(s) PROVE LogInv'
  <2> DEFINE batch == Append(judgeBuf, s)
             Stale(t) == request'[t] \notin {"none", "inserted"}
  <2>1. batch \in Seq(Subs) /\ judgeLog \in Seq(Subs) /\ judgeBuf \in Seq(Subs)
    BY DEF QueueOK
  <2>2. Fresh(s) /\ Stale(s) /\ \A t \in Subs : ~Fresh(t) => Stale(t)
    BY <1>2 DEF SendJob, Fresh, RowsOK
  <2>3. \A i \in 1..Len(batch) : batch[i] = s \/ \E j \in 1..Len(judgeBuf) : batch[i] = judgeBuf[j]
    BY <2>1, AppendFacts
  <2>4. Distinct(batch)
    BY <2>1, <2>2, AppendFacts DEF Distinct, NoneFresh
  <2>5. Apart(judgeLog, batch)
    BY <2>1, <2>2, <2>3 DEF Apart, NoneFresh
  <2>6. ASSUME NEW q \in Seq(Subs), \A i \in 1..Len(q) : ~Fresh(q[i])
        PROVE  \A i \in 1..Len(q) : Stale(q[i])
    <3>1. \A i \in 1..Len(q) : q[i] \in Subs
      OBVIOUS
    <3> QED
      BY <2>2, <2>6, <3>1 DEF Fresh
  <2>7. \A i \in 1..Len(batch) : Stale(batch[i])
    BY <2>1, <2>2, <2>3, <2>6 DEF NoneFresh
  <2>8. CASE judgeBuf' = batch /\ UNCHANGED judgeLog
    BY <2>1, <2>4, <2>5, <2>6, <2>7, <2>8 DEF NoneFresh, Fresh
  <2>9. CASE judgeBuf' = <<>> /\ judgeLog' = judgeLog \o batch
    <3>1. Distinct(judgeLog \o batch)
      BY <2>1, <2>4, <2>5, DistinctConcat
    <3>2. \A i \in 1..Len(judgeLog \o batch) : Stale((judgeLog \o batch)[i])
      <4> TAKE i \in 1..Len(judgeLog \o batch)
      <4>1. \/ i \in 1..Len(judgeLog) /\ (judgeLog \o batch)[i] = judgeLog[i]
            \/ /\ i - Len(judgeLog) \in 1..Len(batch)
               /\ (judgeLog \o batch)[i] = batch[i - Len(judgeLog)]
        BY <2>1, ConcatMembers
      <4> HIDE DEF batch
      <4> QED
        BY <2>1, <2>6, <2>7, <4>1 DEF NoneFresh
    <3> QED
      BY <1>e, <2>9, <3>1, <3>2 DEF NoneFresh, Fresh
  <2>10. CASE judgeBuf' = <<>> /\ UNCHANGED judgeLog
    BY <1>e, <2>1, <2>6, <2>10 DEF NoneFresh, Fresh
  <2> QED
    BY <1>2, <2>8, <2>9, <2>10 DEF SendJob
<1>3. CASE FlushJudge
  <2>1. UNCHANGED request /\ judgeBuf' = <<>>
        /\ (judgeLog' = judgeLog \o judgeBuf \/ UNCHANGED judgeLog)
    BY <1>3 DEF FlushJudge, LingerFlush, LingerDue
  <2>2. CASE UNCHANGED judgeLog
    BY <1>e, <2>1, <2>2 DEF NoneFresh, Fresh
  <2>3. CASE judgeLog' = judgeLog \o judgeBuf
    <3>1. Distinct(judgeLog \o judgeBuf)
      BY DistinctConcat DEF QueueOK
    <3>2. \A i \in 1..Len(judgeLog \o judgeBuf) : ~Fresh((judgeLog \o judgeBuf)[i])
      BY ConcatMembers DEF QueueOK, NoneFresh
    <3> QED
      BY <1>e, <2>1, <2>3, <3>1, <3>2 DEF NoneFresh, Fresh
  <2> QED
    BY <2>1, <2>2, <2>3
<1>4. CASE Restart
  <2>1. \A t \in Subs : ~Fresh(t) => ~Fresh(t)'
    BY <1>4 DEF Restart, Fresh, RowsOK
  <2>2. \A i \in 1..Len(judgeLog) : judgeLog[i] \in Subs
    BY DEF QueueOK
  <2> QED
    BY <1>e, <1>4, <2>1, <2>2 DEF Restart, NoneFresh
<1>5. CASE UNCHANGED <<judgeQueue, request>>
  BY <1>5 DEF NoneFresh, Fresh
<1> QED
  BY <1>1, <1>2, <1>3, <1>4, <1>5
     DEF Next, JobStep, vars, FlushExp, Poll, Dispatch, NextRecord, Refuse, Commit, Stop,
         Shutdown, BeginJudging, AcquireContainer, Judge, SaveFailed, CountSubmission,
         CountFailed, AfterCount, CheckFirstSolve, InsertUserSolved, PublishExpReward,
         ReleaseContainer

-----------------------------------------------------------------------------
(* One delivery per log record and process. *)

LEMMA DispatchStep == TypeOK /\ LogInv /\ DispatchInv /\ [Next]_vars => DispatchInv'
<1> SUFFICES ASSUME TypeOK, LogInv, DispatchInv, [Next]_vars PROVE DispatchInv'
  OBVIOUS
<1>t. /\ QueueOK /\ ConsumerOK /\ JobsOK /\ HistoryOK
      /\ QueueOK' /\ ConsumerOK' /\ JobsOK' /\ HistoryOK' /\ LogInv' /\ LogGrows
  BY QueueStep, ConsumerStep, JobsStep, HistoryStep, LogStep, LogAppendOnly DEF TypeOK
<1>l. /\ Len(judgeLog) \in Nat /\ Len(judgeLog') \in Nat
      /\ disp \in Nat /\ disp <= Len(judgeLog)
      /\ \A i \in 1..Len(judgeLog) : judgeLog[i] \in Subs /\ judgeLog'[i] = judgeLog[i]
      /\ Len(judgeLog') >= Len(judgeLog)
      /\ \A i \in 1..Len(judgeLog') : judgeLog'[i] \in Subs
      /\ \A i, j \in 1..Len(judgeLog') : judgeLog'[i] = judgeLog'[j] => i = j
  BY <1>t DEF QueueOK, ConsumerOK, LogGrows, LogInv, Distinct
(* A record just written belongs to a submission never delivered before. *)
<1>n. ASSUME NEW i \in 1..Len(judgeLog'), i > Len(judgeLog)
      PROVE  delivered[judgeLog'[i]] = 0 /\ job[judgeLog'[i]].pc = "idle"
  <2>1. ~ (delivered[judgeLog'[i]] > 0)
    BY <1>l, <1>n DEF DispatchInv
  <2> QED
    BY <1>l, <1>t, <1>n, <2>1 DEF DispatchInv, HistoryOK
<1>1. CASE Dispatch
  <2> DEFINE s == judgeLog[disp + 1]
  <2>1. disp + 1 \in 1..Len(judgeLog) /\ s \in Subs
    BY <1>1, <1>t, <1>l DEF Dispatch, NextRecord, ConsumerOK
  <2>2. delivered[s] <= restarts
    BY <2>1, <1>l DEF DispatchInv
  <2>3. /\ disp' = disp + 1 /\ UNCHANGED <<judgeLog, refused, restarts>>
        /\ delivered' = [delivered EXCEPT ![s] = @ + 1]
        /\ \A t \in Subs : t # s => job'[t] = job[t]
    BY <1>1, <1>t DEF Dispatch, NextRecord, judgeQueue, JobsOK
  <2>4. /\ delivered'[s] = delivered[s] + 1
        /\ \A t \in Subs : t # s => delivered'[t] = delivered[t]
    BY <2>1, <2>3, <1>t DEF HistoryOK
  <2>5. \A i \in 1..Len(judgeLog) : i > disp + 1 => judgeLog[i] # s
    BY <2>1, <1>l, <1>t DEF LogInv, Distinct
  <2>6. delivered \in [Subs -> Nat] /\ restarts \in Nat
    BY <1>t DEF HistoryOK
  <2> HIDE DEF s
  <2>7. \A i \in 1..disp' : delivered'[judgeLog[i]] > 0 \/ judgeLog[i] \in refused
    BY <2>1, <2>3, <2>4, <2>6, <1>l DEF DispatchInv, s
  <2>8. \A t \in Subs : delivered'[t] <= 1 + restarts
    BY <2>1, <2>2, <2>4, <2>6 DEF DispatchInv
  <2>9. \A t \in Subs : delivered'[t] > 0 => \E i \in 1..Len(judgeLog) : judgeLog[i] = t
    BY <2>1, <2>4 DEF DispatchInv, s
  <2>10. \A t \in Subs : job'[t].pc # "idle" => delivered'[t] > 0
    BY <2>1, <2>3, <2>4, <2>6 DEF DispatchInv
  <2>11. \A i \in 1..Len(judgeLog) : i > disp + 1 =>
           delivered'[judgeLog[i]] <= restarts /\ job'[judgeLog[i]].pc = "idle"
    <3> SUFFICES ASSUME NEW i \in 1..Len(judgeLog), i > disp + 1
                 PROVE  delivered'[judgeLog[i]] <= restarts
                        /\ job'[judgeLog[i]].pc = "idle"
      OBVIOUS
    <3>1. judgeLog[i] \in Subs /\ judgeLog[i] # s /\ i > disp
      BY <2>5, <1>l
    <3> QED
      BY <2>3, <2>4, <3>1 DEF DispatchInv
  <2> QED
    BY <2>3, <2>7, <2>8, <2>9, <2>10, <2>11 DEF DispatchInv
<1>2. CASE Refuse
  BY <1>2, <1>l DEF Refuse, DispatchInv, judgeQueue
<1>3. CASE Restart
  BY <1>3, <1>l, <1>t DEF Restart, DispatchInv, ResumeOffset, NoJob, HistoryOK, ConsumerOK
<1>4. ASSUME NEW s \in Subs, JobStep(s) PROVE DispatchInv'
  <2>1. /\ UNCHANGED <<judgeLog, delivered, refused, restarts, disp>>
        /\ job[s].pc # "idle"
        /\ \A t \in Subs : t # s => job'[t] = job[t]
    BY <1>4, <1>t DEF JobStep, BeginJudging, AcquireContainer, Judge, SaveFailed,
                      CountSubmission, CountFailed, AfterCount, CheckFirstSolve,
                      InsertUserSolved, PublishExpReward, ReleaseContainer, Goto, JobsOK,
                      judgeQueue, consumer, history
  <2> QED
    BY <2>1, <1>l DEF DispatchInv
<1>5. CASE UNCHANGED <<delivered, refused, restarts, job, disp>>
  <2>1. \A i \in 1..Len(judgeLog') : i > disp =>
          delivered[judgeLog'[i]] <= restarts /\ job[judgeLog'[i]].pc = "idle"
    <3> TAKE i \in 1..Len(judgeLog')
    <3>1. CASE i > Len(judgeLog)
      BY <1>n, <1>t, <3>1 DEF HistoryOK
    <3>2. CASE i <= Len(judgeLog)
      BY <1>l, <3>2 DEF DispatchInv
    <3> QED
      BY <1>l, <3>1, <3>2
  <2>2. \A s \in Subs : delivered[s] > 0 => \E i \in 1..Len(judgeLog') : judgeLog'[i] = s
    BY <1>l DEF DispatchInv
  <2>3. \A i \in 1..disp : delivered[judgeLog'[i]] > 0 \/ judgeLog'[i] \in refused
    BY <1>l DEF DispatchInv
  <2> QED
    BY <1>5, <2>1, <2>2, <2>3 DEF DispatchInv
<1> QED
  BY <1>1, <1>2, <1>3, <1>4, <1>5
     DEF Next, vars, InsertRow, SendJob, FlushJudge, FlushExp, Poll, Commit, Stop, Shutdown,
         history, consumer

-----------------------------------------------------------------------------
(* What a job owes and what it has done. *)

LEMMA JobStepInv ==
  TypeOK /\ LogInv /\ DispatchInv /\ JobInv /\ [Next]_vars => JobInv'
<1> SUFFICES ASSUME TypeOK, LogInv, DispatchInv, JobInv, [Next]_vars PROVE JobInv'
  OBVIOUS
<1>t. /\ counted \in [Subs -> Nat] /\ delivered \in [Subs -> Nat]
      /\ job \in [Subs -> Job] /\ db \in [Subs -> Row] /\ TestCount \in Nat
  BY PipelineAssumption DEF TypeOK, RowsOK, JobsOK, HistoryOK
<1>p. "pending" \notin Verdicts /\ "judging" \notin Verdicts
  BY DEF Verdicts
<1> USE DEF JobInv, Judged, Undecided
<1>1. ASSUME NEW s \in Subs, InsertRow(s) PROVE JobInv'
  <2>1. delivered[s] = 0
    <3>1. Fresh(s)
      BY <1>1 DEF InsertRow, Fresh
    <3>2. ~ (delivered[s] > 0)
      BY <3>1 DEF DispatchInv, LogInv, NoneFresh
    <3> QED
      BY <1>t, <3>2
  <2>2. /\ db'[s].status = "pending" /\ db'[s].passed = db[s].passed
        /\ \A t \in Subs : t # s => db'[t] = db[t]
        /\ UNCHANGED <<counted, delivered, job>>
    BY <1>1, <1>t DEF InsertRow, Row, history
  <2> QED
    BY <1>t, <1>p, <2>1, <2>2
<1>2. ASSUME NEW s \in Subs, BeginJudging(s) PROVE JobInv'
  <2>1. /\ UNCHANGED <<counted, delivered>>
        /\ \A t \in Subs : t # s => job'[t] = job[t] /\ db'[t] = db[t]
        /\ job[s].pc = "load"
    BY <1>2, <1>t DEF BeginJudging, SaveRow, Goto, history
  <2>2. \/ /\ job'[s].pc = "acquire" /\ job'[s].passed = db[s].passed
           /\ \/ db'[s].status = "judging" /\ db'[s].passed = db[s].passed
              \/ db'[s] = db[s]
        \/ job'[s].pc = "idle" /\ db'[s] = db[s]
    BY <1>2, <1>t DEF BeginJudging, SaveRow, Goto, Row, Job
  <2> QED
    BY <1>t, <1>p, <2>1, <2>2
<1>3. ASSUME NEW s \in Subs, AcquireContainer(s) PROVE JobInv'
  <2>1. /\ UNCHANGED <<counted, delivered>>
        /\ \A t \in Subs : t # s => job'[t] = job[t] /\ db'[t] = db[t]
        /\ job[s].pc = "acquire"
    BY <1>3, <1>t DEF AcquireContainer, SaveFailed, Goto, history
  <2>2. \/ job'[s].pc = "judge" /\ job'[s].passed = job[s].passed /\ db'[s] = db[s]
        \/ job'[s].pc = "idle" /\ (db'[s] = db[s] \/ db'[s].passed = job[s].passed)
    <3>1. ASSUME NEW total \in Nat, SaveFailed(s, total)
          PROVE  db'[s] = db[s] \/ db'[s].passed = job[s].passed
      BY <3>1, <1>t DEF SaveFailed, FailedRow
    <3>2. db[s].total \in Nat /\ TestCount \in Nat
      BY <1>t DEF Row
    <3> QED
      BY <1>3, <1>t, <3>1, <3>2 DEF AcquireContainer, Goto, Job
  <2>3. delivered[s] > 0
    BY <2>1 DEF DispatchInv
  <2> QED
    BY <1>t, <2>1, <2>2, <2>3
<1>4. ASSUME NEW s \in Subs, Judge(s) PROVE JobInv'
  <2>1. /\ UNCHANGED <<counted, delivered>>
        /\ \A t \in Subs : t # s => job'[t] = job[t] /\ db'[t] = db[t]
        /\ job[s].pc = "judge"
    BY <1>4, <1>t DEF Judge, SaveFailed, SaveRow, Goto, history
  <2>2. /\ job'[s].pc \in {"count", "release"}
        /\ \/ db'[s] = db[s]
           \/ \E k \in 0..TestCount : db'[s].passed = job[s].passed + k
    <3>1. \/ \E v \in Verdicts : job' = [job EXCEPT ![s].pc = "count", ![s].verdict = v]
          \/ job' = [job EXCEPT ![s].pc = "release"]
      BY <1>4 DEF Judge, SaveFailed, Outcomes, Goto
    <3>2. job'[s].pc \in {"count", "release"}
      BY <3>1, <1>t DEF Job
    <3>3. ASSUME NEW o \in Outcomes,
                 SaveRow(s, [status |-> o[1], passed |-> PassedAfter(s, o[2]),
                             total |-> TestCount])
          PROVE  db'[s] = db[s] \/ \E k \in 0..TestCount : db'[s].passed = job[s].passed + k
      <4>1. o[2] \in 0..TestCount
        BY DEF Outcomes
      <4>2. db'[s] = db[s] \/ db'[s].passed = job[s].passed + o[2]
        BY <3>3, <1>t DEF SaveRow, PassedAfter
      <4> QED
        BY <4>1, <4>2
    <3>4. CASE db' = [db EXCEPT ![s] = FailedRow(s, TestCount)]
      <4>1. db'[s].passed = job[s].passed
        BY <3>4, <1>t DEF FailedRow
      <4>2. job[s].passed + 0 = job[s].passed
        BY <1>t DEF Job
      <4>3. TestCount \in Nat
        BY PipelineAssumption
      <4>4. \E k \in 0..TestCount : db'[s].passed = job[s].passed + k
        <5>1. 0 \in 0..TestCount
          BY <4>3
        <5> QED
          BY <5>1, <4>1, <4>2
      <4> QED
        BY <3>2, <4>4
    <3> QED
      BY <1>4, <3>2, <3>3, <3>4 DEF Judge, SaveFailed
  <2>3. delivered[s] > 0
    BY <2>1 DEF DispatchInv
  <2>4. job[s].passed \in Nat /\ db[s].passed \in Nat
    BY <1>t DEF Job, Row
  <2> QED
    BY <1>t, <2>1, <2>2, <2>3, <2>4
<1>5. ASSUME NEW s \in Subs, CountSubmission(s) PROVE JobInv'
  <2>1. /\ UNCHANGED <<db, delivered>>
        /\ \A t \in Subs : t # s => job'[t] = job[t] /\ counted'[t] = counted[t]
        /\ job[s].pc = "count" /\ job'[s].pc \in {"check", "release"}
        /\ counted'[s] <= counted[s] + 1
    BY <1>5, <1>t DEF CountSubmission, CountFailed, AfterCount, Goto, Job, history
  <2>2. counted'[s] \in Nat
    BY <1>5, <1>t DEF CountSubmission, CountFailed, AfterCount
  <2> QED
    BY <1>t, <2>1, <2>2
<1>6. ASSUME NEW s \in Subs,
             CheckFirstSolve(s) \/ InsertUserSolved(s) \/ PublishExpReward(s)
               \/ ReleaseContainer(s)
      PROVE  JobInv'
  <2>1. /\ UNCHANGED <<db, counted, delivered>>
        /\ \A t \in Subs : t # s => job'[t] = job[t]
        /\ job'[s].pc \in {"insert", "publish", "release", "idle"}
    BY <1>6, <1>t DEF CheckFirstSolve, InsertUserSolved, PublishExpReward,
       ReleaseContainer, Goto, Job, rowVars, history
  <2> QED
    BY <1>t, <2>1
<1>7. CASE Dispatch
  <2> DEFINE s == judgeLog[disp + 1]
  <2>1. s \in Subs /\ disp + 1 \in 1..Len(judgeLog)
    BY <1>7 DEF Dispatch, NextRecord, TypeOK, QueueOK, ConsumerOK
  <2>2. job[s].pc = "idle"
    BY <2>1 DEF DispatchInv, TypeOK, ConsumerOK
  <2>3. /\ UNCHANGED <<db, counted>>
        /\ job' = [job EXCEPT ![s] = [NoJob EXCEPT !.pc = "load"]]
        /\ delivered' = [delivered EXCEPT ![s] = @ + 1]
    BY <1>7 DEF Dispatch, NextRecord, rowVars
  <2> HIDE DEF s
  <2>4. /\ \A t \in Subs : t # s => job'[t] = job[t] /\ delivered'[t] = delivered[t]
        /\ delivered'[s] = delivered[s] + 1 /\ job'[s].pc = "load"
        /\ job'[s].passed = 0
    BY <1>t, <2>1, <2>3 DEF NoJob, Job
  <2> QED
    BY <1>t, <2>1, <2>3, <2>4
<1>8. CASE Restart
  <2>1. /\ UNCHANGED <<db, counted, delivered>>
        /\ \A t \in Subs : job'[t].pc = "idle"
    BY <1>8 DEF Restart, rowVars, NoJob
  <2> QED
    BY <1>t, <2>1
<1>9. CASE UNCHANGED <<db, counted, delivered, job>>
  BY <1>9
<1> QED
  BY <1>1, <1>2, <1>3, <1>4, <1>5, <1>6, <1>7, <1>8, <1>9
     DEF Next, JobStep, vars, rowVars, history, SendJob, FlushJudge, FlushExp, Poll,
         Refuse, Commit, Stop, Shutdown

-----------------------------------------------------------------------------
(* Rows and requests. *)

LEMMA DeliveredWasSent ==
  ASSUME TypeOK, LogInv, DispatchInv, NEW s \in Subs, delivered[s] > 0
  PROVE  request[s] \notin {"none", "inserted"}
<1>1. PICK i \in 1..Len(judgeLog) : judgeLog[i] = s
  BY DEF DispatchInv
<1> QED
  BY <1>1 DEF LogInv, NoneFresh, Fresh

(* A job writes the row of a submission that was sent, and never "none". *)
LEMMA JobWrites ==
  ASSUME TypeOK, DispatchInv, NEW s \in Subs, JobStep(s)
  PROVE  /\ delivered[s] > 0
         /\ UNCHANGED <<request, delivered>>
         /\ \/ db' = db
            \/ Undecided(s) /\ \E row \in Row : /\ db' = [db EXCEPT ![s] = row]
                                             /\ row.status \in {"judging"} \cup Verdicts
<1>t. db \in [Subs -> Row] /\ job \in [Subs -> Job] /\ TestCount \in Nat
  BY PipelineAssumption DEF TypeOK, RowsOK, JobsOK
<1>1. delivered[s] > 0
  BY DEF JobStep, BeginJudging, AcquireContainer, Judge, SaveFailed, CountSubmission,
         CheckFirstSolve, InsertUserSolved, PublishExpReward, ReleaseContainer,
         DispatchInv
<1>2. UNCHANGED <<request, delivered>>
  BY DEF JobStep, BeginJudging, AcquireContainer, Judge, SaveFailed, CountSubmission,
         CheckFirstSolve, InsertUserSolved, PublishExpReward, ReleaseContainer, history
<1> DEFINE Written == \E row \in Row : /\ db' = [db EXCEPT ![s] = row]
                                      /\ row.status \in {"judging"} \cup Verdicts
<1>f. /\ FailedRow(s, db[s].total) \in Row /\ FailedRow(s, db[s].total).status \in Verdicts
      /\ FailedRow(s, TestCount) \in Row
      /\ FailedRow(s, TestCount).status \in Verdicts
  BY <1>t DEF FailedRow, Row, Job, Verdicts
<1>3. CASE BeginJudging(s)
  <2>1. [db[s] EXCEPT !.status = "judging"] \in Row
    BY <1>t DEF Row
  <2>2. [db[s] EXCEPT !.status = "judging"].status = "judging"
    BY <1>t DEF Row
  <2>3. db' = db \/ Written
    BY <1>3, <2>1, <2>2 DEF BeginJudging, SaveRow
  <2> QED
    BY <1>1, <1>2, <1>3, <2>3 DEF BeginJudging, Undecided
<1>4. CASE AcquireContainer(s)
  <2>1. db' = db \/ Written
    BY <1>4, <1>f DEF AcquireContainer, SaveFailed
  <2> QED
    BY <1>1, <1>2, <1>4, <2>1 DEF AcquireContainer, SaveFailed, Undecided
<1>5. CASE Judge(s)
  <2>1. ASSUME db' = [db EXCEPT ![s] = FailedRow(s, TestCount)]
        PROVE  Written
    BY <2>1, <1>f
  <2>2. ASSUME NEW o \in Outcomes,
               SaveRow(s, [status |-> o[1], passed |-> PassedAfter(s, o[2]),
                           total |-> TestCount])
        PROVE  db' = db \/ Written
    <3> DEFINE row == [status |-> o[1], passed |-> PassedAfter(s, o[2]), total |-> TestCount]
    <3>1. o[1] \in Verdicts /\ o[2] \in 0..TestCount
      BY DEF Outcomes
    <3>2. PassedAfter(s, o[2]) \in Nat
      BY <3>1, <1>t DEF PassedAfter, Job
    <3>3. row \in Row /\ row.status \in Verdicts
      BY <3>1, <3>2, <1>t DEF Row
    <3> HIDE DEF row
    <3>4. db' = db \/ db' = [db EXCEPT ![s] = row]
      BY <2>2 DEF SaveRow, row
    <3> QED
      BY <3>3, <3>4
  <2>3. db' = db \/ Written
    BY <1>5, <2>1, <2>2 DEF Judge, SaveFailed
  <2> QED
    BY <1>1, <1>2, <1>5, <2>3 DEF Judge, SaveFailed, Undecided
<1> QED
  BY <1>1, <1>2, <1>3, <1>4, <1>5
     DEF JobStep, CountSubmission, CountFailed, CheckFirstSolve, InsertUserSolved,
         PublishExpReward, ReleaseContainer, rowVars

LEMMA RowStep == TypeOK /\ LogInv /\ DispatchInv /\ RowInv /\ [Next]_vars => RowInv'
<1> SUFFICES ASSUME TypeOK, LogInv, DispatchInv, RowInv, [Next]_vars PROVE RowInv'
  OBVIOUS
<1>t. db \in [Subs -> Row] /\ request \in [Subs -> {"none", "inserted", "acked", "failed"}]
  BY DEF TypeOK, RowsOK
<1> USE DEF RowInv
<1>1. ASSUME NEW s \in Subs, InsertRow(s) PROVE RowInv'
  BY <1>1, <1>t DEF InsertRow, Row
<1>2. ASSUME NEW s \in Subs, SendJob(s) PROVE RowInv'
  BY <1>2, <1>t DEF SendJob, rowVars
<1>3. ASSUME NEW s \in Subs, JobStep(s) PROVE RowInv'
  <2>1. request[s] # "none" /\ UNCHANGED request
    BY <1>3, JobWrites, DeliveredWasSent
  <2>2. CASE db' = db
    BY <2>1, <2>2
  <2>3. ASSUME NEW row \in Row, db' = [db EXCEPT ![s] = row],
               row.status \in {"judging"} \cup Verdicts
        PROVE  RowInv'
    <3>1. row.status # "none"
      BY <2>3 DEF Verdicts
    <3> QED
      BY <2>1, <2>3, <3>1, <1>t
  <2> QED
    BY <1>3, <2>2, <2>3, JobWrites
<1>4. CASE Restart
  BY <1>4, <1>t DEF Restart, rowVars
<1>5. CASE UNCHANGED <<db, request>>
  BY <1>5
<1> QED
  BY <1>1, <1>2, <1>3, <1>4, <1>5
     DEF Next, vars, rowVars, FlushJudge, FlushExp, Poll, Dispatch, Refuse, Commit, Stop, Shutdown

-----------------------------------------------------------------------------
LEMMA InitInv == Init => IInv
<1> SUFFICES ASSUME Init PROVE IInv
  OBVIOUS
<1>1. Len(judgeLog) = 0 /\ Len(judgeBuf) = 0
  BY EmptyLen DEF Init
<1>2. LogInv
  BY <1>1 DEF LogInv, Distinct, Apart, NoneFresh
<1>3. DispatchInv
  BY <1>1 DEF Init, DispatchInv, NoJob
<1>4. JobInv
  BY PipelineAssumption DEF Init, JobInv, NoJob, Undecided, Judged, Verdicts
<1>5. RowInv
  BY DEF Init, RowInv
<1> QED
  BY InitTypes, <1>2, <1>3, <1>4, <1>5 DEF IInv

THEOREM Inductive == Spec => []IInv
<1>1. IInv /\ [Next]_vars => IInv'
  BY RowsStep, QueueStep, ConsumerStep, JobsStep, HistoryStep, LogStep, DispatchStep,
     JobStepInv, RowStep DEF IInv, TypeOK
<1> QED
  BY InitInv, <1>1, PTL DEF Spec

(* A record behind the committed offset went through Invoke: it reached the  *)
(* goroutine pool, or was refused by it because of a Stop.                   *)
THEOREM CommitFollowsDispatch == Spec => []CommittedWasDispatched
<1>1. IInv => CommittedWasDispatched
  BY DEF IInv, TypeOK, ConsumerOK, DispatchInv, CommittedWasDispatched
<1> QED
  BY Inductive, <1>1, PTL

(* A submission is judged at most once per process life, however requests,   *)
(* flushes, polls, commits and their failures interleave.                    *)
THEOREM OneDeliveryPerProcess == Spec => []RedeliveredOnlyByRestart
<1>1. IInv => RedeliveredOnlyByRestart
  BY DEF IInv, DispatchInv, RedeliveredOnlyByRestart
<1> QED
  BY Inductive, <1>1, PTL

(* The author's submission counter moves at most once per delivery. *)
THEOREM NoDoubleCounting == Spec => []CountedOncePerDelivery
<1>1. IInv => CountedOncePerDelivery
  BY DEF IInv, JobInv, CountedOncePerDelivery
<1> QED
  BY Inductive, <1>1, PTL

(* The passed count of a submission delivered once stays within the number   *)
(* of test cases.                                                            *)
THEOREM PassedCountBounded == Spec => []PassedWithinTotal
<1>1. IInv => PassedWithinTotal
  BY DEF IInv, JobInv, PassedWithinTotal
<1> QED
  BY Inductive, <1>1, PTL

(* The rows and the deliveries implement SubmissionLifecycle: nothing happens *)
(* to a row between its insertion and its first delivery, and a verdict       *)
(* changes only when the submission was delivered again.                      *)
THEOREM Refinement == Spec => ImplementsLifecycle
<1> DEFINE Status == [s \in Subs |-> db[s].status]
<1>1. Init => Lifecycle!Init
  BY DEF Init, Lifecycle!Init
<1>2. ASSUME IInv, [Next]_vars
      PROVE  [Lifecycle!Next]_<<Status, delivered>>
  <2>t. /\ db \in [Subs -> Row] /\ delivered \in [Subs -> Nat]
        /\ TypeOK /\ LogInv /\ DispatchInv /\ JobInv /\ RowInv
    BY <1>2 DEF IInv, TypeOK, RowsOK, HistoryOK
  <2>1. ASSUME NEW s \in Subs, InsertRow(s) PROVE Lifecycle!Submit(s)
    <3>1. Status[s] = "none"
      BY <2>1, <2>t DEF InsertRow, RowInv
    <3>2. Status' = [Status EXCEPT ![s] = "pending"] /\ UNCHANGED delivered
      BY <2>1, <2>t DEF InsertRow, history, Row
    <3> QED
      BY <3>1, <3>2 DEF Lifecycle!Submit
  <2>2. CASE Dispatch
    <3> DEFINE s == judgeLog[disp + 1]
    <3>1. disp + 1 \in 1..Len(judgeLog) /\ s \in Subs
      BY <2>2, <2>t DEF Dispatch, TypeOK, QueueOK, ConsumerOK
    <3>2. request[s] # "none"
      BY <3>1, <2>t DEF LogInv, NoneFresh, Fresh
    <3>3. Status[s] # "none"
      BY <3>1, <3>2, <2>t DEF RowInv
    <3>4. delivered' = [delivered EXCEPT ![s] = @ + 1] /\ Status' = Status
      BY <2>2 DEF Dispatch, rowVars
    <3> HIDE DEF s
    <3> QED
      BY <3>1, <3>3, <3>4 DEF Lifecycle!Next, Lifecycle!TakeUp
  <2>3. ASSUME NEW s \in Subs, JobStep(s)
        PROVE  Lifecycle!Write(s) \/ UNCHANGED <<Status, delivered>>
    <3>1. delivered[s] > 0 /\ UNCHANGED delivered
      BY <2>3, <2>t, JobWrites
    <3>2. CASE db' = db
      BY <3>1, <3>2
    <3>3. ASSUME NEW row \in Row, db' = [db EXCEPT ![s] = row], Undecided(s),
                 row.status \in {"judging"} \cup Verdicts
          PROVE  Lifecycle!Write(s)
      <4>1. Status' = [Status EXCEPT ![s] = row.status]
        BY <3>3, <2>t
      <4>2. Status[s] \in Verdicts => delivered[s] > 1
        BY <3>1, <3>3, <2>t DEF JobInv, Judged
      <4>3. row.status \in {"judging"} \cup Lifecycle!Verdicts
        BY <3>3 DEF Verdicts, Lifecycle!Verdicts
      <4>4. Status[s] \in Lifecycle!Verdicts => delivered[s] > 1
        BY <4>2 DEF Verdicts, Lifecycle!Verdicts
      <4> QED
        BY <3>1, <4>1, <4>3, <4>4 DEF Lifecycle!Write
    <3> QED
      BY <2>3, <2>t, <3>2, <3>3, JobWrites
  <2>4. CASE UNCHANGED <<db, delivered>>
    BY <2>4
  <2> QED
    BY <1>2, <2>1, <2>2, <2>3, <2>4
       DEF Next, vars, rowVars, history, SendJob, FlushJudge, FlushExp, Poll, Refuse,
           Commit, Stop, Shutdown, Restart, Lifecycle!Next
<1> QED
  BY Inductive, <1>1, <1>2, PTL DEF Spec, ImplementsLifecycle, Lifecycle!Spec

(* The poll loop keeps to TopicLog: whatever the interleaving of polls,       *)
(* commits, restarts and linger flushes, for any number of submissions.       *)
THEOREM QueueRefinement == Spec => UsesTopicLog
<1> DEFINE Written == Len(judgeLog)
<1>1. Init => Topic!Init
  BY EmptyLen DEF Init, Topic!Init
<1>2. ASSUME TypeOK, [Next]_vars
      PROVE  [Topic!Next]_<<Written, pos, committed>>
  <2>t. /\ judgeLog \in Seq(Subs) /\ judgeBuf \in Seq(Subs)
        /\ committed \in Nat /\ pos \in Nat /\ disp \in Nat
        /\ Written \in Nat
    BY <1>2 DEF TypeOK, QueueOK, ConsumerOK
  <2>w. ASSUME Written' \in Nat, Written' >= Written, UNCHANGED <<pos, committed>>
        PROVE  [Topic!Next]_<<Written, pos, committed>>
    BY <2>t, <2>w DEF Topic!Next, Topic!Write
  <2>1. CASE FlushJudge
    <3>1. Written' \in Nat /\ Written' >= Written
      BY <2>1, <2>t, ConcatType DEF FlushJudge, LingerFlush
    <3> QED
      BY <2>1, <2>w, <3>1 DEF FlushJudge, consumer
  <2>7. ASSUME NEW s \in Subs, SendJob(s) PROVE [Topic!Next]_<<Written, pos, committed>>
    <3>1. Append(judgeBuf, s) \in Seq(Subs)
      BY <2>t
    <3>2. judgeLog' = judgeLog \/ judgeLog' = judgeLog \o Append(judgeBuf, s)
      BY <2>7 DEF SendJob
    <3>3. Written' \in Nat /\ Written' >= Written
      BY <2>t, <3>1, <3>2, ConcatType
    <3> QED
      BY <2>7, <2>w, <3>3 DEF SendJob, consumer
  <2>2. CASE Poll
    BY <2>2, <2>t DEF Poll, judgeQueue, Topic!Next, Topic!Read
  <2>3. CASE Commit
    BY <2>3 DEF Commit, judgeQueue, Topic!Next, Topic!Save
  <2>4. CASE Restart
    BY <2>4 DEF Restart, ResumeOffset, Topic!Next, Topic!Resume
  <2>5. CASE UNCHANGED <<judgeLog, pos, committed>>
    BY <2>5
  <2>6. ASSUME NEW s \in Subs, JobStep(s) PROVE UNCHANGED <<judgeLog, pos, committed>>
    BY <2>6 DEF JobStep, BeginJudging, AcquireContainer, Judge, SaveFailed,
                CountSubmission, CheckFirstSolve, InsertUserSolved, PublishExpReward,
                ReleaseContainer, judgeQueue, consumer
  <2> QED
    BY <1>2, <2>1, <2>2, <2>3, <2>4, <2>5, <2>6, <2>7
       DEF Next, vars, judgeQueue, consumer, InsertRow, FlushExp, Dispatch,
           Refuse, Stop, Shutdown
<1> QED
  BY TypeCorrect, <1>1, <1>2, PTL DEF Spec, UsesTopicLog, Topic!Spec
=============================================================================

--------------------------- MODULE JudgePipeline ---------------------------
(***************************************************************************)
(* The path of a submission through the backend: the HTTP handler that     *)
(* inserts the row and sends a job to the judge topic, the producer's      *)
(* buffer, the topic's log, the poll loop of the judge worker with its     *)
(* committed offset, the pool of goroutines running processSubmission, and *)
(* the EXP event each accepted submission publishes.                       *)
(*                                                                         *)
(* The rows, the log and the committed offset survive a restart; buffers,  *)
(* the read position and running jobs do not.  The solved set and the      *)
(* counters are rows of the same database.  Queue internals (segments,     *)
(* flushing, containers, goroutine reuse) have modules of their own.       *)
(***************************************************************************)
EXTENDS Naturals, Sequences, FiniteSets

CONSTANTS Subs,           \* submissions that may be created
          Pairs,          \* (user, problem) pairs
          PairOf,         \* the pair a submission is about
          TestCount,      \* test cases of a problem
          PollMax,        \* Poll(10): records per poll
          BatchRecords,   \* records that fill a producer batch
          WorkerCount,    \* judge.worker_count
          PoolSize,       \* judge.pool_size
          MaxRestarts,    \* bound: process restarts
          MaxFaults,      \* bound: failing I/O operations
          GracefulStops   \* TRUE: the process may be shut down through Stop

ASSUME PipelineAssumption ==
  /\ PairOf \in [Subs -> Pairs]
  /\ TestCount \in Nat
  /\ PollMax \in Nat \ {0}
  /\ BatchRecords \in Nat \ {0}
  /\ WorkerCount \in Nat \ {0}
  /\ PoolSize \in Nat \ {0}
  /\ MaxRestarts \in Nat
  /\ MaxFaults \in Nat
  /\ GracefulStops \in BOOLEAN

Verdicts == {"accepted", "wrong_answer", "time_limit_exceeded",
             "memory_limit_exceeded", "runtime_error", "compile_error"}

Row == [status : {"none", "pending", "judging"} \cup Verdicts,
        passed : Nat, total : Nat]

Event == [pair : Pairs, first : BOOLEAN]

(* Where a run of processSubmission stands. *)
JobPCs == {"idle", "load", "acquire", "judge", "count", "check", "insert",
           "publish", "release"}

NoJob == [pc |-> "idle", passed |-> 0, verdict |-> "none", first |-> FALSE]

VARIABLES
  db,          \* the submission rows
  counted,     \* submission-counter increments made on behalf of each submission
  solved,      \* the user_solved rows
  request,     \* the HTTP request that creates a submission
  judgeBuf,    \* pending records of the judge producer
  judgeLog,    \* the records of the judge topic
  expBuf,      \* pending records of the EXP producer
  expLog,      \* the records of the EXP topic
  committed,   \* committed offset of group judge-worker
  pos,         \* the consumer's in-memory offset
  disp,        \* records handed to Invoke so far (<= pos)
  loop,        \* "poll", or "batch" from a non-empty Poll to its Commit
  phase,       \* "up"; "stopped" after Worker.Stop; "shut" after Shutdown too
  job,         \* the run of processSubmission for each submission
  containers,  \* containers in the docker pool's channel
  delivered,   \* history: how often the pool accepted a submission
  refused,     \* history: submissions Invoke refused because of Stop
  cutShort,    \* history: jobs a restart found past recovery
  restarts,    \* history: restarts so far
  faults       \* history: failed operations so far

rowVars    == <<db, counted, solved>>
judgeQueue == <<judgeBuf, judgeLog>>
expQueue   == <<expBuf, expLog>>
consumer   == <<committed, pos, disp, loop>>
history    == <<delivered, refused, cutShort, restarts>>
vars == <<rowVars, request, judgeQueue, expQueue, consumer, phase, job,
          containers, history, faults>>

Init ==
  /\ db = [s \in Subs |-> [status |-> "none", passed |-> 0, total |-> 0]]
  /\ counted = [s \in Subs |-> 0]
  /\ solved = {}
  /\ request = [s \in Subs |-> "none"]
  /\ judgeBuf = <<>> /\ judgeLog = <<>>
  /\ expBuf = <<>> /\ expLog = <<>>
  /\ committed = 0 /\ pos = 0 /\ disp = 0 /\ loop = "poll"
  /\ phase = "up"
  /\ job = [s \in Subs |-> NoJob]
  /\ containers = PoolSize
  /\ delivered = [s \in Subs |-> 0]
  /\ refused = {}
  /\ cutShort = {}
  /\ restarts = 0
  /\ faults = 0

(* An I/O operation fails. *)
Fault == faults < MaxFaults /\ faults' = faults + 1
NoFault == UNCHANGED faults

-----------------------------------------------------------------------------
(* The submission service. *)

(* Create inserts the row with status "pending". *)
InsertRow(s) ==
  /\ phase = "up"
  /\ request[s] = "none"
  /\ request' = [request EXCEPT ![s] = "inserted"]
  /\ db' = [db EXCEPT ![s].status = "pending"]
  /\ UNCHANGED <<counted, solved, judgeQueue, expQueue, consumer, phase, job,
                 containers, history, faults>>

(* publishJudgeJob: Send buffers the job; the batch it fills is flushed by  *)
(* the same call, whose error is the caller's answer while the batch is     *)
(* lost.  The row stays "pending" either way.                               *)
SendJob(s) ==
  /\ request[s] = "inserted"
  /\ LET batch == Append(judgeBuf, s)
         full  == Len(batch) >= BatchRecords
     IN \/ /\ NoFault
           /\ judgeBuf' = IF full THEN <<>> ELSE batch
           /\ judgeLog' = IF full THEN judgeLog \o batch ELSE judgeLog
           /\ request' = [request EXCEPT ![s] = "acked"]
        \/ /\ full /\ Fault
           /\ judgeBuf' = <<>>
           /\ request' = [request EXCEPT ![s] = "failed"]
           /\ UNCHANGED judgeLog
  /\ UNCHANGED <<rowVars, expQueue, consumer, phase, job, containers, history>>

(* Mutant: only a full batch is flushed. *)
Mut_LingerDue(buf) == Len(buf) >= BatchRecords

(* Any pending record is flushed when LingerMs is over. *)
LingerDue(buf) == buf # <<>>

(* The linger goroutine flushes; an error of its flush is dropped. *)
LingerFlush(buf, log) ==
  /\ LingerDue(buf)
  /\ buf' = <<>>
  /\ \/ NoFault /\ log' = log \o buf
     \/ Fault /\ UNCHANGED log

FlushJudge ==
  /\ LingerFlush(judgeBuf, judgeLog)
  /\ UNCHANGED <<rowVars, request, expQueue, consumer, phase, job, containers,
                 history>>

FlushExp ==
  /\ LingerFlush(expBuf, expLog)
  /\ UNCHANGED <<rowVars, request, judgeQueue, consumer, phase, job, containers,
                 history>>

-----------------------------------------------------------------------------
(* The poll loop of Worker.Start: Poll, Invoke each record, Commit. *)

(* Poll returns some of the records behind pos, at most PollMax, and moves   *)
(* pos behind them.  It is not called any more once stopCh is closed.        *)
Poll ==
  /\ loop = "poll" /\ phase = "up"
  /\ \E n \in 1..PollMax :
       /\ pos + n <= Len(judgeLog)
       /\ pos' = pos + n
  /\ loop' = "batch"
  /\ UNCHANGED <<rowVars, request, judgeQueue, expQueue, committed, disp, phase,
                 job, containers, history, faults>>

Running == {s \in Subs : job[s].pc # "idle"}

(* A goroutine of the pool is free to take another submission. *)
PoolHasRoom == Cardinality(Running) < WorkerCount

(* Mutant: the record that was just handed over comes up again. *)
Mut_NextRecord == disp

NextRecord == disp + 1

(* Invoke blocks while all goroutines of the pool are busy. *)
Dispatch ==
  /\ loop = "batch" /\ disp < pos
  /\ phase = "up"
  /\ PoolHasRoom
  /\ LET s == judgeLog[disp + 1]
     IN /\ job' = [job EXCEPT ![s] = [NoJob EXCEPT !.pc = "load"]]
        /\ delivered' = [delivered EXCEPT ![s] = @ + 1]
  /\ disp' = NextRecord
  /\ UNCHANGED <<rowVars, request, judgeQueue, expQueue, committed, pos, loop,
                 phase, containers, refused, cutShort, restarts, faults>>

(* Invoke on a closed pool fails; the loop logs it and goes on. *)
Refuse ==
  /\ loop = "batch" /\ disp < pos
  /\ phase # "up"
  /\ refused' = refused \cup {judgeLog[disp + 1]}
  /\ disp' = disp + 1
  /\ UNCHANGED <<rowVars, request, judgeQueue, expQueue, committed, pos, loop,
                 phase, job, containers, delivered, cutShort, restarts, faults>>

(* The batch may be committed: every record of it went through Invoke. *)
BatchDone == disp = pos

Commit ==
  /\ loop = "batch" /\ BatchDone
  /\ loop' = "poll"
  /\ \/ NoFault /\ committed' = pos
     \/ Fault /\ UNCHANGED committed
  /\ UNCHANGED <<rowVars, request, judgeQueue, expQueue, pos, disp, phase, job,
                 containers, history>>

-----------------------------------------------------------------------------
(* processSubmission.  A job runs through the program counters of JobPCs.   *)

Goto(s, pc) == job' = [job EXCEPT ![s].pc = pc]

(* submissionRepo.Update writes the whole row; its error is ignored. *)
SaveRow(s, row) ==
  \/ NoFault /\ db' = [db EXCEPT ![s] = row]
  \/ Fault /\ UNCHANGED db

FailedRow(s, total) ==
  [status |-> "runtime_error", passed |-> job[s].passed, total |-> total]

(* An error saves the row as failed, and this update may fail as well: the   *)
(* row then stays as it is.  Both count as one failing operation.            *)
SaveFailed(s, total) ==
  \/ db' = [db EXCEPT ![s] = FailedRow(s, total)]
  \/ UNCHANGED db

(* Get, then mark the row "judging".  PassedCount is the row's, not zero. *)
BeginJudging(s) ==
  /\ job[s].pc = "load"
  /\ \/ /\ SaveRow(s, [db[s] EXCEPT !.status = "judging"])
        /\ job' = [job EXCEPT ![s].pc = "acquire", ![s].passed = db[s].passed]
     \/ /\ Fault
        /\ Goto(s, "idle")
        /\ UNCHANGED db
  /\ UNCHANGED <<counted, solved, request, judgeQueue, expQueue, consumer, phase,
                 containers, history>>

(* Load the problem and its test cases, then take a container, waiting for  *)
(* one if need be; the closed channel of a shut pool makes Acquire create   *)
(* one instead.  Any error ends the job with "runtime_error", uncounted; a  *)
(* dead container that cannot be recreated is gone from the pool.           *)
AcquireContainer(s) ==
  /\ job[s].pc = "acquire"
  /\ \/ /\ \/ containers > 0 /\ containers' = containers - 1
           \/ phase = "shut" /\ UNCHANGED containers
        /\ Goto(s, "judge")
        /\ NoFault /\ UNCHANGED db
     \/ /\ Fault
        /\ Goto(s, "idle")
        /\ \/ /\ \/ containers > 0 /\ containers' = containers - 1
                 \/ phase = "shut" /\ UNCHANGED containers
              /\ SaveFailed(s, TestCount)
           \/ UNCHANGED containers /\ SaveFailed(s, db[s].total)
  /\ UNCHANGED <<counted, solved, request, judgeQueue, expQueue, consumer, phase,
                 history>>

(* What the compiler and the test cases may answer: the verdict, with the    *)
(* number k of test cases passed before it.                                  *)
Outcomes == {o \in Verdicts \X (0..TestCount) :
               /\ o[1] = "accepted" <=> o[2] = TestCount /\ o[1] # "compile_error"
               /\ o[1] = "compile_error" => o[2] = 0}

(* Mutant: the failing test case is counted as well. *)
Mut_PassedAfter(s, k) == job[s].passed + k + 1

(* PassedCount++ starts from the value loaded. *)
PassedAfter(s, k) == job[s].passed + k

(* Copy the source, compile, run the test cases, save the verdict. *)
Judge(s) ==
  /\ job[s].pc = "judge"
  /\ \/ \E o \in Outcomes :
          /\ SaveRow(s, [status |-> o[1], passed |-> PassedAfter(s, o[2]),
                         total |-> TestCount])
          /\ job' = [job EXCEPT ![s].pc = "count", ![s].verdict = o[1]]
     \/ /\ Fault
        /\ SaveFailed(s, TestCount)
        /\ Goto(s, "release")
  /\ UNCHANGED <<counted, solved, request, judgeQueue, expQueue, consumer, phase,
                 containers, history>>

(* Mutants: the branch inverted; a return past the deferred Release. *)
Mut_AfterCount(s) == IF job[s].verdict = "accepted" THEN "release" ELSE "check"
Mut_EarlyReturn(s) == IF job[s].verdict = "accepted" THEN "check" ELSE "idle"

AfterCount(s) == IF job[s].verdict = "accepted" THEN "check" ELSE "release"

(* Mutants: an increment that timed out is retried; its error is reported *)
(* in the row.                                                            *)
Mut_CountRetried(s) ==
  counted' = [counted EXCEPT ![s] = @ + 1] /\ Goto(s, "count") /\ UNCHANGED db
Mut_CountReported(s) ==
  db' = [db EXCEPT ![s] = FailedRow(s, db[s].total)] /\ Goto(s, AfterCount(s)) /\ UNCHANGED counted

(* An error of the increment is logged, and the job goes on. *)
CountFailed(s) == UNCHANGED <<db, counted>> /\ Goto(s, AfterCount(s))

(* updateProblemStats: IncrementSubmission. *)
CountSubmission(s) ==
  /\ job[s].pc = "count"
  /\ \/ /\ NoFault
        /\ counted' = [counted EXCEPT ![s] = @ + 1]
        /\ Goto(s, AfterCount(s))
        /\ UNCHANGED db
     \/ Fault /\ CountFailed(s)
  /\ UNCHANGED <<solved, request, judgeQueue, expQueue, consumer, phase,
                 containers, history>>

(* updateProblemStats: IsFirstSolve, FALSE on error ... *)
CheckFirstSolve(s) ==
  /\ job[s].pc = "check"
  /\ \/ NoFault /\ job' = [job EXCEPT ![s].pc = "insert",
                                      ![s].first = PairOf[s] \notin solved]
     \/ Fault /\ Goto(s, "insert")
  /\ UNCHANGED <<rowVars, request, judgeQueue, expQueue, consumer, phase,
                 containers, history>>

(* ... then, as a statement of its own, InsertUserSolved, which does nothing *)
(* when the pair is there already.                                           *)
InsertUserSolved(s) ==
  /\ job[s].pc = "insert"
  /\ \/ NoFault /\ solved' = solved \cup {PairOf[s]}
     \/ Fault /\ UNCHANGED solved
  /\ Goto(s, "publish")
  /\ UNCHANGED <<db, counted, request, judgeQueue, expQueue, consumer, phase,
                 containers, history>>

(* publishExpReward: Send on the EXP topic, flushing a batch it fills. *)
PublishExpReward(s) ==
  /\ job[s].pc = "publish"
  /\ LET batch == Append(expBuf, [pair |-> PairOf[s], first |-> job[s].first])
         full  == Len(batch) >= BatchRecords
     IN \/ /\ NoFault
           /\ expBuf' = IF full THEN <<>> ELSE batch
           /\ expLog' = IF full THEN expLog \o batch ELSE expLog
        \/ /\ full /\ Fault
           /\ expBuf' = <<>>
           /\ UNCHANGED expLog
  /\ Goto(s, "release")
  /\ UNCHANGED <<rowVars, request, judgeQueue, consumer, phase, containers, history>>

(* The deferred Release, and the goroutine is free again.  On a shut pool    *)
(* the send panics, which the goroutine pool recovers from; the container is *)
(* not put back.                                                             *)
ReleaseContainer(s) ==
  /\ job[s].pc = "release"
  /\ containers' = IF phase = "shut" THEN containers ELSE containers + 1
  /\ Goto(s, "idle")
  /\ UNCHANGED <<rowVars, request, judgeQueue, expQueue, consumer, phase, history,
                 faults>>

JobStep(s) ==
  \/ BeginJudging(s) \/ AcquireContainer(s) \/ Judge(s) \/ CountSubmission(s)
  \/ CheckFirstSolve(s) \/ InsertUserSolved(s) \/ PublishExpReward(s)
  \/ ReleaseContainer(s)

-----------------------------------------------------------------------------
(* Stop closes stopCh and the pool and returns without waiting for jobs. *)
Stop ==
  /\ GracefulStops /\ phase = "up" /\ restarts < MaxRestarts
  /\ phase' = "stopped"
  /\ UNCHANGED <<rowVars, request, judgeQueue, expQueue, consumer, job, containers,
                 history, faults>>

(* DockerPool.Shutdown closes the channel and removes the idle containers.   *)
Shutdown ==
  /\ phase = "stopped"
  /\ phase' = "shut"
  /\ containers' = 0
  /\ UNCHANGED <<rowVars, request, judgeQueue, expQueue, consumer, job, history,
                 faults>>

(* Mutants: the new process starts behind what the old one had read, or at  *)
(* the beginning of the log.                                                *)
Mut_ResumeOffset == pos
Mut_ResumeAtStart == 0

(* Where the consumer of a new process starts. *)
ResumeOffset == committed

(* The jobs nobody will take up again: still in the producer's buffer, or    *)
(* running (or refused) behind the committed offset.                         *)
Unrecoverable ==
  {s \in Subs : \/ \E i \in 1..Len(judgeBuf) : judgeBuf[i] = s
                \/ /\ s \in Running \cup refused
                   /\ \E i \in 1..committed : judgeLog[i] = s}

(* The process dies, or exits after Shutdown, and is started again.  Neither     *)
(* producer is closed on the way out, so their buffers are lost.             *)
Restart ==
  /\ restarts < MaxRestarts
  /\ restarts' = restarts + 1
  /\ cutShort' = cutShort \cup Unrecoverable
  /\ pos' = ResumeOffset /\ disp' = ResumeOffset /\ loop' = "poll"
  /\ judgeBuf' = <<>> /\ expBuf' = <<>>
  /\ request' = [s \in Subs |-> IF request[s] = "inserted" THEN "failed"
                                                           ELSE request[s]]
  /\ job' = [s \in Subs |-> NoJob]
  /\ containers' = PoolSize
  /\ phase' = "up"
  /\ UNCHANGED <<rowVars, judgeLog, expLog, committed, delivered, refused, faults>>

Next ==
  \/ \E s \in Subs : InsertRow(s) \/ SendJob(s) \/ JobStep(s)
  \/ FlushJudge \/ FlushExp
  \/ Poll \/ Dispatch \/ Refuse \/ Commit
  \/ Stop \/ Shutdown \/ Restart

Spec == Init /\ [][Next]_vars

(* The goroutines keep running: the two linger loops, the poll loop, every   *)
(* job, every HTTP handler past its insert.  Users and shutdowns owe nothing.*)
Fairness ==
  /\ WF_vars(FlushJudge) /\ WF_vars(FlushExp)
  /\ WF_vars(Poll) /\ WF_vars(Dispatch) /\ WF_vars(Commit)
  /\ \A s \in Subs : WF_vars(JobStep(s)) /\ WF_vars(SendJob(s))

FairSpec == Spec /\ Fairness

-----------------------------------------------------------------------------
(* Properties. *)

RowsOK ==
  /\ db \in [Subs -> Row]
  /\ counted \in [Subs -> Nat]
  /\ solved \subseteq Pairs
  /\ request \in [Subs -> {"none", "inserted", "acked", "failed"}]

QueueOK ==
  /\ judgeBuf \in Seq(Subs) /\ judgeLog \in Seq(Subs)
  /\ expBuf \in Seq(Event) /\ expLog \in Seq(Event)

ConsumerOK ==
  /\ committed \in Nat /\ pos \in Nat /\ disp \in Nat
  /\ committed <= disp /\ disp <= pos /\ pos <= Len(judgeLog)
  /\ loop \in {"poll", "batch"} /\ phase \in {"up", "stopped", "shut"}

Job == [pc : JobPCs, passed : Nat, verdict : Verdicts \cup {"none"}, first : BOOLEAN]

JobsOK == job \in [Subs -> Job] /\ containers \in Nat

HistoryOK ==
  /\ delivered \in [Subs -> Nat]
  /\ refused \subseteq Subs /\ cutShort \subseteq Subs
  /\ restarts \in Nat /\ faults \in Nat

(* Every variable keeps its shape, and the offsets of the judge topic their  *)
(* order: committed, dispatched, read, written.                              *)
TypeOK == RowsOK /\ QueueOK /\ ConsumerOK /\ JobsOK /\ HistoryOK

Judged(s) == db[s].status \in Verdicts

(* A job behind the committed offset is never handed out again, so it must   *)
(* have reached the goroutine pool, or been refused because of a Stop: the   *)
(* loop of Worker.Start commits only what it has dispatched, across restarts.*)
CommittedWasDispatched ==
  \A i \in 1..committed : delivered[judgeLog[i]] > 0 \/ judgeLog[i] \in refused

(* Only a restart makes the poll loop hand out a submission a second time.  *)
RedeliveredOnlyByRestart == \A s \in Subs : delivered[s] <= 1 + restarts

(* The submission counters of the author move at most once per delivery:    *)
(* updateProblemStats is reached once per run of processSubmission.         *)
CountedOncePerDelivery == \A s \in Subs : counted[s] <= delivered[s]

(* The passed count shown beside the total stays within it for a submission  *)
(* delivered once: PassedCount++ in the loop over the test cases continues   *)
(* from the row, so only a second run could go beyond.                       *)
PassedWithinTotal ==
  \A s \in Subs : delivered[s] <= 1 => db[s].passed <= TestCount

(* When nothing failed and nothing restarted, a finished job left a complete *)
(* trace: a counted submission and, if accepted, the solved row and an EXP   *)
(* event on its way.                                                         *)
FinishedJobIsAccountedFor ==
  faults = 0 /\ restarts = 0 =>
    \A s \in Subs : Judged(s) /\ job[s].pc = "idle" =>
      /\ counted[s] = 1
      /\ db[s].status = "accepted" =>
           /\ PairOf[s] \in solved
           /\ \E i \in 1..Len(expLog \o expBuf) :
                (expLog \o expBuf)[i].pair = PairOf[s]

FirstEvents(p) == {i \in 1..Len(expLog \o expBuf) :
                     (expLog \o expBuf)[i] = [pair |-> p, first |-> TRUE]}

(* "Returns isFirstSolve=true when the problem is solved for the first time  *)
(* by this user" (worker.go:124): at most one event per pair says so.        *)
FirstSolveOnce == \A p \in Pairs : Cardinality(FirstEvents(p)) <= 1

(* No container is lost or duplicated until the pool is shut: those in the   *)
(* channel, those held by jobs, and at most one per fault make up the pool.  *)
Holders == {s \in Subs : job[s].pc \in {"judge", "count", "check", "insert",
                                        "publish", "release"}}
ContainersConserved ==
  phase # "shut" =>
    /\ containers + Cardinality(Holders) <= PoolSize
    /\ containers + Cardinality(Holders) + faults >= PoolSize

(* A graceful Stop loses no job: what Invoke refused is still ahead of the   *)
(* committed offset, for the next process to pick up.                        *)
StopLosesNoJob ==
  \A s \in refused : \A i \in 1..committed : judgeLog[i] = s => delivered[s] > 0

(* The rows and the deliveries implement SubmissionLifecycle: no status moves *)
(* before Invoke took the submission, and a verdict once written by           *)
(* processSubmission changes only when the submission was delivered again.    *)
Lifecycle == INSTANCE SubmissionLifecycle
               WITH status <- [s \in Subs |-> db[s].status], taken <- delivered
ImplementsLifecycle == Lifecycle!Spec

(* The loop of Worker.Start, whatever interrupts it, uses its consumer the   *)
(* way TopicLog allows: it commits a position it has read up to and resumes   *)
(* from the committed one.  ForgeLog shows that the commit log and the        *)
(* consumer keep the same promise.                                            *)
Topic == INSTANCE TopicLog WITH written <- Len(judgeLog), position <- pos,
                                saved <- committed
UsesTopicLog == Topic!Spec

(* A submission the client was told is queued (Create returned nil) gets a   *)
(* verdict, unless an operation failed, the process was stopped for good, or  *)
(* a restart caught it where nobody takes it up again: in the producer's      *)
(* buffer, or running or refused behind the committed offset.                 *)
OnlyCutJobsAreLost ==
  \A s \in Subs :
    request[s] = "acked" ~> (Judged(s) \/ s \in cutShort \/ faults > 0
                             \/ [](phase # "up"))
=============================================================================

# Judgify: a verification development

TLA+ models, TLC runs and TLAPS proofs about the backend of Judgify
(`src/api`, Go): an online judge whose HTTP API queues submissions on an
embedded message queue ("Forge"), runs them in Docker containers from a pool of
goroutines, and rewards accepted ones with EXP over a second topic of the same
queue.

    tlc -workers 2 -config Pipeline_restart.cfg MCJudgePipeline.tla
    tlapm JudgePipeline_proofs.tla

`PROJECT.json` lists the components, the runs, the hazards, the source lines of
every definition and the theorems. This file explains them.

## 1. The system

    HTTP handler -- insert row ----------------------------> database
         |                                                      ^
         v Send                                                 | rows, counters,
    judge Producer --flush--> judge topic (commit log)          | user_solved
                                   |                            |
                          Poll / Commit (consumer group)        |
                                   v                            |
                  Worker.Start: poll loop --Invoke--> goroutine pool
                                                       processSubmission
                                                         |         |
                                        Acquire/Release  v         v Send
                                        docker pool              EXP Producer
                                                                   |
                                                            EXP topic -> EXP worker

Everything runs in one process; a restart loses what is in memory. On disk are
the database rows, the log and index files of the topics, and the committed
offsets.

### Components, their state and what makes them correct

| component | state | operations | hard because | correct when |
|---|---|---|---|---|
| submission service (`internal/submission`) | the row | `Create`, reads | the row is inserted, then the job is sent: two steps without a transaction | an acknowledged submission is judged |
| judge worker (`internal/judge/worker.go`) | consumer position, running jobs | poll loop, `processSubmission`, `Stop` | commits what was dispatched and not what was judged; several jobs at once; any database call may fail | no delivery is skipped, none repeated within a process; counters, solved rows and events agree with verdicts |
| Forge producer (`pkg/mq/forge/producer.go`) | double buffer, linger goroutine | `Send`, `Flush`, `Close` | flushes work outside the lock on a slice that goes back into the buffer; a wake-up through a channel of one place; `Close` with a time-out | no record lost, duplicated or overwritten; all are flushed in the end |
| Forge log (`commit_log.go`, `segment.go`, `index.go`) | segments, sparse index in memory and on disk | `Append`, `ReadFrom`, `Close`, reopening | the next offset is rebuilt from an index that can be absent, partial or overwritten | every offset is stored once; a read never starts behind its target |
| Forge consumer (`consumer.go`, `offset_store.go`) | offset in memory, committed offset | `Poll`, `Commit` | reads a window of bytes estimated from a record count | returns exactly what it passes, and gets on |
| Forge maintenance (`compaction.go`, `merge.go`, `retention.go`) | segment list, files, `.staging` | `EnforceRetention`, `MergeSegments`, `recoverStaging` | a crash or an error between any two file operations; overlapping segments afterwards | a record leaves by retention only; polls find the next record, each once |
| worker pool (`pkg/common/workerpool`) | idle stack, atomics, condition variable | `Invoke`, worker loop, purge, `Tune`, `Release` | most wake-ups and the running count are outside the lock | accepted jobs run, the size holds, callers return, `Release` stops every worker |
| docker pool (`executor/docker_pool.go`) | a channel of container names | `Acquire`, `Release`, `Shutdown` | a dead container is looked at and recreated in several docker commands; the channel is closed while jobs run | a container is in one place; no job waits for ever |
| EXP worker (`internal/judge/exp_reward.go`) | consumer position | the same loop, EXP updates | several updates per event, redelivery | each event is applied once |
| problem statistics (`problem/adapters/driven/db`, `infrastructure/cron.go`) | counters, `lastRun`, `user_solved` | `RecalculateStats` every five minutes, first solve | rows change while they are counted; check and insert are two statements | counters agree with the rows in the end; one first solve per user and problem |
| MPMC queue (`pkg/datastructs/queue/mpmc.go`) | head, tail, a turn and an item per slot | `Enqueue`, `Dequeue` | no lock: the data of a slot is guarded by its turn alone | a bounded FIFO queue; no two calls in one slot |
| roles and permissions, EXP formulas, gacha, circuit breaker, rate limiters, locks, caches, other containers, identifiers, website | see `PROJECT.json` | | some are concurrent, most sequential | listed with a reason each |

## 2. The modules

| module | models | state and actions |
|---|---|---|
| `SubmissionLifecycle` | what the author of a submission is promised (abstract) | the status column and how often a submission was taken up |
| `TopicLog` | what a topic promises to its consumer (abstract) | log length, position, committed position |
| `JudgePipeline` | the whole path of a submission | rows, both buffers and logs, consumer, jobs, containers; one action per statement that changes them, with its error branch |
| `ForgeProducer` | one producer | backing arrays, who holds them, each goroutine's place; an action per hold of the lock |
| `ForgeLog` | commit log and one consumer | segments with batches, index in memory, index file with its write position; `Write`, `Poll`, `Commit`, `Restart` |
| `ForgeMaintenance` | retention, merge, staging and recovery beside a producer and a consumer | directory and `.staging`, segment list, where the loop is; an action per file operation, `Crash` between any two; `WriteBesideTwin` rolls an empty segment |
| `WorkerPool` | `GenericPool` | callers, workers, stack, notify list, purge, Release and Tune goroutines; an action per hold of the lock or atomic operation |
| `BoundedQueue` | what `MPMC` promises its callers (abstract) | the items in order, and what each thread has taken |
| `MPMCQueue` | `MPMC` | cursors, turns and data of the slots, each thread's place; an action per atomic operation or data access |
| `DockerPool` | the channel of containers | names in the channel, with jobs and lost, which containers live; an action per docker command |
| `ProblemStats` | the counters of a problem | rows, counters, what `lastRun` lies behind; an action per statement of `RecalculateStats`, with the errors it returns and those it drops |
| `Judging` | `DockerPool` and `ProblemStats` together | submissions judged in containers while recalculations go on |
| `MC*` | the modules above, as TLC runs them | assignments of constants |
| `*_proofs` | theorems about the module they extend | |

`JudgePipeline` uses its parts through what they promise: the producer as a
buffer flushed when it fills and when it lingers, the log as a sequence, the
pool as "a free goroutine or wait", the docker pool as a count. `ForgeProducer`,
`ForgeLog`, `WorkerPool` and `DockerPool` show those promises. For the log the
promise is a module: `JudgePipeline` implements `TopicLog` as its user
(`UsesTopicLog`), `ForgeLog` as its provider (`ImplementsTopicLog`). For the
others it is a list of properties: `RecordsConserved` and `EveryRecordIsFlushed`;
`AcceptedJobsRun` and `RunningIsBounded`; `OnePlacePerContainer` and `JobsEnd`.
Four gaps are deliberate and named. The pipeline's poll always makes progress,
while `ForgeLog` shows that the default window does not guarantee it (finding
3). Its `Stop` is one step, while `WorkerPool` takes `Release` apart and shows
where a caller can stay behind (the exception in `InvokeReturns`). Its
containers come back, while `DockerPool` says which are lost. And no record of
its topics disappears, while `ForgeMaintenance` has retention and findings 4 and 5.

### JudgePipeline and the code

`InsertRow` and `SendJob` are `Create` with `publishJudgeJob`
(`submission/core/service/submission.go`); `FlushJudge` and `FlushExp` the
linger goroutines; `Poll`, `Dispatch`, `Refuse` and `Commit` the loop of
`Worker.Start`. A job walks through `JobPCs`: `load` (get the row, mark it
judging), `acquire` (problem, test cases, container), `judge` (compile, run,
save), `count`, `check`, `insert` (`updateProblemStats`), `publish`, `release`
(the deferred `Release`). Verdicts and the number of passed tests are chosen
freely, consistently with the loop over the tests. `Fault` is any failing I/O
operation: the action then takes the error path of the code, including the
places where the error is only logged or dropped; an error path whose own update of
the row fails as well (`SaveFailed`) counts as one fault. `Stop` closes the pool while jobs run
on, `Shutdown` closes the container channel, and `Restart` is a crash or an
exit at any point, after which the consumer starts at the committed offset. The
history variables `delivered`, `refused`, `cutShort` only serve properties.

### ForgeProducer and the code

A slice is its backing array: `pending` and `backBuf` name arrays and a flush
owns the one it swapped out until it hands it back under the lock. `FlushSwap`,
`FlushAppend`, `FlushClear`, `FlushReclaim` are the stretches of `flush`
between two lock operations, and an append may report an error without having written
or, where each write is synced, behind the write; `SendEnqueue` and `SendSignal` are apart because
`Send` unlocks before it signals. Sizes are one per record. An unreachable
array is free again, as the garbage collector has it.

### ForgeLog and the code

A batch has a base offset, a count, a file position and a size in small
numbers. The index is kept twice, as entries in memory and as the file, with
`dirtyFrom` and the position of the file descriptor, because `index.Sync` on a
reopened file writes at its beginning: the entries on disk can be overwritten
out of order, and after a crash they are those of the last sync. `Restart(clean)`
reopens with or without `CommitLog.Close`; `Recovered` is the scan from the last
entry on. `Lookup` is `sort.Search` over entries that may be out of order: any
place where the order turns. A record is whole or absent, and files keep what
was written, so the process may die and the machine does not.

### ForgeMaintenance and the code

`EnforceRetention`, `RemoveNext`, `RemoveFails`, `RemovalEnds` are
`CommitLog.EnforceRetention`; `MergeSegments` to `Swap` are the merge that the same
loop (`retention.go`) calls next: choose, stage, write, sync and close, remove the
old segments, rename. Each of the two holds `CommitLog.mu` all through, so between
two of its steps the process may die and nobody else moves (`Free`). `Recover` is
`recoverStaging` with `loadSegments`. A staged file is not truncated when a merge
that failed is tried again: `MergeSegments` writes on, up to `MaxStaged` records.

A batch holds one record, a record is its offset, and time is counted in
records: creation and retention cut-offs are free, but they never go back. The
consumer commits after each poll. `CommitLog.segments` is a list in the order of
the base offsets at all times, so `segs` is a function of the base offset, like
the directory. What the loops of the code collect is said without a loop:
`Victims` is every sealed segment that is expired or from which on the log is too
large; `rest` holds the places of the records a merge has still to
copy, and `WriteStaged` takes the first (`Ahead`); a poll is past the batches in
`Visited` and returns those in `Polled`.

`IsFull` asks for the age alone, so an empty active segment that is old is rolled as
well, and the new one gets its base offset and opens its files. In the model, where a
segment is opened and written in one step, that is the segment at 0 of a new log.
`WriteBesideTwin` does it: the old segment stays in the list as `Twin`, in front of
the one that is written, and `FileOf` gives both the same file.
Retention or a merge that removes the old one deletes the file under the other, which
goes on being written to; a restart then finds an empty directory and begins at 0
(`RecoverEmpty`), below the committed offset. TLC reaches it in five steps: the write,
the retention with its removal, a crash, the restart. `shared` says that two segments
were given one file. With the default age of an hour it takes a new topic that gets
its first record later than that.

Five history variables say when a property may fail. `retired` is what retention
deleted and `torn` what recovery replaced by an unfinished file. `doubled` is set
when recovery found a record twice, or found one that retention had deleted:
a merge that fails at a removal leaves its staged file, retention may delete the
segments it was written from, and the next process takes the file up again.
`crossed` is set when a merge takes segments on both sides of one it leaves
(finding 5). The order and the reach of a log are promised until then, so
`PollFindsNext` and `PollSkipsNothing` hold while `~crossed`, and `DeliveredOnce`
while neither `crossed` nor `doubled`. Conservation and the growth of offsets need
neither. None of the five is claimed of a log in which two segments share a file
(`shared`): the code itself breaks the growth of offsets there.

### WorkerPool and the code

A caller goes `retrieve` -> `spawn` or `give`, or `wait` -> `asleep` ->
`awake`; `wait` is the point between the decision to wait, with the lock held,
and the entry in the notify list of `sync.Cond`. `Signal` and `Broadcast` are
those of `sync.Cond`, external code. Everything the code does without the lock
(the running count in `run`, the deferred part of a worker, the broadcasts of
`Release` and `Tune`) is an action without `LockFree`. A purge is `PurgeRefresh`
under the lock, one `PurgeFinish` for each expired worker after the unlock, and then
the check whether anybody has to be woken and the broadcast: any other goroutine may
come between. So `expired` is a place of its own for a worker, and when the `reset` of
`Release` falls there, the purge goroutine has still to stop it
(`ReleaseReachesAll`). Expiry by time is a free choice of how many of the oldest idle
workers are purged. `Release` returns when the purge goroutine has ended.

### MPMCQueue and the code

One step is one atomic operation (`Load`, `Look`, `Swap`, `Again`, the store of
the turn in `Publish` and its like) or one access to the item of a slot, which
nothing but the turn guards (`Write`, `Read`, `Clear`). `SlotsNotShared` is
therefore the absence of a data race. `EnqueueBatch`, `DequeueBatch` and the
method `Clear` call the two operations in a row and add no step. Positions are
natural numbers; that they do not pass 2^64 is taken for granted. The
refinement to `BoundedQueue` takes an item as put and taken where the cursors
move: the queue is the window between tail and head, and an item that is
claimed and not yet written is the one its thread brings.

### DockerPool, ProblemStats, Judging and the code

`Acquire` is `Receive` with its inspection, then, for a container that does not
run, `RemoveOld` and `Create` or `CreateFails`; other jobs and deaths come
between. The name received from a closed channel is empty and `fmt.Sscanf`
makes it index 0 (`Index`), so a late job recreates container 0. A late `Release`
sends on the closed channel: the panic is recovered by the goroutine pool and
the container keeps running. A job that fails before `Acquire` ends there (`GiveUp`).

`ProblemStats` has no clock. What `RecalculateStats` compares are the time a
submission was stamped with and the time the last run started; `old` and
`run.before` hold the submissions on the far side of each; the first run (`since` is
false) looks at every problem. An error of a query ends the run and `lastRun` stays
(`RunFails`). Two kinds of error are dropped, and `lastRun` advances over them: a count
whose row does not come or is not read leaves zeros, which are written (`Misread`,
`problem.go:226-234`), and a failing update of the counters (`SetCounters`). `behind` is
what the schedule does not see: a problem one of whose rows was inserted or judged after
a run that started later than its stamp, or whose last count was dropped in one of these
two ways, until it is counted for another reason. The worker drops errors as well: a
verdict that is not written leaves the row pending (`NotWritten`).

`Judging` composes them with `INSTANCE`: a submission is stamped and inserted,
delivered to a job, given a verdict where the job runs, gives up or fails to get a
container, and every change of its row is one of `ProblemStats`.

## 3. The runs

| run | instance | checks | shows |
|---|---|---|---|
| `pipeline_restart` | 2 submissions of one user and problem, 2 goroutines, 1 container, 1 test, polls of 1, batches of 2, one fault, one restart, graceful or not, fair; 421 thousand states | `CommittedWasDispatched`, `RedeliveredOnlyByRestart`, `CountedOncePerDelivery`, `PassedWithinTotal`, `FinishedJobIsAccountedFor`, `ContainersConserved`, `ImplementsLifecycle`, `UsesTopicLog`, `OnlyCutJobsAreLost` | committed records were dispatched; once per process; verdicts are final unless redelivered; at most one container is lost for each failed operation; an acknowledged submission is judged unless an operation failed, the process was stopped for good, or the restart caught it in the buffer, or running or refused behind the committed offset |
| `pipeline_rivals` (violation) | 2 goroutines | `FirstSolveOnce` | finding 1 |
| `pipeline_stop` (violation) | graceful stop | `StopLosesNoJob` | finding 2 |
| `producer` | 2 senders, 3 sends, batches of 2, limit 2, time-out, one failing append, before or behind the write, fair; 171 thousand states | `ArraysNotShared`, `RecordsConserved`, `SizeIsExact`, `PendingIsAnnounced`, `CloseDrains`, `EveryRecordIsFlushed` | the double buffer is safe and no wake-up is lost |
| `log_restart` | 5 records, batches of 1 or 2 records and bytes, segments of 6 bytes, index every 2, sync every 2 batches, window 3, two restarts; 775 thousand states | `OffsetsAreDense`, `LookupIsBelow`, `PollAdvances`, `PollsTakeNext`, `ImplementsTopicLog` | no offset is lost, reused or passed over, whatever a restart does to the index |
| `log_window` (violation) | window = index interval = 2 | `PollAdvances` | finding 3 |
| `pool_callers` | 2 callers, 3 worker objects, sizes 1 and 2, two Tunes, purge, one panic, ReleaseTimeout at any moment, fair; 723 thousand states | `NoJobIsStranded`, `RunningIsBounded`, `ReleaseReachesAll`, `AcceptedJobsRun`, `InvokeReturns`, `ReleaseCompletes` | accepted jobs run, the pool outgrows a size it was given by at most one, `Release` stops every worker and the purge goroutine, also when it falls between `refresh` and `finish()`, and a caller is left waiting nowhere but at a closed pool's condition variable |
| `queue` | 3 threads of which one may stop for ever anywhere, 2 slots, 2 items, 5 calls, fair; 346 thousand states | `SlotsNotShared`, `RefusedForCause`, `ImplementsQueue`, `CallsReturn` | the ring is a bounded FIFO queue without data races; a call is refused for a reason; calls return although another stalls |
| `maintenance` | 4 records, segments of 2, retention of 3, merges from 2 segments on, polls of 3, two crashes, one failing operation or shared file; 992 thousand states | `RecordsConserved`, `PollFindsNext`, `PollSkipsNothing`, `DeliveredOnce`, `OffsetsGrow` | wherever it fails or dies, records leave by retention or by recovery's replacement only; while merges take neighbours, polls find the next record and pass over none; a record comes twice only when recovery found one twice or a deleted one, or a merge crossed a segment; no offset is given twice. All of it as long as no two segments share a file |
| `maintenance_crash` (violation) | one crash, no failing operation | `MergeIsCrashSafe` | finding 4 |
| `maintenance_merge` (violation) | 6 records in segments of 1, no retention, no crash, no failing operation | `MergedLogIsRead` | finding 5 |
| `judging` | 2 submissions of one problem, 1 container, one death, one error of a database call or update, fair; 434 thousand states | `OnePlacePerContainer`, `WrongIsNoticed`, `JobsEnd`, `CountersConverge` | no container is shared or put back twice while the pool is open; jobs end unless all containers were lost; counters come right but for the late changes and the unseen errors named |

Deadlock checking is off in every run: the inputs are bounded (`Subs`,
`MaxSends`, `MaxOffset`, `MaxInvokes`) and a system whose users have made all
their calls rests; a stopped process may also stay stopped. Where the system
must not rest, a liveness property says so.

**Bounds.** Two submissions of one pair are the smallest case in which jobs
interfere and batches fill; one restart and one fault at any place give every
mixture of first and second delivery and every error path, and two of them add no
new kind of state. Polls of one record keep the liveness of `pipeline_restart` in
reach; that a commit covers several records is in `pipeline_stop`, and in the proofs of
all safety properties of that run, which are for every `PollMax`. Two senders with the
linger goroutine and `Close` are four concurrent flushes around two arrays.
Five offsets give three segments and index files that are partial, overwritten
and rebuilt twice. Two callers and three workers give the unlocked capacity check
its race, a pool that is too large after a Tune, and every order of purge, release
and return. Two slots and five calls let the ring fill, run empty and go round
twice while a thread sits inside a slot. Four records in segments of two give two
sealed segments beside the active one, so that a merge has a first segment to
replace and a second one to repeat; the second crash meets what the recovery from
the first left behind. A shared file takes the place of the failing operation
(`MaxFails`), as nothing is claimed behind it. A merge across a merged segment needs six
records in segments of one. One container and two jobs are enough for a job to wait for
what another has lost, and for a late job to meet the drain of `Shutdown`; a submission
judged late and one in time are the two cases of `lastRun`, and one error is enough to
leave counters wrong. The proofs remove the bounds for the safety properties listed
below.

**Fairness.** `JudgePipeline`: both linger loops, the poll loop, each job and
each HTTP handler past its insert go on (goroutines run, and the calls they make
return); nobody owes a submission, a stop or a restart. `ForgeProducer`: each
goroutine finishes the call it is in, the linger timer fires; nobody owes `Send`,
`Flush` or the start of `Close`. `WorkerPool`: goroutines go on, jobs end, the
purge ticker ticks and the purge goroutine goes on with its round; nobody owes `Invoke`,
`Release` or `Tune`. `MPMCQueue`: every goroutine but those in `Stalled` is scheduled;
nobody owes a call. `Judging`: jobs go on and the scheduler keeps running
recalculations; nobody owes a submission, a death or a shutdown. All is weak fairness;
no property needs a mutex or a select to be strongly fair. Jobs do end: the runner puts
a time limit on each command.

### Findings

1. `worker.go:136`: `IsFirstSolve` and `InsertUserSolved` are two statements and
   the goroutines of the pool are not ordered, so two accepted submissions of one
   user and problem can both carry `isFirstSolve = true`, and the reward is paid
   twice. The comment at `worker.go:124` promises the flag for the first time
   only. With `worker_count: 3` (the configured value) this needs two submissions
   close together.
2. `worker.go:103`: `Stop` closes the pool while the poll loop may be in the middle
   of a batch; `Invoke` refuses the rest, the loop logs it and commits past it. The
   submissions stay pending for good.
3. `consumer.go:68`: `Poll(10)` reads `max(4096, 256*10)` bytes from the last index
   entry at or below the offset while entries are at least `IndexInterval` = 4096
   bytes apart, plus up to a batch. When the batch that holds the offset does not
   end within the window, `Poll` returns nothing, without an error, for ever.
   `WideWindowSuffices` proves the window that would do: an interval and a batch
   less one byte.
4. `compaction.go:278`: `recoverStaging` renames whatever `.staging` holds over the
   directory. A crash while the staged file is being written leaves a prefix of the
   merged segment, and the next start puts it in the place of the complete first
   segment; the records it lacks are gone. The comments say "writes a new segment
   crash-safely" (`compaction.go:204`) and promise the restoration for a crash "between
   steps 3-4" (`compaction.go:211`), which the code does not tell from one in step 1.
   `RecordsConserved` says exactly what is lost and that nothing else is.

5. `merge.go:84`: `mergeCandidates` chooses sealed segments by their age alone, and
   the segment a merge makes counts as new (`segment.go:56`). So the segments on both
   sides of it can be old enough for a merge when it is not: one makes
   `0:[0,1,4]` of `0:[0,1]` and `4:[4]` and leaves `2:[2,3]`. A poll that reads the
   first returns 0, 1, 4 and moves to 5; 2 and 3 are in the directory and are never
   delivered. It needs no crash and no error. A test says of a merge "all records
   should still be readable across all segments"
   (`storage_management_test.go:272`), and `findSegment` (`commit_log.go:191`)
   "returns the segment that should contain the given offset". `PollsSkipNothing`
   proves that this is the only way a poll passes a record over that is not lost.

Four more things the runs show where no comment of the code promises otherwise, stated
as exceptions of the properties. The last worker's signal and `Release`'s broadcast,
both without the lock, can fall between a caller's decision to wait and its entry in
the notify list (`pool_common.go:320`); nobody wakes it then, because `Release` has
stopped the purge goroutine (`InvokeReturns`). A submission inserted or judged
after a recalculation that started later than its `created_at` is not counted until
another submission of the problem comes (`problem.go:206`; `CountersConverge`).
Nor are counters corrected that a count without a row set to zero (`problem.go:226`)
or whose update failed (`problem.go:231`). And an empty segment that is rolled by its age
shares its file with the next one, which retention then deletes (`commit_log.go:148`;
`OffsetsGrow` and the others of `maintenance`).

## 4. The proofs

All theorems are machine-checked for every value of the constants, from the
assumptions named in the modules (`PipelineAssumption`, `ProducerAssumption`,
`LogAssumption`, `MaintenanceAssumption`, `PoolAssumption`, `QueueAssumption`,
`JudgingAssumption`: naturals
where counts are meant, finite sets of goroutines, distinct names) and nothing else.

* **`JudgePipeline_proofs`**: `TypeCorrect`, `Inductive`, `CommitFollowsDispatch`,
  `OneDeliveryPerProcess`, `NoDoubleCounting`, `PassedCountBounded`, `Refinement`
  (to `SubmissionLifecycle`), `QueueRefinement` (to `TopicLog`). None of the
  properties is inductive alone: that a delivery happens once per process rests on
  every submission standing at most once in log and buffer (`LogInv`), which rests
  on a request being sent once; on records ahead of the dispatch point having one
  delivery less than the bound and no running job (`DispatchInv`); and the counters
  on a job that has not reached `count` having its delivery unspent (`JobInv`).
  `RowInv` ties rows to requests for the lifecycle.
* **`JudgeJobs_proofs`**, on top of that invariant: `ContainersAddUp`,
  `JobsAreAccountedFor`, `OneGoroutineSolvesOnce`. Every step leaves channel and
  holders alone or moves one container between them (`HoldersMove`), which carries the
  count (`HoldInv`). While nothing has failed, what a job has left behind is decided by
  the place it has reached (`TraceInv`), and no other job takes it away. With one
  goroutine only one job runs at a time (`SoloInv`), so between check and publication
  nobody adds an event of the pair (`FirstInv`): the theorem assumes
  `WorkerCount = 1` and `MaxFaults = 0`, and finding 1 is what happens without the
  first.
* **`ForgeProducer_proofs`**: `BuffersAreOwned`, `SizeBounded`, `NoRecordIsLost`,
  `NoLostWakeup`, `CloseLeavesNothing`, for any number of goroutines flushing at once.
  The argument: program counters decide who holds an array (`HolderInv`), a flush has
  emptied what it hands back (`ReclaimInv`), and how far `Close` is (`CloseInv`,
  `ExitInv`) decides what may still be pending. For the records, each step is one of
  four moves (`RecordsMove`): one enters the buffer, a flush takes the buffer, a batch
  goes to the log or is lost, or all stay. Under these every accepted record is
  somewhere (`PlacedInv`), every record that is somewhere was accepted (`KnownInv`), and
  no two places share one nor hold one twice (`ApartInv`).
* **`ForgeLog_proofs`**: `NoOffsetLostOrReused`, `LookupNeverOvershoots`,
  `PollsReturnWhatTheyPass`, `Refinement` (to `TopicLog`), `WideWindowSuffices`.
  The invariant says of each segment that its batches are contiguous in offsets and
  bytes and that each index entry, in memory or on disk, is that of some batch
  (`SegOK`), and that segments follow one another (`Chain`). The order of the entries
  is not part of it, since overwriting loses it: recovery and lookup are right even
  so. The order and density of the index (`IndexDense`) hold in the first process,
  and `WideWindowSuffices` is stated for it, with its own assumption on `Window`.
* **`WorkerPool_proofs`**: `NoJobLeftBehind`, `PoolStaysSmall`,
  `ReleaseMissesNoWorker`, for any number of callers and workers. A waiting worker is
  in the stack, in one caller's hands, among the expired ones (`ExpiredInv`), or behind a
  token in one of its channels (`IdleInv`, `HeldInv`, `TokenInv`, `PlacedInv`);
  `PurgeInv` says that there are expired ones only while the purge goroutine tells them;
  `ListInv` says that wake-ups reach only sleeping callers; `CountInv` ties the atomic
  counter to the live workers. The bound allows for the callers between the capacity
  check and the count.

* **`MPMCQueue_proofs`**: `NoDataRace`, `RefusalHasCause`, `QueueImplements` (to
  `BoundedQueue`), for any number of threads, any capacity and any length of the run.
  The slots are a window of `Capacity` positions from tail on (`Window`); `Turns` says
  what the turn of each shows, `Holders` where the positions of the threads inside a
  slot lie, `Unique` that no two of them have the same, and `Swapping` that the turn a
  thread saw is still there when its compare-and-swap succeeds. The arithmetic
  (`DivisionUnique`, `NextRound`, `SlotsDiffer`) turns positions into slots and rounds.
* **`Judging_proofs`**: `ContainersStayInPlace`, `WrongCountersAreNoticed`. The pool
  and the statistics share the jobs and no variable, so each has an invariant of its
  own: `PoolInv` (a job holds a name from `Receive` to its end, the empty one only when
  the channel is closed) and `StatsInv` (`TimeInv`: what lies before `lastRun` lies
  before the running recalculation; `OneAtATime`: one problem is between its count and
  its update; `RunInv`: what a recalculation has still to look at, has counted and has
  set is right, or of a problem in `behind`, or of one the next run looks at).
* **`ForgeMaintenance_proofs`**: `MaintenanceTypeOK`, `RecordsAreConserved`, `OffsetsOnlyGrow`,
  `PollFindsTheNext`, `PollsSkipNothing`, `RecordsComeOnce`, for any number of records,
  crashes and failing operations, any segment size, retention and cut-offs, as long as
  no two segments share a file. Until then a step is one of the plain ones
  (`StepsArePlain`), and afterwards `shared` stays (`SharedStays`), so that each invariant
  is proved as `shared \/ Inv`. `MaintenanceTypeOK` needs no such condition: its
  invariant (`TypeInv`) says what a step takes for granted, that there is an
  active segment above every victim and that a merge has its staged file, and is
  kept by the steps of a shared file as well. The three others, each on top of the
  one before:
  * `ConservedInv` says where the records are. Memory agrees with the directory
    (`MemoryOK`), what a merge has staged is what its victims hold but for the rest
    (`StagedOK`), a record that is not lost is in memory, in an open segment or a closed one
    (`HeldOK`), a file that is gone with records retention did not delete was removed by a
    merge, and no other merge begins until its segment is out of the list (`GoneOK`), and
    the file of the active segment is the highest, is never replaced and ends at the next
    offset (`TopOK`). The last is why recovery, which looks at no other
    segment, finds the right next offset.
  * `PollInv` says where a record is looked for. While no merge has crossed a segment,
    the segment with the highest base at or below a record has it (`HomeOK`), a batch has
    all before it that its segment's base and it enclose (`CoverOK`), a merge takes
    neighbours (`NeighboursOK`), a staged file stands in for a segment whose file is gone
    (`StandInOK`), and so the next process finds the records where it looks for them
    (`ReloadOK`). Without `~crossed` it is false: finding 5.
  * `OrderInv` says in which order they stand: files one behind the other
    (`FilesOrdered`), a staged file between its neighbours (`StagedBetween`), the staged
    files among themselves up to what a later merge took over (`StagedOrdered`), the
    merge in progress (`MergeOrdered`). A poll then returns nothing it returned before
    (`OnceOK`).

  The loops of the code are sets in the model, so their facts are facts about the least
  element of a set of numbers: `LeastNat` gets them from the well-foundedness of `<` on
  the naturals, and the proofs take a least counterexample (the first batch of a poll
  that breaks a claim) where one would have used induction.

**Only model-checked**: everything under fairness (`OnlyCutJobsAreLost`,
`EveryRecordIsFlushed`, `AcceptedJobsRun`, `InvokeReturns`, `ReleaseCompletes`,
`CallsReturn`, `JobsEnd`, `CountersConverge`), which the proof system does not reach.
Every safety property that a passing run checks is the statement of a theorem,
`PollAdvances` of one with an assumption on `Window` and for the first process.
`FirstSolveOnce`, which a run refutes for two goroutines, is proved for one
(`OneGoroutineSolvesOnce`).

## 5. What is not modelled, and why

* Forge: `Compact` (nothing calls it), a rename or a reopening that fails (a merge behind
  a failed rename which fails itself would remove the directory with the only copy),
  batches that are cut in two, power loss (the process dies, the machine does not), a
  crash or a failing write between the creation of a segment and its first record (it
  leaves an empty active segment above 0), a sync that fails behind a write of the log
  (`segment.go:217`: `CommitLog` then gives the offset again; the API leaves `FsyncEvery`
  at 0, so that no write syncs), and records that point into a segment's mapped memory
  after it was unmapped. `Poll` and `Commit` are one step in `ForgeMaintenance`; a crash
  between the two is in `ForgeLog` and `JudgePipeline`. A second `Close` of a producer
  returns nil while the flush of a first one that timed out goes on (`closeOnce`,
  `producer.go:271`): `CloseDrains` is about the first. Seek, Nack and dead letters have
  no caller in the API. Broker and topics are a map filled at start-up.
* Codecs, compression, metrics, HTTP, sandbox commands and text comparison: no state
  that other parts share; their results are inputs of the models.
* Statistics: two recalculations at once, which the scheduler starts when one takes
  more than five minutes, and deleted submissions or problems.
* The EXP worker: its loop is the judge's; its updates of totals, elements and tags
  after one another are listed as hazards.
* Role tree, permission version, circuit breaker, `SetNX` of the cache: listed as
  hazards, small modules for later.
* Plain and multi pools, `Reboot`, loop queue: no caller in the API. Locks are taken as
  mutual exclusion. The batcher, TinyLFU and random sampling are lossy or statistical
  by design.
* Website, scripts, deployment: separate programs.

Most of the repository is code nobody wrote by hand: the generated database client
(`internal/ent/generate`) alone has 115,671 of its roughly 148,000 lines, builders of
one shape that turn a call into one SQL statement, which is how the models take them.
The models cover the code that keeps state between calls; in lines, that is a small
share of the whole.

`PROJECT.json` gives the reason for each component, and for each hazard without a
property.

## 6. Plan

Done: the pipeline, the producer, the log with its consumer, its maintenance, the worker
pool, the lock-free queue, the docker pool and the statistics; three abstract
specifications with their refinements; eight proof modules. In order of weight, what
follows:

1. Forge: failing renames, empty segments above 0 and power loss in `ForgeMaintenance`;
   an abstract specification of a log under upkeep, a map from offsets to records that
   only retention takes from.
2. `ExpRewards`: the updates of one event one by one, redelivered after any of them.
3. The circuit breaker under requests that overlap its transitions; the role tree; the
   permission version.
4. Proofs: that what `ForgeMaintenance` keeps implements `TopicLog` as long as nothing
   is lost, shared, crossed or doubled; the containers of `DockerPool` behind `Shutdown`.

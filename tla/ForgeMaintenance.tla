-------------------------- MODULE ForgeMaintenance --------------------------
(***************************************************************************)
(* The upkeep of a commit log: retention, the merge of small segments      *)
(* through a staging directory, and the recovery of that directory after a *)
(* crash, beside a producer that appends and a consumer that polls.        *)
(*                                                                         *)
(* A batch holds one record and a record is known by its offset.  Time is  *)
(* counted in records.  The segments are smaller than an index interval,   *)
(* so that every read starts at their beginning, and than the window of    *)
(* Poll: ForgeLog has the index and the window.  The consumer commits after *)
(* each poll, so its offset outlives the process.  Retention and merge     *)
(* hold CommitLog.mu: between two of their steps the process may die, but  *)
(* nobody else moves.  Renaming and reopening a staged segment succeed.    *)
(*                                                                         *)
(* CommitLog.segments is in the order of the base offsets: append puts a    *)
(* larger one behind, loadSegments and insertSegmentSorted sort.  It is     *)
(* held as a function of the base offset, the active segment the highest.   *)
(* When a segment that has reached its age is rolled before anything was    *)
(* written, its successor has the same base offset and the same files: the  *)
(* old one is then held at Twin, in front of base offset 0, as nothing but  *)
(* the first segment of a new log is ever empty and active.                 *)
(***************************************************************************)
EXTENDS Integers, Sequences, FiniteSets, FiniteSetsExt, Functions

CONSTANTS MaxRecords,       \* bound: records ever written
          MaxCrashes,       \* bound: crashes
          MaxFails,         \* bound: failing file operations, and segments that share files
          MaxStaged,        \* bound: records in a staged file that is written on
          SegmentRecords,   \* MaxSegmentBytes
          RetentionRecords, \* RetentionBytes
          MinMerge,         \* MinMergeSegments
          MaxPoll           \* argument of Poll

ASSUME MaintenanceAssumption ==
  /\ MaxRecords \in Nat /\ MaxCrashes \in Nat /\ MaxFails \in Nat
  /\ MaxStaged \in Nat
  /\ SegmentRecords \in Nat \ {0} /\ RetentionRecords \in Nat
  /\ MinMerge \in Nat \ {0} /\ MaxPoll \in Nat \ {0}

VARIABLES
  files,       \* the directory: base offset -> [recs, time of the last write]
  staged,      \* .staging, likewise
  segs,        \* CommitLog.segments: base offset -> segment
  nextOffset,  \* of the commit log
  maint,       \* where retention and merge are
  cutoff,      \* of the last retention and of the last merge
  offset,      \* of the consumer
  got,         \* how often each record was delivered
  retired,     \* the records whose files retention deleted
  torn,        \* the records recovery replaced by a file without them
  doubled,     \* recovery found a record twice, or one that retention had deleted
  crossed,     \* a merge took segments on both sides of one it left
  shared,      \* two segments were given the same base offset and files
  up, crashes, fails

vars == <<files, staged, segs, nextOffset, maint, cutoff, offset, got, retired,
          torn, doubled, crossed, shared, up, crashes, fails>>
log == <<segs, nextOffset>>
consumer == <<offset, got>>
history == <<retired, torn, doubled, crossed, shared>>
process == <<up, crashes>>

Records == 0..(MaxRecords - 1)
Bases == 0..MaxRecords
Twin == -1
File == [recs : Seq(Records), time : Nat]
Segment == [recs : Seq(Records), created : Nat, dead : BOOLEAN]

(* step     where the loop is; "between" has retention behind it           *)
(* victims  the segments to remove;  left: those not removed yet           *)
(* base     of the staged segment                                          *)
(* rest     the places <<segment, index>> of the records not yet staged    *)
Idle == [step |-> "idle", victims |-> {}, left |-> {}, base |-> 0, rest |-> {}]

NewSegment(now) == [recs |-> <<>>, created |-> now, dead |-> FALSE]
Active == Max(DOMAIN segs)
NoFiles == [b \in {} |-> [recs |-> <<>>, time |-> 0]]
Without(f, S) == [b \in DOMAIN f \ S |-> f[b]]
With(f, b, x) == [a \in DOMAIN f \cup {b} |-> IF a = b THEN x ELSE f[a]]

(* The base offset of a segment, which is the name of its files. *)
FileOf(b) == IF b = Twin THEN 0 ELSE b

(* CommitLog.mu is free. *)
Free == up /\ maint.step \in {"idle", "between"}

Init ==
  /\ files = [b \in {0} |-> [recs |-> <<>>, time |-> 0]]
  /\ staged = NoFiles
  /\ segs = [b \in {0} |-> NewSegment(0)]
  /\ nextOffset = 0 /\ maint = Idle /\ cutoff = [retire |-> 0, merge |-> 0]
  /\ offset = 0 /\ got = [r \in Records |-> 0]
  /\ retired = {} /\ torn = {} /\ doubled = FALSE /\ crossed = FALSE /\ shared = FALSE
  /\ up = TRUE /\ crashes = 0 /\ fails = 0

-----------------------------------------------------------------------------
(* The producer and the consumer. *)

(* old: the active segment has reached MaxSegmentAge. *)
Rolls(old) == Len(segs[Active].recs) >= SegmentRecords \/ old

(* A segment whose file was deleted under it is still written to. *)
Write(old) ==
  /\ Free /\ nextOffset < MaxRecords
  /\ Rolls(old) => Active # nextOffset
  /\ LET base == IF Rolls(old) THEN nextOffset ELSE Active
         seg  == IF Rolls(old) THEN NewSegment(nextOffset) ELSE segs[Active]
         recs == Append(seg.recs, nextOffset)
     IN /\ segs' = With(segs, base, [seg EXCEPT !.recs = recs])
        /\ files' = IF Rolls(old) \/ base \in DOMAIN files
                    THEN With(files, base, [recs |-> recs, time |-> nextOffset + 1])
                    ELSE files
  /\ nextOffset' = nextOffset + 1
  /\ UNCHANGED <<staged, maint, cutoff, fails>>
  /\ UNCHANGED consumer /\ UNCHANGED history /\ UNCHANGED process

(* The active segment is empty and has reached its age: the new one opens    *)
(* the files of the old one.                                                 *)
WriteBesideTwin ==
  /\ Free /\ nextOffset < MaxRecords
  /\ Rolls(TRUE) /\ Active = nextOffset
  /\ fails < MaxFails /\ fails' = fails + 1
  /\ LET recs == <<nextOffset>>
     IN /\ segs' = With(With(segs, Twin, segs[Active]),
                        Active, [NewSegment(nextOffset) EXCEPT !.recs = recs])
        /\ files' = With(files, Active, [recs |-> recs, time |-> nextOffset + 1])
  /\ nextOffset' = nextOffset + 1
  /\ shared' = TRUE
  /\ UNCHANGED <<staged, maint, cutoff, retired, torn, doubled, crossed>>
  /\ UNCHANGED consumer /\ UNCHANGED process

(* Mutant: the last segment that starts below the offset. *)
Mut_SegmentOf(o) ==
  LET below == {b \in DOMAIN segs : b < o}
  IN IF below = {} THEN Min(DOMAIN segs) ELSE Max(below)

(* findSegment *)
SegmentOf(o) ==
  LET below == {b \in DOMAIN segs : b <= o}
  IN IF below = {} THEN Min(DOMAIN segs) ELSE Max(below)

(* Poll's loop over the batches that ReadFrom returns: those that do not end *)
(* before the offset, in the order of the file.                              *)
Batch == segs[SegmentOf(offset)].recs
Read == {i \in DOMAIN Batch : Batch[i] >= offset}

(* Mutant: the offset stays on the record that was returned. *)
Mut_OffsetAfter(S) == IF S = {} THEN offset ELSE Batch[Max(S)]

(* The offset when the loop is past the batches in S: behind the last one,   *)
(* whether its record was returned or had been consumed already.             *)
OffsetAfter(S) == IF S = {} THEN offset ELSE Batch[Max(S)] + 1

(* The batches whose record is returned if the loop comes to them, those it  *)
(* comes to before it has MaxPoll records, and what the poll returns.        *)
Fresh == {i \in Read : Batch[i] >= OffsetAfter({j \in Read : j < i})}
Visited == {i \in Read : Cardinality({j \in Fresh : j < i}) < MaxPoll}
Polled == Visited \cap Fresh

(* A read of a segment whose file was closed is an error and moves nothing.  *)
Poll ==
  /\ Free /\ ~segs[SegmentOf(offset)].dead /\ Polled # {}
  /\ offset' = OffsetAfter(Visited)
  /\ got' = [r \in Records |-> got[r] + Cardinality({i \in Polled : Batch[i] = r})]
  /\ UNCHANGED <<files, staged, maint, cutoff, fails>>
  /\ UNCHANGED log /\ UNCHANGED history /\ UNCHANGED process

-----------------------------------------------------------------------------
(* EnforceRetention. *)

SizeFrom(b) == MapThenSumSet(LAMBDA a : Len(segs[a].recs), {a \in DOMAIN segs : a >= b})

(* A segment goes when it is expired, or when what is left of the log is too *)
(* large at its turn: the loop subtracts what it removes, so that this is    *)
(* the size from here on as long as all before went, and small enough after. *)
Victims(c) ==
  {b \in DOMAIN segs \ {Active} : segs[b].created < c \/ SizeFrom(b) > RetentionRecords}

Removal(step, some) == [Idle EXCEPT !.step = step, !.victims = some, !.left = some]

EnforceRetention(c) ==
  /\ up /\ maint.step = "idle"
  /\ cutoff' = [cutoff EXCEPT !.retire = c]
  /\ maint' = Removal("retire", Victims(c))
  /\ UNCHANGED <<files, staged, fails>>
  /\ UNCHANGED log /\ UNCHANGED consumer /\ UNCHANGED history /\ UNCHANGED process

(* The loop of EnforceRetention, of removeSegments on segments without data  *)
(* ("clean") and of removeSegments behind a staged segment ("drop").         *)
Removing == up /\ maint.step \in {"retire", "clean", "drop"}
Victim == Min(maint.left)
Killed(b) == [segs EXCEPT ![b].dead = TRUE]
Retired(b) ==
  IF maint.step = "retire" /\ FileOf(b) \in DOMAIN files
  THEN retired \cup Range(files[FileOf(b)].recs) ELSE retired
Behind == IF maint.step = "retire" THEN [Idle EXCEPT !.step = "between"] ELSE Idle

(* segment.Remove: close, then delete.  The files of a segment that was      *)
(* closed before are not deleted again.                                      *)
RemoveNext ==
  /\ Removing /\ maint.left # {} /\ ~segs[Victim].dead
  /\ segs' = Killed(Victim)
  /\ files' = Without(files, {FileOf(Victim)})
  /\ retired' = Retired(Victim)
  /\ maint' = [maint EXCEPT !.left = @ \ {Victim}]
  /\ UNCHANGED <<staged, nextOffset, cutoff, torn, doubled, crossed, shared, fails>>
  /\ UNCHANGED consumer /\ UNCHANGED process

(* Close or the deletion of the log file fails, or that of the index file    *)
(* behind it.  The segments stay in the list, this one and the ones before   *)
(* it closed.                                                                *)
RemoveFails(deleted) ==
  /\ Removing /\ maint.left # {}
  /\ IF segs[Victim].dead THEN ~deleted /\ UNCHANGED fails
                          ELSE fails < MaxFails /\ fails' = fails + 1
  /\ segs' = Killed(Victim)
  /\ files' = IF deleted THEN Without(files, {FileOf(Victim)}) ELSE files
  /\ retired' = IF deleted THEN Retired(Victim) ELSE retired
  /\ maint' = Behind
  /\ UNCHANGED <<staged, nextOffset, cutoff, torn, doubled, crossed, shared>>
  /\ UNCHANGED consumer /\ UNCHANGED process

(* The list without the victims. *)
RemovalEnds ==
  /\ up /\ maint.step \in {"retire", "clean"} /\ maint.left = {}
  /\ segs' = Without(segs, maint.victims)
  /\ maint' = Behind
  /\ UNCHANGED <<files, staged, nextOffset, cutoff, fails>>
  /\ UNCHANGED consumer /\ UNCHANGED history /\ UNCHANGED process

-----------------------------------------------------------------------------
(* MergeSegments. *)

Candidates(c) == {b \in DOMAIN segs \ {Active} : segs[b].created <= c}

(* A segment that was closed cannot be read, unless there is nothing to read. *)
Unreadable(some) == \E b \in some : segs[b].dead /\ segs[b].recs # <<>>

Places(some) == UNION {{b} \X DOMAIN segs[b].recs : b \in some}

(* A segment that is not merged lies between two that are. *)
Crosses(some) ==
  \E a, b \in some : \E x \in DOMAIN segs \ some : a < x /\ x < b

(* The staged file of an earlier merge that failed is written on. *)
MergeSegments(c) ==
  /\ up /\ maint.step = "between"
  /\ cutoff' = [cutoff EXCEPT !.merge = c]
  /\ LET some == Candidates(c)
         base == FileOf(Min(some))
     IN IF Cardinality(some) < MinMerge \/ Unreadable(some)
        THEN maint' = Idle /\ UNCHANGED <<staged, crossed>>
        ELSE IF Places(some) = {}
        THEN maint' = Removal("clean", some) /\ UNCHANGED <<staged, crossed>>
        ELSE /\ base \in DOMAIN staged => Len(staged[base].recs) <= MaxStaged
             /\ maint' = [Removal("write", some) EXCEPT !.base = base, !.rest = Places(some)]
             /\ staged' = IF base \in DOMAIN staged THEN staged
                          ELSE With(staged, base, [recs |-> <<>>, time |-> nextOffset])
             /\ crossed' = (crossed \/ Crosses(some))
  /\ UNCHANGED <<files, retired, torn, doubled, shared, fails>>
  /\ UNCHANGED log /\ UNCHANGED consumer /\ UNCHANGED process

(* Mutant: the last segment is copied first. *)
Mut_Ahead(p, q) == p[1] > q[1] \/ (p[1] = q[1] /\ p[2] <= q[2])

(* The segments one behind the other. *)
Ahead(p, q) == p[1] < q[1] \/ (p[1] = q[1] /\ p[2] <= q[2])

WriteStaged ==
  /\ up /\ maint.step = "write"
  /\ \E p \in maint.rest :
       /\ \A q \in maint.rest : Ahead(p, q)
       /\ staged' = With(staged, maint.base,
                         [recs |-> Append(staged[maint.base].recs, segs[p[1]].recs[p[2]]),
                          time |-> nextOffset])
       /\ maint' = [maint EXCEPT !.rest = @ \ {p}]
  /\ UNCHANGED <<files, cutoff, fails>>
  /\ UNCHANGED log /\ UNCHANGED consumer /\ UNCHANGED history /\ UNCHANGED process

(* A write, the sync or the close fails: the directory is removed. *)
StagingFails ==
  /\ up /\ maint.step = "write" /\ fails < MaxFails
  /\ fails' = fails + 1
  /\ staged' = NoFiles
  /\ maint' = Idle
  /\ UNCHANGED <<files, cutoff>>
  /\ UNCHANGED log /\ UNCHANGED consumer /\ UNCHANGED history /\ UNCHANGED process

(* Mutant: the old segments go before the staged one is complete. *)
Mut_Complete == maint.step = "write"

Complete == maint.step = "write" /\ maint.rest = {}

CloseStaged ==
  /\ up /\ Complete
  /\ maint' = [maint EXCEPT !.step = "drop"]
  /\ UNCHANGED <<files, staged, cutoff, fails>>
  /\ UNCHANGED log /\ UNCHANGED consumer /\ UNCHANGED history /\ UNCHANGED process

(* A segment as openSegment finds it. *)
Opened(file) ==
  [recs |-> file.recs, dead |-> FALSE,
   created |-> IF file.recs = <<>> THEN nextOffset ELSE file.time]

(* Rename, remove the directory, open and insert. *)
Swap ==
  /\ up /\ maint.step = "drop" /\ maint.left = {}
  /\ LET file == staged[maint.base]
     IN /\ files' = With(files, maint.base, file)
        /\ segs' = With(Without(segs, maint.victims), maint.base, Opened(file))
  /\ staged' = NoFiles
  /\ maint' = Idle
  /\ UNCHANGED <<nextOffset, cutoff, fails>>
  /\ UNCHANGED consumer /\ UNCHANGED history /\ UNCHANGED process

-----------------------------------------------------------------------------
(* A crash, and the next process. *)

Crash ==
  /\ up /\ crashes < MaxCrashes
  /\ up' = FALSE /\ crashes' = crashes + 1
  /\ segs' = [b \in {} |-> NewSegment(0)] /\ maint' = Idle
  /\ UNCHANGED <<files, staged, nextOffset, cutoff, fails>>
  /\ UNCHANGED consumer /\ UNCHANGED history

(* recoverStaging: what is staged replaces what is there. *)
Merged == [b \in DOMAIN files \cup DOMAIN staged |->
             IF b \in DOMAIN staged THEN staged[b] ELSE files[b]]

(* The records of the files that are replaced which their replacement lacks. *)
TornBy == UNION {Range(files[b].recs) \ Range(staged[b].recs) :
                   b \in DOMAIN files \cap DOMAIN staged}

Contents(dir) == UNION {Range(dir[b].recs) : b \in DOMAIN dir}

(* No record stands twice in the directory. *)
Single(dir) ==
  \A a, b \in DOMAIN dir : \A i \in DOMAIN dir[a].recs, j \in DOMAIN dir[b].recs :
    dir[a].recs[i] = dir[b].recs[j] => a = b /\ i = j

(* Mutant: the segment is not scanned. *)
Mut_NextOf(b, recs) == b

NextOf(b, recs) == Max({b} \cup {r + 1 : r \in Range(recs)})

(* recoverStaging and loadSegments. *)
Recover ==
  /\ ~up /\ DOMAIN Merged # {}
  /\ files' = Merged
  /\ staged' = NoFiles
  /\ segs' = [b \in DOMAIN Merged |-> Opened(Merged[b])]
  /\ LET last == Max(DOMAIN Merged) IN nextOffset' = NextOf(last, Merged[last].recs)
  /\ torn' = torn \cup TornBy
  /\ doubled' = (doubled \/ ~Single(Merged) \/ Contents(Merged) \cap retired # {})
  /\ up' = TRUE
  /\ UNCHANGED <<maint, cutoff, offset, got, retired, crossed, shared, crashes, fails>>

(* The directory is empty: the log begins again, and time with it, as it is  *)
(* counted in records.                                                       *)
RecoverEmpty ==
  /\ ~up /\ DOMAIN Merged = {}
  /\ files' = [b \in {0} |-> [recs |-> <<>>, time |-> 0]]
  /\ segs' = [b \in {0} |-> NewSegment(0)]
  /\ nextOffset' = 0 /\ cutoff' = [retire |-> 0, merge |-> 0]
  /\ up' = TRUE
  /\ UNCHANGED <<staged, maint, crashes, fails>>
  /\ UNCHANGED consumer /\ UNCHANGED history

Next ==
  \/ (\E old \in BOOLEAN : Write(old)) \/ WriteBesideTwin
  \/ Poll
  \/ \E c \in cutoff.retire..nextOffset : EnforceRetention(c)
  \/ RemoveNext
  \/ \E deleted \in BOOLEAN : RemoveFails(deleted)
  \/ RemovalEnds
  \/ \E c \in 0..nextOffset : c >= cutoff.retire /\ c >= cutoff.merge /\ MergeSegments(c)
  \/ WriteStaged \/ StagingFails \/ CloseStaged \/ Swap
  \/ Crash \/ Recover \/ RecoverEmpty

Spec == Init /\ [][Next]_vars

-----------------------------------------------------------------------------
(* Properties. *)

Lost == retired \cup torn

TypeOK ==
  /\ DOMAIN files \subseteq Bases /\ files \in [DOMAIN files -> File]
  /\ DOMAIN staged \subseteq Bases /\ staged \in [DOMAIN staged -> File]
  /\ DOMAIN segs \subseteq Bases \cup {Twin} /\ segs \in [DOMAIN segs -> Segment]
  /\ nextOffset \in 0..MaxRecords /\ offset \in 0..MaxRecords
  /\ cutoff \in [retire : Nat, merge : Nat]
  /\ maint \in [step : {"idle", "between", "retire", "clean", "write", "drop"},
               victims : SUBSET (Bases \cup {Twin}), left : SUBSET (Bases \cup {Twin}),
               base : Bases, rest : SUBSET ((Bases \cup {Twin}) \X Nat)]
  /\ got \in [Records -> Nat]
  /\ retired \subseteq Records /\ torn \subseteq Records
  /\ doubled \in BOOLEAN /\ crossed \in BOOLEAN /\ shared \in BOOLEAN /\ up \in BOOLEAN
  /\ crashes \in Nat /\ fails \in Nat

(* The properties are about logs in which no two segments share a file.      *)
(* Retention deletes the older of such two with the file of the one that is  *)
(* written, so that what follows is in no file and a restart begins at 0.    *)

(* Whatever fails and wherever the process dies, a record that was written   *)
(* is in the directory or in .staging, unless retention deleted its file or  *)
(* recovery put an unfinished staged file in its place (compaction.go:212).  *)
RecordsConserved ==
  \/ 0..(nextOffset - 1) = Contents(files) \cup Contents(staged) \cup Lost
  \/ shared

(* "On crash between steps 3-4, recoverStaging() restores files on next      *)
(* startup" (compaction.go:211), and a merge is written crash-safely: no     *)
(* crash costs a record.                                                     *)
MergeIsCrashSafe ==
  up /\ ~shared => 0..(nextOffset - 1) = Contents(files) \cup Contents(staged) \cup retired

(* As long as merges take neighbours, the next record is found by a poll,    *)
(* across merged, overlapping and reloaded segments, unless it is gone or    *)
(* its segment was left closed by a removal that failed (commit_log.go:191). *)
PollFindsNext ==
  Free /\ ~crossed /\ ~shared /\ offset < nextOffset /\ offset \notin Lost =>
    \/ segs[SegmentOf(offset)].dead
    \/ \E i \in Polled : Batch[i] = offset /\ \A j \in Polled : i <= j

(* A poll moves past no record that is stored and was never delivered ...    *)
PassesDelivered ==
  offset' # offset => \A r \in 0..(offset' - 1) : got'[r] > 0 \/ r \in Lost

(* ... as long as merges take neighbours, even when it meets batches twice   *)
(* or in the wrong order (consumer.go:99).                                   *)
PollSkipsNothing == [][~crossed /\ ~shared => PassesDelivered]_vars

(* "All records should still be readable across all segments" after a merge  *)
(* (storage_management_test.go:272).                                         *)
MergedLogIsRead == [][~shared => PassesDelivered]_vars

(* A record comes twice only when recovery found one twice, or one again that *)
(* retention had deleted, or when a merge put segments together that are not *)
(* neighbours: a crash between the removals of a merge leaves a record in two *)
(* files, which a later merge puts one behind the other, and a merge that    *)
(* failed leaves a staged file that the next one writes on and that outlives *)
(* the segments it was written from.                                         *)
DeliveredOnce == (\E r \in Records : got[r] > 1) => doubled \/ crossed \/ shared

(* What a new process takes for the next offset was not given before, and    *)
(* the consumer is not ahead of it (commit_log.go:63).                       *)
OffsetsGrow ==
  [][~shared' => nextOffset' >= nextOffset /\ offset' <= nextOffset']_vars
=============================================================================

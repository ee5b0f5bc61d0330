------------------------------ MODULE ForgeLog ------------------------------
(***************************************************************************)
(* The commit log of one topic and the consumer of one group: rolling      *)
(* segments, the sparse index of each, reads through a byte window, the    *)
(* committed offset, and what a new process finds on disk.  Appends and    *)
(* polls exclude one another (CommitLog.mu, Consumer.mu), so each is one   *)
(* action.                                                                 *)
(*                                                                         *)
(* A batch is known by its offsets and its place in the .log file; sizes   *)
(* are small numbers instead of bytes.  The process may die, the machine   *)
(* does not: what was written to a file stays there.                       *)
(***************************************************************************)
EXTENDS Integers, Sequences, FiniteSets

CONSTANTS MaxOffset,        \* bound: records in the log
          MaxRestarts,      \* bound: processes after the first
          MaxCount,         \* records in a batch
          MaxSize,          \* size of a batch
          MaxSegmentBytes,  \* size at which a segment is full
          IndexInterval,    \* size between index entries
          FsyncEvery,       \* batches between syncs; 0 for never
          MaxRecords,       \* argument of Poll
          Window            \* what Poll reads of the .log file

ASSUME LogAssumption ==
  /\ MaxOffset \in Nat /\ MaxRestarts \in Nat /\ FsyncEvery \in Nat
  /\ MaxCount \in Nat \ {0} /\ MaxSize \in Nat \ {0}
  /\ MaxSegmentBytes \in Nat \ {0} /\ IndexInterval \in Nat \ {0}
  /\ MaxRecords \in Nat \ {0} /\ Window \in Nat \ {0}

VARIABLES
  segs,        \* the segments, oldest first
  nextOffset,  \* of the commit log
  offset,      \* of the consumer, in memory
  polled,      \* the records the last Poll returned
  saved,       \* the committed offset, on disk
  restarts

vars == <<segs, nextOffset, offset, polled, saved, restarts>>

Batch == [base : Nat, count : 1..MaxCount, pos : Nat, size : 1..MaxSize]
Entry == [base : Nat, pos : Nat]

(* base     first offset, and name of the files                            *)
(* batches  the .log file                                                  *)
(* size     of the .log file                                               *)
(* next     nextOffset of the segment                                      *)
(* index    index.entries in memory;  file: the .idx file                  *)
(* dirty    dirtyFrom;  at: where the .idx file descriptor stands          *)
(* since    bytesSinceIndex;  unsynced: batchesSinceSync                   *)
Segment == [base : Nat, batches : Seq(Batch), size : Nat, next : Nat,
            index : Seq(Entry), file : Seq(Entry), dirty : Nat, at : Nat,
            since : Nat, unsynced : Nat]

NewSegment(base) ==
  [base |-> base, batches |-> <<>>, size |-> 0, next |-> base, index |-> <<>>,
   file |-> <<>>, dirty |-> 0, at |-> 0, since |-> 0, unsynced |-> 0]

Active == segs[Len(segs)]
End(b) == b.base + b.count

Init ==
  /\ segs = <<NewSegment(0)>>
  /\ nextOffset = 0 /\ offset = 0 /\ polled = {} /\ saved = 0
  /\ restarts = 0

-----------------------------------------------------------------------------
(* The index of a segment. *)

(* The file after index.Sync: the new entries go where the descriptor      *)
(* stands, which in a reopened file is its beginning.                      *)
Synced(s) ==
  LET new == SubSeq(s.index, s.dirty + 1, Len(s.index))
      len == IF s.at + Len(new) > Len(s.file) THEN s.at + Len(new) ELSE Len(s.file)
  IN [s EXCEPT !.file = [i \in 1..len |->
                           IF i > s.at /\ i <= s.at + Len(new) THEN new[i - s.at]
                                                               ELSE s.file[i]],
               !.at = s.at + Len(new),
               !.dirty = Len(s.index)]

(* Mutant: the entry after the target is taken. *)
Mut_IsFloor(s, i, o) == i = 0 \/ s.index[i].base > o

(* sort.Search stops between an entry that is not above o and one that is: *)
(* one place when the entries are sorted, any such place when they are not. *)
IsFloor(s, i, o) ==
  /\ i = 0 \/ s.index[i].base <= o
  /\ i = Len(s.index) \/ s.index[i + 1].base > o

Lookup(s, o) ==
  {IF i = 0 THEN 0 ELSE s.index[i].pos : i \in {j \in 0..Len(s.index) : IsFloor(s, j, o)}}

-----------------------------------------------------------------------------
(* CommitLog.Append. *)

(* Mutant: the entry points behind the batch. *)
Mut_EntryPos(s, n) == s.size + n

EntryPos(s, n) == s.size

(* Mutant: an interval is over one byte late. *)
Mut_Indexed(s) == s.since > IndexInterval \/ s.index = <<>>

(* The batch gets an index entry. *)
Indexed(s) == s.since >= IndexInterval \/ s.index = <<>>

(* The batch at the end of the .log file, of n bytes. *)
Appended(s, base, count, n) ==
  [s EXCEPT
     !.batches = Append(@, [base |-> base, count |-> count, pos |-> s.size, size |-> n]),
     !.index = IF Indexed(s) THEN Append(@, [base |-> base, pos |-> EntryPos(s, n)]) ELSE @,
     !.since = IF Indexed(s) THEN n ELSE @ + n,
     !.size = @ + n,
     !.next = base + count,
     !.unsynced = @ + 1]

(* Segment.Append, with the sync that is due. *)
Written(s, base, count, n) ==
  LET t == Appended(s, base, count, n)
  IN IF FsyncEvery > 0 /\ t.unsynced >= FsyncEvery
     THEN [Synced(t) EXCEPT !.unsynced = 0]
     ELSE t

(* The segments the batch is written to.  An active segment that is empty    *)
(* can be full by age only; the segment opened over its files again is no    *)
(* different and takes its place in every lookup.                            *)
Rolled(old) ==
  IF (Active.size >= MaxSegmentBytes \/ old) /\ Active.batches # <<>>
  THEN Append(segs, NewSegment(nextOffset))
  ELSE segs

(* old: the active segment has reached MaxSegmentAge. *)
Write(count, n, old) ==
  /\ nextOffset + count <= MaxOffset
  /\ LET to == Rolled(old)
     IN segs' = [to EXCEPT ![Len(to)] = Written(@, nextOffset, count, n)]
  /\ nextOffset' = nextOffset + count
  /\ UNCHANGED <<offset, polled, saved, restarts>>

-----------------------------------------------------------------------------
(* Consumer.Poll. *)

(* The segment that should contain the offset: the last one that starts at *)
(* or below it.                                                            *)
SegmentOf(o) ==
  segs[CHOOSE k \in 1..Len(segs) :
         segs[k].base <= o /\ \A j \in 1..Len(segs) : segs[j].base <= o => j <= k]

(* The batch lies within the window that starts at p. *)
Fits(s, b, p) == b.pos >= p /\ b.pos + b.size <= p + Window

InWindow(s, o, p) ==
  {b \in {s.batches[i] : i \in 1..Len(s.batches)} : Fits(s, b, p) /\ End(b) > o}

Readable(s, o, p) ==
  {x \in UNION {b.base..(End(b) - 1) : b \in InWindow(s, o, p)} : x >= o}

(* Mutant: the offset moves past the whole batch although Poll stopped in  *)
(* the middle of it.                                                       *)
Mut_StopAt(found, r) == End(CHOOSE b \in found : b.base <= r /\ r < End(b))

StopAt(found, r) == r + 1

(* Poll returns all there is, or stops at the record that makes MaxRecords. *)
Poll ==
  LET s == SegmentOf(offset)
  IN \E p \in Lookup(s, offset) :
       LET found == InWindow(s, offset, p)
           all == Readable(s, offset, p)
           upTo(r) == {x \in all : x <= r}
       IN /\ found # {}
          /\ \E r \in all :
               /\ polled' = upTo(r)
               /\ \/ /\ Cardinality(upTo(r)) = MaxRecords
                     /\ offset' = StopAt(found, r)
                  \/ /\ upTo(r) = all /\ Cardinality(all) < MaxRecords
                     /\ offset' \in {End(b) : b \in found}
                     /\ \A b \in found : End(b) <= offset'
  /\ UNCHANGED <<segs, nextOffset, saved, restarts>>

Commit ==
  /\ saved' = offset
  /\ UNCHANGED <<segs, nextOffset, offset, polled, restarts>>

-----------------------------------------------------------------------------
(* A new process. *)

(* Mutant: the last index entry is taken for the last batch. *)
Mut_Recovered(s) == IF s.index = <<>> THEN s.base ELSE s.index[Len(s.index)].base

(* segment.recover scans the .log file from the last index entry on. *)
Recovered(s) ==
  LET start == IF s.index = <<>> THEN 0 ELSE s.index[Len(s.index)].pos
      scanned == {s.batches[i] : i \in {j \in 1..Len(s.batches) : s.batches[j].pos >= start}}
  IN CHOOSE n \in {s.base} \cup {End(b) : b \in scanned} : \A b \in scanned : End(b) <= n

Reopened(s) ==
  LET t == [s EXCEPT !.index = s.file, !.dirty = Len(s.file), !.at = 0,
                     !.since = 0, !.unsynced = 0]
  IN [t EXCEPT !.next = Recovered(t)]

(* clean: CommitLog.Close ran, and synced every index. *)
Restart(clean) ==
  /\ restarts < MaxRestarts
  /\ restarts' = restarts + 1
  /\ segs' = [k \in 1..Len(segs) |-> Reopened(IF clean THEN Synced(segs[k]) ELSE segs[k])]
  /\ nextOffset' = segs'[Len(segs)].next
  /\ offset' = saved /\ polled' = {}
  /\ UNCHANGED saved

Next ==
  \/ \E count \in 1..MaxCount, n \in 1..MaxSize, old \in BOOLEAN : Write(count, n, old)
  \/ Poll
  \/ Commit
  \/ \E clean \in BOOLEAN : Restart(clean)

Spec == Init /\ [][Next]_vars

-----------------------------------------------------------------------------
(* Properties. *)

TypeOK ==
  /\ segs \in Seq(Segment) /\ Len(segs) > 0
  /\ nextOffset \in 0..MaxOffset
  /\ offset \in Nat /\ saved \in Nat
  /\ polled \subseteq Nat
  /\ restarts \in 0..MaxRestarts

(* Where offset o is stored: a segment and a batch of it. *)
Places(o) ==
  UNION {{<<k, i>> : i \in {j \in 1..Len(segs[k].batches) :
                              /\ segs[k].batches[j].base <= o
                              /\ o < End(segs[k].batches[j])}} : k \in 1..Len(segs)}

(* No offset is given twice and none is left out, whatever recover had to   *)
(* go by after a restart: an index that was never written, or one whose     *)
(* entries were overwritten and are out of order.                           *)
OffsetsAreDense ==
  \A o \in 0..MaxOffset :
    /\ Places(o) # {} <=> o < nextOffset
    /\ \A x, y \in Places(o) : x = y

(* A read starts at or before the batch that holds the target, in every      *)
(* state the index can be in: no record is passed over.                      *)
LookupIsBelow ==
  \A k \in 1..Len(segs) : \A o \in segs[k].base..nextOffset :
    \A p \in Lookup(segs[k], o) :
      \A i \in 1..Len(segs[k].batches) :
        segs[k].batches[i].pos < p => End(segs[k].batches[i]) <= o

(* "Poll reads up to maxRecords from the current offset. Advances the        *)
(* in-memory offset" (consumer.go:68): a poll that moves the offset returned *)
(* exactly the records it moved past.                                        *)
PollsTakeNext ==
  [][offset' > offset => polled' = offset..(offset' - 1)]_vars

(* The log and its consumer keep the promise of TopicLog. *)
Topic == INSTANCE TopicLog WITH written <- nextOffset, position <- offset

ImplementsTopicLog == Topic!Spec

(* In the first process, a poll behind the end of the log comes back with    *)
(* records: the index entries are never further apart than the window.       *)
PollAdvances ==
  restarts = 0 /\ offset < nextOffset =>
    \A p \in Lookup(SegmentOf(offset), offset) :
      InWindow(SegmentOf(offset), offset, p) # {}
=============================================================================

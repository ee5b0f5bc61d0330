-------------------------- MODULE ForgeLog_proofs --------------------------
(***************************************************************************)
(* Theorems about ForgeLog, for every size of segments, batches, index     *)
(* interval and window, and any number of restarts.                        *)
(*                                                                         *)
(* SegOK is what holds of one segment whatever became of its index: the    *)
(* batches follow one another in offsets and bytes and leave no offset     *)
(* out, and an index entry, in memory or in the file, belongs to a batch.  *)
(* Chain says that the segments follow one another.  The order of the    *)
(* entries is not part of it: it is lost when a reopened .idx file is      *)
(* overwritten, and IndexDense holds in the first process only.            *)
(***************************************************************************)
EXTENDS ForgeLog, TLAPS

(* The batches q fill a .log file up to size and the offsets from base to   *)
(* next, one after the other.                                               *)
Ordered(q, base, next, size) ==
  /\ \A i \in 1..Len(q) :
       base <= q[i].base /\ End(q[i]) <= next /\ q[i].pos + q[i].size <= size
  /\ \A i, j \in 1..Len(q) :
       i < j => End(q[i]) <= q[j].base /\ q[i].pos + q[i].size <= q[j].pos

Reaches(q, base, next) ==
  /\ base <= next
  /\ q = <<>> => next = base
  /\ q # <<>> => next = End(q[Len(q)])

Covers(q, base, next) ==
  \A o \in base..(next - 1) : \E i \in 1..Len(q) : q[i].base <= o /\ o < End(q[i])

BatchesOK(s) ==
  /\ Ordered(s.batches, s.base, s.next, s.size)
  /\ Reaches(s.batches, s.base, s.next)
  /\ Covers(s.batches, s.base, s.next)

AtBatch(e, q) == \E i \in 1..Len(q) : e.base = q[i].base /\ e.pos = q[i].pos

IsOf(e, s) == AtBatch(e, s.batches)

EntriesOK(s) ==
  /\ \A i \in 1..Len(s.index) : IsOf(s.index[i], s)
  /\ \A i \in 1..Len(s.file) : IsOf(s.file[i], s)
  /\ s.dirty <= Len(s.index) /\ s.at <= Len(s.file)

SegOK(s) == s \in Segment /\ BatchesOK(s) /\ EntriesOK(s)

(* The segments q hold the offsets up to next, one after the other. *)
Chain(q, next) ==
  /\ q[1].base = 0
  /\ q[Len(q)].next = next
  /\ \A j, k \in 1..Len(q) : j < k => q[j].next <= q[k].base
  /\ \A o \in 0..(next - 1) : \E k \in 1..Len(q) : q[k].base <= o /\ o < q[k].next

SegmentsOK(q, next) ==
  /\ q \in Seq(Segment) /\ Len(q) > 0
  /\ \A k \in 1..Len(q) : SegOK(q[k])
  /\ Chain(q, next)

ConsumerOK == saved <= offset /\ offset <= nextOffset

IInv == TypeOK /\ SegmentsOK(segs, nextOffset) /\ ConsumerOK

-----------------------------------------------------------------------------
(* Facts about sequences. *)

LEMMA AppendFacts ==
  ASSUME NEW S, NEW q \in Seq(S), NEW e \in S
  PROVE  /\ Append(q, e) \in Seq(S)
         /\ Len(Append(q, e)) = Len(q) + 1
         /\ Len(q) \in Nat
         /\ \A i \in 1..Len(q) : Append(q, e)[i] = q[i]
         /\ Append(q, e)[Len(q) + 1] = e
         /\ Append(q, e) # <<>>
  OBVIOUS

LEMMA EmptyFacts ==
  ASSUME NEW S
  PROVE  <<>> \in Seq(S) /\ Len(<<>>) = 0
  OBVIOUS

LEMMA ElementType ==
  ASSUME NEW S, NEW q \in Seq(S), NEW i \in 1..Len(q)
  PROVE  q[i] \in S
  OBVIOUS

LEMMA NonEmpty ==
  ASSUME NEW S, NEW q \in Seq(S)
  PROVE  Len(q) \in Nat /\ (q = <<>> <=> Len(q) = 0)
  OBVIOUS

LEMMA SubSeqFacts ==
  ASSUME NEW S, NEW q \in Seq(S), NEW d \in Nat, d <= Len(q)
  PROVE  /\ SubSeq(q, d + 1, Len(q)) \in Seq(S)
         /\ Len(SubSeq(q, d + 1, Len(q))) = Len(q) - d
         /\ \A i \in 1..(Len(q) - d) : SubSeq(q, d + 1, Len(q))[i] = q[d + i]
  OBVIOUS

LEMMA SegmentFields ==
  ASSUME NEW s \in Segment
  PROVE  /\ s.base \in Nat /\ s.size \in Nat /\ s.next \in Nat
         /\ s.batches \in Seq(Batch) /\ Len(s.batches) \in Nat
         /\ s.index \in Seq(Entry) /\ Len(s.index) \in Nat
         /\ s.file \in Seq(Entry) /\ Len(s.file) \in Nat
         /\ s.dirty \in Nat /\ s.at \in Nat /\ s.since \in Nat /\ s.unsynced \in Nat
         /\ \A i \in 1..Len(s.batches) :
              /\ s.batches[i] \in Batch
              /\ s.batches[i].base \in Nat /\ s.batches[i].pos \in Nat
              /\ s.batches[i].count \in 1..MaxCount /\ s.batches[i].size \in 1..MaxSize
              /\ End(s.batches[i]) \in Nat
         /\ \A i \in 1..Len(s.index) : s.index[i].base \in Nat /\ s.index[i].pos \in Nat
<1>1. /\ s.base \in Nat /\ s.size \in Nat /\ s.next \in Nat
      /\ s.batches \in Seq(Batch) /\ s.index \in Seq(Entry) /\ s.file \in Seq(Entry)
      /\ s.dirty \in Nat /\ s.at \in Nat /\ s.since \in Nat /\ s.unsynced \in Nat
  BY DEF Segment
<1>2. Len(s.batches) \in Nat /\ Len(s.index) \in Nat /\ Len(s.file) \in Nat
  BY SMTT(20), <1>1
<1>3. ASSUME NEW i \in 1..Len(s.batches)
      PROVE  /\ s.batches[i] \in Batch
             /\ s.batches[i].base \in Nat /\ s.batches[i].pos \in Nat
             /\ s.batches[i].count \in 1..MaxCount /\ s.batches[i].size \in 1..MaxSize
             /\ End(s.batches[i]) \in Nat
  <2>1. s.batches[i] \in Batch
    BY <1>1, ElementType
  <2> QED
    BY <2>1, LogAssumption DEF Batch, End
<1>4. ASSUME NEW i \in 1..Len(s.index)
      PROVE  s.index[i].base \in Nat /\ s.index[i].pos \in Nat
  <2>1. s.index[i] \in Entry
    BY <1>1, ElementType
  <2> QED
    BY <2>1 DEF Entry
<1> QED
  BY <1>1, <1>2, <1>3, <1>4

-----------------------------------------------------------------------------
(* What the operations on one segment change, and that they keep SegOK. *)

LEMMA NewSegmentOK ==
  ASSUME NEW base \in Nat
  PROVE  SegOK(NewSegment(base)) /\ NewSegment(base).base = base
                                 /\ NewSegment(base).next = base
<1> DEFINE s == NewSegment(base)
<1>1. s \in Segment /\ s.base = base /\ s.next = base /\ s.size = 0
      /\ s.batches = <<>> /\ s.index = <<>> /\ s.file = <<>> /\ s.dirty = 0 /\ s.at = 0
  BY EmptyFacts DEF NewSegment, Segment
<1> HIDE DEF s
<1>2. Len(s.batches) = 0 /\ Len(s.index) = 0 /\ Len(s.file) = 0
  BY <1>1, EmptyFacts
<1>3. BatchesOK(s) /\ EntriesOK(s)
  BY <1>1, <1>2 DEF BatchesOK, Ordered, Reaches, Covers, EntriesOK
<1> QED
  BY <1>1, <1>3 DEF SegOK, s

(* index.Sync moves entries from memory to the file and nothing else. *)
LEMMA SyncedKeeps ==
  ASSUME NEW s, SegOK(s)
  PROVE  /\ SegOK(Synced(s))
         /\ Synced(s).base = s.base /\ Synced(s).batches = s.batches
         /\ Synced(s).size = s.size /\ Synced(s).next = s.next
         /\ Synced(s).index = s.index /\ Synced(s).since = s.since
<1> DEFINE new == SubSeq(s.index, s.dirty + 1, Len(s.index))
           len == IF s.at + Len(new) > Len(s.file) THEN s.at + Len(new) ELSE Len(s.file)
           file == [i \in 1..len |-> IF i > s.at /\ i <= s.at + Len(new)
                                     THEN new[i - s.at] ELSE s.file[i]]
<1>t. /\ s \in Segment /\ s.dirty <= Len(s.index) /\ s.at <= Len(s.file)
      /\ \A i \in 1..Len(s.index) : IsOf(s.index[i], s)
      /\ \A i \in 1..Len(s.file) : IsOf(s.file[i], s)
  BY DEF SegOK, EntriesOK
<1>f. /\ s.index \in Seq(Entry) /\ Len(s.index) \in Nat /\ s.dirty \in Nat
      /\ s.file \in Seq(Entry) /\ Len(s.file) \in Nat /\ s.at \in Nat
  BY <1>t, SegmentFields
<1>1. /\ Len(new) = Len(s.index) - s.dirty
      /\ \A i \in 1..(Len(s.index) - s.dirty) : new[i] = s.index[s.dirty + i]
  <2> DEFINE q == s.index
             d == s.dirty
  <2>1. q \in Seq(Entry) /\ d \in Nat /\ d <= Len(q)
    BY <1>t, <1>f
  <2>2. new = SubSeq(q, d + 1, Len(q))
    OBVIOUS
  <2> HIDE DEF q, d, new
  <2>3. Len(new) = Len(q) - d /\ \A i \in 1..(Len(q) - d) : new[i] = q[d + i]
    BY <2>1, <2>2, SubSeqFacts
  <2> QED
    BY <2>3 DEF q, d
<1>2. Synced(s) = [s EXCEPT !.file = file, !.at = s.at + Len(new), !.dirty = Len(s.index)]
  BY DEF Synced
<1> HIDE DEF new
<1>n. Len(new) \in Nat
  BY <1>t, <1>f, <1>1
<1>3. len \in Nat /\ s.at + Len(new) <= len
      /\ (len > s.at + Len(new) => len = Len(s.file))
  BY <1>t, <1>f, <1>n
<1> HIDE DEF len
<1>4. ASSUME NEW i \in 1..len
      PROVE  file[i] \in Entry /\ IsOf(file[i], s)
  <2>1. CASE i > s.at /\ i <= s.at + Len(new)
    <3>1. i - s.at \in 1..(Len(s.index) - s.dirty)
      BY <1>t, <1>f, <1>1, <1>3, <2>1
    <3>2. s.dirty + (i - s.at) \in 1..Len(s.index)
      <4> DEFINE k == i - s.at
      <4>1. k \in 1..(Len(s.index) - s.dirty)
        BY <3>1
      <4> HIDE DEF k
      <4>2. s.dirty + k \in 1..Len(s.index)
        BY <1>t, <1>f, <4>1
      <4> QED
        BY <4>2 DEF k
    <3>3. file[i] = s.index[s.dirty + (i - s.at)]
      BY <1>1, <2>1, <3>1
    <3> QED
      BY <1>t, <1>f, <3>2, <3>3, ElementType
  <2>2. CASE ~(i > s.at /\ i <= s.at + Len(new))
    <3>1. i \in 1..Len(s.file)
      BY <1>t, <1>f, <1>n, <1>3, <2>2
    <3>2. file[i] = s.file[i]
      BY <2>2
    <3> QED
      BY <1>t, <1>f, <3>1, <3>2, ElementType
  <2> QED
    BY <2>1, <2>2
<1>5. file \in Seq(Entry) /\ Len(file) = len
  <2>1. file \in [1..len -> Entry]
    BY <1>4
  <2> HIDE DEF file
  <2>2. file \in Seq(Entry)
    BY <1>3, <2>1
  <2> QED
    BY <1>3, <2>1, <2>2
<1> HIDE DEF file
<1>6. /\ Synced(s) \in Segment /\ Synced(s).file = file
      /\ Synced(s).at = s.at + Len(new) /\ Synced(s).dirty = Len(s.index)
      /\ Synced(s).base = s.base /\ Synced(s).batches = s.batches
      /\ Synced(s).size = s.size /\ Synced(s).next = s.next
      /\ Synced(s).index = s.index /\ Synced(s).since = s.since
  <2> DEFINE a == s.at + Len(new)
             d == Len(s.index)
  <2>1. a \in Nat /\ d \in Nat
    BY <1>f, <1>n
  <2>2. Synced(s) = [s EXCEPT !.file = file, !.at = a, !.dirty = d]
    BY <1>2
  <2> HIDE DEF a, d
  <2>3. /\ Synced(s) \in Segment /\ Synced(s).file = file
        /\ Synced(s).at = a /\ Synced(s).dirty = d
    BY <1>t, <2>1, <2>2, <1>5 DEF Segment
  <2>4. /\ Synced(s).base = s.base /\ Synced(s).batches = s.batches
        /\ Synced(s).size = s.size /\ Synced(s).next = s.next
        /\ Synced(s).index = s.index /\ Synced(s).since = s.since
    BY <1>t, <2>2 DEF Segment
  <2> QED
    BY <2>3, <2>4 DEF a, d
<1>8. BatchesOK(Synced(s))
  BY <1>6 DEF SegOK, BatchesOK
<1>9. EntriesOK(Synced(s))
  <2>1. ASSUME NEW i \in 1..Len(Synced(s).file)
        PROVE  IsOf(Synced(s).file[i], Synced(s))
    <3>1. i \in 1..len /\ Synced(s).file[i] = file[i]
      BY <1>5, <1>6
    <3>2. IsOf(file[i], s)
      BY <1>4, <3>1
    <3> QED
      BY <1>6, <3>1, <3>2 DEF IsOf
  <2>2. \A i \in 1..Len(Synced(s).index) : IsOf(Synced(s).index[i], Synced(s))
    BY <1>t, <1>6 DEF IsOf
  <2> QED
    BY <1>f, <1>3, <1>5, <1>6, <2>1, <2>2 DEF EntriesOK
<1> QED
  BY <1>6, <1>8, <1>9 DEF SegOK

(* A batch put at the end of the others. *)
LEMMA BatchAppended ==
  ASSUME NEW q \in Seq(Batch), NEW b \in Batch, NEW r, r = Append(q, b),
         NEW base \in Nat, NEW next \in Nat, NEW size \in Nat,
         Ordered(q, base, next, size), Reaches(q, base, next), Covers(q, base, next),
         b.base = next, b.pos = size
  PROVE  /\ Ordered(r, base, End(b), size + b.size)
         /\ Reaches(r, base, End(b))
         /\ Covers(r, base, End(b))
         /\ AtBatch([base |-> b.base, pos |-> b.pos], r)
         /\ \A e : AtBatch(e, q) => AtBatch(e, r)
<1> DEFINE n == Len(q)
<1>1. /\ n \in Nat /\ Len(r) = n + 1 /\ r[n + 1] = b /\ r # <<>>
      /\ \A i \in 1..n : r[i] = q[i]
  BY AppendFacts
<1>2. \A i \in 1..n : q[i] \in Batch
  BY ElementType
<1> HIDE DEF n
<1>3. ASSUME NEW x \in Batch
      PROVE  /\ x.base \in Nat /\ x.pos \in Nat /\ x.size \in Nat /\ x.count \in Nat
             /\ x.size > 0 /\ x.count > 0 /\ End(x) = x.base + x.count
  BY LogAssumption DEF Batch, End
<1>4. End(b) = next + b.count /\ b.count \in Nat /\ b.count > 0 /\ b.size \in Nat
  BY <1>3
<1>5. \A i \in 1..n :
        base <= q[i].base /\ End(q[i]) <= next /\ q[i].pos + q[i].size <= size
  BY DEF Ordered, n
<1>6. \A i, j \in 1..n :
        i < j => End(q[i]) <= q[j].base /\ q[i].pos + q[i].size <= q[j].pos
  BY DEF Ordered, n
<1>7. ASSUME NEW i \in 1..n
      PROVE  /\ q[i].base \in Nat /\ End(q[i]) \in Nat
             /\ q[i].pos + q[i].size \in Nat
  <2> DEFINE x == q[i]
  <2>1. x \in Batch
    BY <1>2
  <2> HIDE DEF x
  <2>2. /\ x.base \in Nat /\ x.pos \in Nat /\ x.size \in Nat /\ x.count \in Nat
        /\ End(x) = x.base + x.count
    BY <1>3, <2>1
  <2>3. x.base \in Nat /\ End(x) \in Nat /\ x.pos + x.size \in Nat
    BY SMTT(20), <2>2
  <2> QED
    BY <2>3 DEF x
<1>8. base <= next
  BY DEF Reaches
<1>9. \A i \in 1..(n + 1) : i \in 1..n \/ i = n + 1
  BY <1>1
<1>10. \A i \in 1..(n + 1) :
         base <= r[i].base /\ End(r[i]) <= End(b) /\ r[i].pos + r[i].size <= size + b.size
  <2>1. ASSUME NEW i \in 1..n
        PROVE  base <= r[i].base /\ End(r[i]) <= End(b) /\ r[i].pos + r[i].size <= size + b.size
    <3>1. /\ base <= q[i].base /\ End(q[i]) <= next /\ q[i].pos + q[i].size <= size
          /\ r[i] = q[i]
      BY <1>1, <1>5
    <3>2. End(q[i]) \in Nat /\ q[i].pos + q[i].size \in Nat
      BY <1>7
    <3>3. next <= End(b) /\ size <= size + b.size /\ End(b) \in Nat /\ size + b.size \in Nat
      BY SMTT(20), <1>4
    <3> QED
      BY <3>1, <3>2, <3>3
  <2>2. base <= b.base /\ End(b) <= End(b) /\ b.pos + b.size <= size + b.size
    BY <1>4, <1>8
  <2> QED
    BY <1>1, <1>9, <2>1, <2>2
<1>11. ASSUME NEW i \in 1..(n + 1), NEW j \in 1..(n + 1), i < j
       PROVE  End(r[i]) <= r[j].base /\ r[i].pos + r[i].size <= r[j].pos
  <2>1. i \in 1..n /\ r[i] = q[i]
    BY <1>1, <1>11
  <2>2. CASE j \in 1..n
    BY <1>1, <1>6, <1>11, <2>1, <2>2
  <2>3. CASE j = n + 1
    BY <1>1, <1>5, <2>1, <2>3
  <2> QED
    BY <1>9, <2>2, <2>3
<1>12. ASSUME NEW o \in base..(End(b) - 1)
       PROVE  \E i \in 1..(n + 1) : r[i].base <= o /\ o < End(r[i])
  <2>1. CASE o < next
    <3>1. o \in base..(next - 1)
      BY <2>1
    <3>2. PICK i \in 1..n : q[i].base <= o /\ o < End(q[i])
      BY <3>1 DEF Covers, n
    <3>3. i \in 1..(n + 1) /\ r[i] = q[i]
      BY <1>1
    <3> QED
      BY <3>2, <3>3
  <2>2. CASE ~(o < next)
    <3>1. b.base <= o /\ o < End(b)
      BY <1>4, <2>2
    <3>2. n + 1 \in 1..(n + 1)
      BY <1>1
    <3> QED
      BY <1>1, <3>1, <3>2
  <2> QED
    BY <2>1, <2>2
<1>13. AtBatch([base |-> b.base, pos |-> b.pos], r)
  <2>1. n + 1 \in 1..Len(r)
    BY <1>1
  <2> QED
    BY <1>1, <2>1 DEF AtBatch
<1>14. ASSUME NEW e, AtBatch(e, q) PROVE AtBatch(e, r)
  <2>1. PICK i \in 1..n : e.base = q[i].base /\ e.pos = q[i].pos
    BY <1>14 DEF AtBatch, n
  <2>2. i \in 1..Len(r) /\ r[i] = q[i]
    BY <1>1
  <2> QED
    BY <2>1, <2>2 DEF AtBatch
<1>15. Reaches(r, base, End(b))
  <2>1. base <= End(b)
    BY <1>4, <1>8
  <2> QED
    BY <1>1, <2>1 DEF Reaches
<1> QED
  BY <1>1, <1>10, <1>11, <1>12, <1>13, <1>14, <1>15 DEF Ordered, Covers

LEMMA AppendedKeeps ==
  ASSUME NEW s, SegOK(s), NEW count \in 1..MaxCount, NEW n \in 1..MaxSize
  PROVE  /\ SegOK(Appended(s, s.next, count, n))
         /\ Appended(s, s.next, count, n).base = s.base
         /\ Appended(s, s.next, count, n).next = s.next + count
<1> DEFINE b == [base |-> s.next, count |-> count, pos |-> s.size, size |-> n]
           e == [base |-> s.next, pos |-> s.size]
           t == Appended(s, s.next, count, n)
           q == Append(s.batches, b)
<1>s. s \in Segment /\ BatchesOK(s) /\ EntriesOK(s)
  BY DEF SegOK
<1>f. /\ s.base \in Nat /\ s.size \in Nat /\ s.next \in Nat
      /\ s.batches \in Seq(Batch) /\ s.index \in Seq(Entry) /\ Len(s.index) \in Nat
      /\ s.since \in Nat /\ s.unsynced \in Nat /\ s.dirty \in Nat
  BY <1>s, SegmentFields
<1>n. n \in Nat /\ count \in Nat
  BY LogAssumption
<1>1. b \in Batch /\ e \in Entry
  BY <1>f DEF Batch, Entry
<1>2. /\ b.base = s.next /\ b.pos = s.size /\ b.size = n /\ End(b) = s.next + count
      /\ e = [base |-> b.base, pos |-> b.pos]
  BY DEF End
<1>3. q \in Seq(Batch) /\ Append(s.index, e) \in Seq(Entry)
  BY <1>f, <1>1, AppendFacts
<1>4. s.size + n \in Nat /\ s.next + count \in Nat /\ s.unsynced + 1 \in Nat
      /\ s.since + n \in Nat
  <2>1. \A x, y \in Nat : x + y \in Nat
    OBVIOUS
  <2> QED
    BY <1>f, <1>n, <2>1
<1>5. \E index \in {s.index, Append(s.index, e)}, since \in Nat :
        t = [s EXCEPT !.batches = q, !.index = index, !.since = since,
                      !.size = s.size + n, !.next = s.next + count,
                      !.unsynced = s.unsynced + 1]
  <2>1. CASE Indexed(s)
    BY <1>n, <2>1 DEF Appended, EntryPos
  <2>2. CASE ~Indexed(s)
    BY <1>4, <2>2 DEF Appended, EntryPos
  <2> QED
    BY <2>1, <2>2
<1>6. PICK index \in {s.index, Append(s.index, e)}, since \in Nat :
        t = [s EXCEPT !.batches = q, !.index = index, !.since = since,
                      !.size = s.size + n, !.next = s.next + count,
                      !.unsynced = s.unsynced + 1]
  BY <1>5
<1>7. /\ Ordered(q, s.base, s.next + count, s.size + n)
      /\ Reaches(q, s.base, s.next + count)
      /\ Covers(q, s.base, s.next + count)
      /\ AtBatch(e, q)
      /\ \A x : AtBatch(x, s.batches) => AtBatch(x, q)
  <2> HIDE DEF b, e, q
  <2>1. q = Append(s.batches, b)
    BY DEF q
  <2> QED
    <3> DEFINE o == s.batches
               base == s.base
               next == s.next
               size == s.size
    <3>1. /\ o \in Seq(Batch) /\ base \in Nat /\ next \in Nat /\ size \in Nat
          /\ Ordered(o, base, next, size) /\ Reaches(o, base, next)
          /\ Covers(o, base, next) /\ b.base = next /\ b.pos = size
          /\ q = Append(o, b)
      BY <1>s, <1>f, <1>2, <2>1 DEF BatchesOK
    <3> HIDE DEF o, base, next, size
    <3>2. /\ Ordered(q, base, End(b), size + b.size) /\ Reaches(q, base, End(b))
          /\ Covers(q, base, End(b)) /\ AtBatch([base |-> b.base, pos |-> b.pos], q)
          /\ \A x : AtBatch(x, o) => AtBatch(x, q)
      BY <1>1, <3>1, BatchAppended
    <3> QED
      BY <1>2, <3>2 DEF o, base, next, size
<1> HIDE DEF t, b, e, q
<1>8. index \in Seq(Entry)
  BY <1>f, <1>3
<1>9. t \in Segment
  BY <1>s, <1>3, <1>4, <1>6, <1>8 DEF Segment
<1>10. /\ t.base = s.base /\ t.batches = q /\ t.index = index
       /\ t.size = s.size + n /\ t.next = s.next + count
       /\ t.file = s.file /\ t.dirty = s.dirty /\ t.at = s.at
  BY <1>s, <1>6 DEF Segment
<1>11. BatchesOK(t)
  BY <1>7, <1>10 DEF BatchesOK
<1>12. EntriesOK(t)
  <2>1. /\ \A i \in 1..Len(s.index) : AtBatch(s.index[i], s.batches)
        /\ \A i \in 1..Len(s.file) : AtBatch(s.file[i], s.batches)
        /\ s.dirty <= Len(s.index) /\ s.at <= Len(s.file)
    BY <1>s DEF EntriesOK, IsOf
  <2>2. (\A i \in 1..Len(index) : AtBatch(index[i], q)) /\ s.dirty <= Len(index)
    <3>1. CASE index = s.index
      BY <1>7, <2>1, <3>1
    <3>2. CASE index = Append(s.index, e)
      <4>1. /\ Len(index) = Len(s.index) + 1 /\ index[Len(s.index) + 1] = e
            /\ \A i \in 1..Len(s.index) : index[i] = s.index[i]
        BY <1>f, <1>1, <3>2, AppendFacts
      <4>2. ASSUME NEW i \in 1..Len(index) PROVE AtBatch(index[i], q)
        <5>1. i \in 1..Len(s.index) \/ i = Len(s.index) + 1
          BY <1>f, <4>1
        <5> QED
          BY <1>7, <2>1, <4>1, <5>1
      <4>3. s.dirty <= Len(index)
        BY <1>f, <2>1, <4>1
      <4> QED
        BY <4>2, <4>3
    <3> QED
      BY <3>1, <3>2
  <2>3. \A i \in 1..Len(s.file) : AtBatch(s.file[i], q)
    BY <1>7, <2>1
  <2> QED
    BY <1>10, <2>1, <2>2, <2>3 DEF EntriesOK, IsOf
<1> QED
  BY <1>9, <1>10, <1>11, <1>12 DEF SegOK, t

LEMMA WrittenKeeps ==
  ASSUME NEW s, SegOK(s), NEW count \in 1..MaxCount, NEW n \in 1..MaxSize
  PROVE  /\ SegOK(Written(s, s.next, count, n))
         /\ Written(s, s.next, count, n).base = s.base
         /\ Written(s, s.next, count, n).next = s.next + count
<1> DEFINE t == Appended(s, s.next, count, n)
           u == [Synced(t) EXCEPT !.unsynced = 0]
<1>1. SegOK(t) /\ t.base = s.base /\ t.next = s.next + count
  BY AppendedKeeps
<1>2. Written(s, s.next, count, n) \in {t, u}
  BY DEF Written
<1> HIDE DEF t
<1>3. SegOK(Synced(t)) /\ Synced(t).base = t.base /\ Synced(t).next = t.next
  BY <1>1, SyncedKeeps
<1> DEFINE v == Synced(t)
<1>4. u = [v EXCEPT !.unsynced = 0] /\ v \in Segment
  BY <1>3 DEF SegOK
<1> HIDE DEF u, v
<1>5. /\ u \in Segment /\ u.base = v.base /\ u.batches = v.batches /\ u.next = v.next
      /\ u.size = v.size /\ u.index = v.index /\ u.file = v.file /\ u.dirty = v.dirty
      /\ u.at = v.at
  BY <1>4 DEF Segment
<1>6. SegOK(u) /\ u.base = t.base /\ u.next = t.next
  <2>1. SegOK(v) /\ v.base = t.base /\ v.next = t.next
    BY <1>3 DEF v
  <2> QED
    BY <1>5, <2>1 DEF SegOK, BatchesOK, EntriesOK, IsOf
<1> QED
  BY <1>1, <1>2, <1>6

(* Whatever entry the scan starts from, recover finds the end of the log. *)
LEMMA RecoveredIsNext ==
  ASSUME NEW s, SegOK(s)
  PROVE  Recovered(s) = s.next
<1> DEFINE q == s.batches
           n == Len(q)
           start == IF s.index = <<>> THEN 0 ELSE s.index[Len(s.index)].pos
           scanned == {q[i] : i \in {j \in 1..n : q[j].pos >= start}}
           ends == {s.base} \cup {End(b) : b \in scanned}
<1>f. /\ n \in Nat /\ s.base \in Nat /\ s.next \in Nat /\ q \in Seq(Batch)
      /\ \A i \in 1..n : q[i].pos \in Nat /\ q[i].size \in Nat /\ End(q[i]) \in Nat
  <2>1. /\ n \in Nat /\ s.base \in Nat /\ s.next \in Nat /\ q \in Seq(Batch)
        /\ \A i \in 1..n : /\ q[i].pos \in Nat /\ q[i].size \in 1..MaxSize
                            /\ End(q[i]) \in Nat
    BY SegmentFields DEF SegOK
  <2> QED
    BY <2>1, LogAssumption
<1>o. /\ \A i \in 1..n : End(q[i]) <= s.next
      /\ \A i, j \in 1..n : i < j => q[i].pos + q[i].size <= q[j].pos
      /\ s.base <= s.next
      /\ q = <<>> => s.next = s.base
      /\ q # <<>> => s.next = End(q[n])
  BY DEF SegOK, BatchesOK, Ordered, Reaches
<1>1. Recovered(s) = CHOOSE m \in ends : \A b \in scanned : End(b) <= m
  BY DEF Recovered
<1>2. q # <<>> => \E b \in scanned : End(b) = s.next
  <2>2. ASSUME q # <<>> PROVE \E b \in scanned : End(b) = s.next
    <3>1. n \in 1..n
      BY <1>f, <2>2, NonEmpty
    <3>2. q[n].pos >= start
      <4>1. CASE s.index = <<>>
        BY <1>f, <3>1, <4>1
      <4>2. CASE s.index # <<>>
        <5>1. s.index \in Seq(Entry)
          BY SegmentFields DEF SegOK
        <5>2. Len(s.index) \in 1..Len(s.index)
          BY <4>2, <5>1, NonEmpty
        <5>3. PICK i \in 1..n : s.index[Len(s.index)].pos = q[i].pos
          BY <5>2 DEF SegOK, EntriesOK, IsOf, AtBatch
        <5>4. q[i].pos <= q[n].pos
          <6>1. CASE i = n
            BY <1>f, <3>1, <6>1
          <6>2. CASE i # n
            <7>1. i < n /\ q[i].pos + q[i].size <= q[n].pos
              BY SMTT(20), <1>f, <1>o, <3>1, <6>2
            <7>2. q[i].pos \in Nat /\ q[i].size \in Nat /\ q[n].pos \in Nat
              BY <1>f, <3>1
            <7> QED
              BY <7>1, <7>2
          <6> QED
            BY <6>1, <6>2
        <5> QED
          BY <1>f, <3>1, <4>2, <5>3, <5>4
      <4> QED
        BY <4>1, <4>2
    <3>3. q[n] \in scanned
      BY <3>1, <3>2
    <3> QED
      BY <1>o, <2>2, <3>3
  <2> QED
    BY <2>2
<1>3. \A b \in scanned : End(b) <= s.next
  BY <1>o
<1>4. ASSUME NEW m \in ends, \A b \in scanned : End(b) <= m
      PROVE  m = s.next
  <2>1. CASE q = <<>>
    <3>1. n = 0
      BY <1>f, <2>1, NonEmpty
    <3>2. scanned = {}
      BY <3>1
    <3> QED
      BY <1>o, <2>1, <3>2
  <2>2. CASE q # <<>>
    <3>1. s.next <= m
      BY <1>2, <1>4, <2>2
    <3>2. m <= s.next /\ m \in Nat
      BY <1>f, <1>o, <1>3
    <3> QED
      BY <1>f, <3>1, <3>2
  <2> QED
    BY <2>1, <2>2
<1>5. s.next \in ends
  BY <1>2, <1>o
<1> QED
  BY <1>1, <1>3, <1>4, <1>5

(* A segment opened by a new process. *)
LEMMA ReopenedKeeps ==
  ASSUME NEW s, SegOK(s)
  PROVE  /\ SegOK(Reopened(s))
         /\ Reopened(s).base = s.base /\ Reopened(s).next = s.next
<1> DEFINE d == Len(s.file)
           t == [s EXCEPT !.index = s.file, !.dirty = d, !.at = 0,
                          !.since = 0, !.unsynced = 0]
           m == Recovered(t)
<1>1. s \in Segment /\ s.file \in Seq(Entry) /\ d \in Nat
  BY SegmentFields DEF SegOK
<1>2. Reopened(s) = [t EXCEPT !.next = m]
  BY DEF Reopened
<1> HIDE DEF d
<1>3. /\ t \in Segment
      /\ t.base = s.base /\ t.batches = s.batches /\ t.size = s.size /\ t.next = s.next
      /\ t.index = s.file /\ t.file = s.file /\ t.dirty = d /\ t.at = 0
  BY <1>1 DEF Segment
<1> HIDE DEF t
<1>4. SegOK(t)
  <2>1. BatchesOK(t)
    BY <1>3 DEF SegOK, BatchesOK
  <2>2. EntriesOK(t)
    BY <1>1, <1>3 DEF SegOK, EntriesOK, IsOf, d
  <2> QED
    BY <1>3, <2>1, <2>2 DEF SegOK
<1>5. m = t.next
  BY <1>4, RecoveredIsNext
<1> HIDE DEF m
<1>6. Reopened(s) = t
  BY <1>2, <1>3, <1>5 DEF Segment
<1> QED
  BY <1>3, <1>4, <1>6

-----------------------------------------------------------------------------
(* The segments of a log. *)

LEMMA ChainSegment ==
  ASSUME NEW q, NEW next \in Nat, SegmentsOK(q, next), NEW k \in 1..Len(q)
  PROVE  /\ q[k].base \in Nat /\ q[k].next \in Nat /\ q[k].base <= q[k].next
         /\ q[k].next <= next /\ Len(q) \in Nat /\ Len(q) \in 1..Len(q)
<1>1. q \in Seq(Segment) /\ Len(q) > 0 /\ SegOK(q[k]) /\ SegOK(q[Len(q)])
  <2>1. Len(q) \in 1..Len(q)
    BY NonEmpty DEF SegmentsOK
  <2> QED
    BY <2>1 DEF SegmentsOK
<1>2. Len(q) \in Nat /\ Len(q) \in 1..Len(q)
  BY <1>1, NonEmpty
<1>3. \A s : SegOK(s) => s.base \in Nat /\ s.next \in Nat /\ s.base <= s.next
  BY SegmentFields DEF SegOK, BatchesOK, Reaches
<1>4. q[Len(q)].next = next /\ (k < Len(q) => q[k].next <= q[Len(q)].base)
  BY <1>2 DEF SegmentsOK, Chain
<1>5. q[k].next <= next
  <2>1. CASE k = Len(q)
    BY <1>1, <1>3, <1>4, <2>1
  <2>2. CASE k # Len(q)
    <3>1. k < Len(q)
      BY <1>2, <2>2
    <3>2. q[Len(q)].base <= next /\ q[Len(q)].base \in Nat
      BY <1>1, <1>3, <1>4
    <3>3. q[k].next <= q[Len(q)].base /\ q[k].next \in Nat
      BY <1>1, <1>3, <1>4, <3>1
    <3> QED
      BY <3>2, <3>3
  <2> QED
    BY <2>1, <2>2
<1> QED
  BY <1>1, <1>2, <1>3, <1>5

(* A segment started at the end of the log. *)
LEMMA RollKeeps ==
  ASSUME NEW q, NEW next \in Nat, SegmentsOK(q, next)
  PROVE  SegmentsOK(Append(q, NewSegment(next)), next)
<1> DEFINE s == NewSegment(next)
           r == Append(q, s)
           n == Len(q)
<1>1. SegOK(s) /\ s \in Segment /\ s.base = next /\ s.next = next
  BY NewSegmentOK DEF SegOK
<1>2. q \in Seq(Segment) /\ n \in Nat /\ n > 0
  BY NonEmpty DEF SegmentsOK
<1> HIDE DEF s
<1>3. /\ r \in Seq(Segment) /\ Len(r) = n + 1 /\ r[n + 1] = s
      /\ \A i \in 1..n : r[i] = q[i]
  BY <1>1, <1>2, AppendFacts
<1> HIDE DEF r, n
<1>4. \A i \in 1..(n + 1) : i \in 1..n \/ i = n + 1
  BY <1>2
<1>5. \A k \in 1..(n + 1) : SegOK(r[k])
  BY <1>1, <1>3, <1>4 DEF SegmentsOK, n
<1>6. r[1].base = 0
  <2>1. 1 \in 1..n
    BY <1>2
  <2> QED
    BY <1>3, <2>1 DEF SegmentsOK, Chain
<1>7. ASSUME NEW j \in 1..(n + 1), NEW k \in 1..(n + 1), j < k
      PROVE  r[j].next <= r[k].base
  <2>1. j \in 1..n /\ r[j] = q[j] /\ q[j].next <= next
    BY <1>2, <1>3, <1>7, ChainSegment DEF n
  <2>2. CASE k = n + 1
    BY <1>1, <1>3, <2>1, <2>2
  <2>3. CASE k \in 1..n
    <3>1. q[j].next <= q[k].base
      BY <1>7, <2>1, <2>3 DEF SegmentsOK, Chain, n
    <3> QED
      BY <1>3, <2>1, <2>3, <3>1
  <2> QED
    BY <1>4, <2>2, <2>3
<1>8. ASSUME NEW o \in 0..(next - 1)
      PROVE  \E k \in 1..(n + 1) : r[k].base <= o /\ o < r[k].next
  <2>1. PICK k \in 1..n : q[k].base <= o /\ o < q[k].next
    BY DEF SegmentsOK, Chain, n
  <2>2. k \in 1..(n + 1) /\ r[k] = q[k]
    BY <1>2, <1>3
  <2> QED
    BY <2>1, <2>2
<1>9. Chain(r, next)
  BY <1>1, <1>3, <1>6, <1>7, <1>8 DEF Chain
<1>10. Len(r) > 0
  BY <1>2, <1>3
<1> QED
  BY <1>3, <1>5, <1>9, <1>10 DEF SegmentsOK, r, s

(* The last segment grows. *)
LEMMA GrowKeeps ==
  ASSUME NEW q, NEW next \in Nat, SegmentsOK(q, next),
         NEW s, SegOK(s), NEW end \in Nat, next <= end,
         s.base = q[Len(q)].base, s.next = end
  PROVE  SegmentsOK([q EXCEPT ![Len(q)] = s], end)
<1> DEFINE n == Len(q)
           r == [q EXCEPT ![n] = s]
<1>1. q \in Seq(Segment) /\ n \in Nat /\ n > 0 /\ s \in Segment
  BY NonEmpty DEF SegmentsOK, SegOK
<1>2. /\ r \in Seq(Segment) /\ Len(r) = n /\ r[n] = s
      /\ \A i \in 1..n : i # n => r[i] = q[i]
  BY <1>1
<1> HIDE DEF r, n
<1>3. n \in 1..n /\ 1 \in 1..n
  BY <1>1
<1>4. \A i \in 1..n : r[i].base = q[i].base /\ SegOK(r[i])
  BY <1>2 DEF SegmentsOK, n
<1>5. r[1].base = 0 /\ r[n].next = end
  BY <1>2, <1>3, <1>4 DEF SegmentsOK, Chain
<1>6. ASSUME NEW j \in 1..n, NEW k \in 1..n, j < k
      PROVE  r[j].next <= r[k].base
  <2>1. j # n /\ q[j].next <= q[k].base
    BY <1>1, <1>6 DEF SegmentsOK, Chain, n
  <2> QED
    BY <1>2, <1>4, <2>1
<1>7. ASSUME NEW o \in 0..(end - 1)
      PROVE  \E k \in 1..n : r[k].base <= o /\ o < r[k].next
  <2>1. q[n].base \in Nat /\ q[n].base <= next
    <3>1. q[n].base \in Nat /\ q[n].next \in Nat /\ q[n].base <= q[n].next /\ q[n].next <= next
      BY <1>3, ChainSegment DEF n
    <3> QED
      BY <3>1
  <2>2. CASE q[n].base <= o
    <3>1. r[n].base <= o /\ o < r[n].next
      BY <1>3, <1>4, <1>5, <2>2
    <3> QED
      BY <1>3, <3>1
  <2>3. CASE ~(q[n].base <= o)
    <3>1. o < q[n].base /\ o \in 0..(next - 1)
      BY <2>1, <2>3
    <3>2. PICK k \in 1..n : q[k].base <= o /\ o < q[k].next
      BY <3>1 DEF SegmentsOK, Chain, n
    <3>3. k # n
      BY <2>3, <3>2
    <3>4. r[k] = q[k]
      BY <1>2, <3>3
    <3> QED
      BY <3>2, <3>4
  <2> QED
    BY <2>2, <2>3
<1>8. Chain(r, end)
  BY <1>2, <1>5, <1>6, <1>7 DEF Chain
<1> QED
  BY <1>1, <1>2, <1>4, <1>8 DEF SegmentsOK, r, n

(* Every segment keeps the offsets it holds. *)
LEMMA SameKeeps ==
  ASSUME NEW q, NEW next \in Nat, SegmentsOK(q, next),
         NEW r \in Seq(Segment), Len(r) = Len(q),
         \A k \in 1..Len(q) :
           SegOK(r[k]) /\ r[k].base = q[k].base /\ r[k].next = q[k].next
  PROVE  SegmentsOK(r, next)
<1>1. 1 \in 1..Len(q) /\ Len(q) \in 1..Len(q)
  BY NonEmpty DEF SegmentsOK
<1>2. Chain(r, next)
  BY <1>1 DEF SegmentsOK, Chain
<1> QED
  BY <1>2 DEF SegmentsOK

(* The search of CommitLog.Read finds the segment of an offset, and at the *)
(* end of the log the active one.                                          *)
LEMMA SegmentFound ==
  ASSUME SegmentsOK(segs, nextOffset), nextOffset \in Nat, NEW o \in 0..nextOffset
  PROVE  \E k \in 1..Len(segs) :
           /\ SegmentOf(o) = segs[k] /\ segs[k].base <= o
           /\ o < nextOffset => o < segs[k].next
<1> DEFINE IsLast(k) == /\ segs[k].base <= o
                        /\ \A j \in 1..Len(segs) : segs[j].base <= o => j <= k
<1>1. \E k \in 1..Len(segs) : IsLast(k) /\ (o < nextOffset => o < segs[k].next)
  <2>1. CASE o < nextOffset
    <3>1. o \in 0..(nextOffset - 1)
      BY <2>1
    <3>2. PICK k \in 1..Len(segs) : segs[k].base <= o /\ o < segs[k].next
      BY <3>1 DEF SegmentsOK, Chain
    <3>3. ASSUME NEW j \in 1..Len(segs), segs[j].base <= o PROVE j <= k
      <4>1. CASE k < j
        <5>1. segs[k].next <= segs[j].base
          BY <4>1 DEF SegmentsOK, Chain
        <5>2. segs[k].next \in Nat /\ segs[j].base \in Nat
          BY ChainSegment
        <5> QED
          BY <3>2, <3>3, <5>1, <5>2
      <4> QED
        BY <4>1
    <3> QED
      BY <3>2, <3>3
  <2>2. CASE ~(o < nextOffset)
    <3> DEFINE n == Len(segs)
    <3>1. n \in 1..n /\ n \in Nat
      BY NonEmpty DEF SegmentsOK
    <3>2. segs[n].base \in Nat /\ segs[n].next \in Nat
          /\ segs[n].base <= segs[n].next /\ segs[n].next <= nextOffset
      BY <3>1, ChainSegment
    <3>3. segs[n].base <= o
      BY <2>2, <3>2
    <3> QED
      BY <2>2, <3>1, <3>3
  <2> QED
    BY <2>1, <2>2
<1>2. PICK k \in 1..Len(segs) : IsLast(k) /\ (o < nextOffset => o < segs[k].next)
  BY <1>1
<1>3. ASSUME NEW m \in 1..Len(segs), IsLast(m) PROVE m = k
  BY <1>2, <1>3
<1>4. SegmentOf(o) = segs[CHOOSE m \in 1..Len(segs) : IsLast(m)]
  BY DEF SegmentOf
<1> HIDE DEF IsLast
<1>5. (CHOOSE m \in 1..Len(segs) : IsLast(m)) = k
  BY <1>2, <1>3
<1>6. segs[k].base <= o
  BY <1>2 DEF IsLast
<1> QED
  BY <1>2, <1>4, <1>5, <1>6

-----------------------------------------------------------------------------
(* Reads. *)

(* Whatever order the entries of an index are in, a read starts at or before *)
(* the batch that holds the target.                                          *)
LEMMA LookupBelow ==
  ASSUME NEW s, SegOK(s), NEW o \in Nat, NEW p \in Lookup(s, o)
  PROVE  /\ p \in Nat
         /\ \A i \in 1..Len(s.batches) : s.batches[i].pos < p => End(s.batches[i]) <= o
<1> DEFINE q == s.batches
           n == Len(q)
<1>1. n \in Nat /\ \A i \in 1..n : /\ q[i].pos \in Nat /\ q[i].size \in Nat
                                 /\ q[i].base \in Nat /\ End(q[i]) \in Nat
  <2>1. n \in Nat /\ \A i \in 1..n : /\ q[i].pos \in Nat /\ q[i].size \in 1..MaxSize
                                   /\ q[i].base \in Nat /\ End(q[i]) \in Nat
    BY SegmentFields DEF SegOK
  <2> QED
    BY <2>1, LogAssumption
<1>2. \A i, j \in 1..n :
        i < j => End(q[i]) <= q[j].base /\ q[i].pos + q[i].size <= q[j].pos
  BY DEF SegOK, BatchesOK, Ordered
<1>3. PICK m \in 0..Len(s.index) :
        IsFloor(s, m, o) /\ p = IF m = 0 THEN 0 ELSE s.index[m].pos
  BY DEF Lookup
<1>4. CASE m = 0
  <2>1. p = 0
    BY <1>3, <1>4
  <2> QED
    BY <1>1, <2>1
<1>5. CASE m # 0
  <2>1. m \in 1..Len(s.index) /\ s.index[m].base <= o /\ p = s.index[m].pos
    <3>1. Len(s.index) \in Nat
      BY SegmentFields DEF SegOK
    <3> QED
      BY <1>3, <1>5, <3>1 DEF IsFloor
  <2>2. PICK j \in 1..n : s.index[m].base = q[j].base /\ s.index[m].pos = q[j].pos
    BY <2>1 DEF SegOK, EntriesOK, IsOf, AtBatch
  <2>3. p = q[j].pos /\ q[j].base <= o /\ p \in Nat
    BY <1>1, <2>1, <2>2
  <2>4. ASSUME NEW i \in 1..n, q[i].pos < p
        PROVE  End(q[i]) <= o
    <3>1. i # j
      BY <1>1, <2>3, <2>4
    <3>2. ~(j < i)
      <4> SUFFICES ASSUME j < i PROVE FALSE
        OBVIOUS
      <4>1. q[j].pos + q[j].size <= q[i].pos
        BY <1>2
      <4>2. q[j].pos \in Nat /\ q[j].size \in Nat /\ q[i].pos \in Nat
        BY <1>1
      <4> QED
        BY SMTT(20), <2>3, <2>4, <4>1, <4>2
    <3>3. i < j
      BY <3>1, <3>2
    <3>4. End(q[i]) <= q[j].base
      BY <1>2, <3>3
    <3>5. End(q[i]) \in Nat /\ q[j].base \in Nat
      BY <1>1
    <3> QED
      BY <2>3, <3>4, <3>5
  <2> QED
    BY <2>3, <2>4
<1> QED
  BY <1>4, <1>5

(* The records a read returns follow one another from the target on. *)
LEMMA WindowIsContiguous ==
  ASSUME NEW s, SegOK(s), NEW o \in Nat, s.base <= o, NEW p \in Nat,
         \A i \in 1..Len(s.batches) : s.batches[i].pos < p => End(s.batches[i]) <= o
  PROVE  /\ \A r \in Readable(s, o, p) :
              r \in Nat /\ o <= r /\ r < s.next /\ o..r \subseteq Readable(s, o, p)
         /\ \A b \in InWindow(s, o, p) :
              End(b) \in Nat /\ End(b) > o /\ End(b) <= s.next
              /\ End(b) - 1 \in Readable(s, o, p)
         /\ \A r \in Readable(s, o, p) : \E b \in InWindow(s, o, p) : r < End(b)
<1> DEFINE q == s.batches
           n == Len(q)
           all == Readable(s, o, p)
           found == InWindow(s, o, p)
<1>1. /\ n \in Nat /\ s.next \in Nat /\ s.base \in Nat
      /\ \A i \in 1..n : /\ q[i].pos \in Nat /\ q[i].size \in Nat /\ q[i].base \in Nat
                        /\ End(q[i]) \in Nat /\ q[i].base < End(q[i])
  <2>1. /\ n \in Nat /\ s.next \in Nat /\ s.base \in Nat
        /\ \A i \in 1..n : /\ q[i].pos \in Nat /\ q[i].size \in 1..MaxSize
                          /\ q[i].base \in Nat /\ q[i].count \in 1..MaxCount
                          /\ End(q[i]) \in Nat /\ q[i] \in Batch
    BY SegmentFields DEF SegOK
  <2>2. \A x \in Batch : x.size \in Nat /\ x.base < End(x)
    BY LogAssumption DEF Batch, End
  <2> QED
    BY <2>1, <2>2
<1>2. /\ \A i \in 1..n : End(q[i]) <= s.next
      /\ \A i, j \in 1..n :
           i < j => End(q[i]) <= q[j].base /\ q[i].pos + q[i].size <= q[j].pos
  BY DEF SegOK, BatchesOK, Ordered
<1>3. \A x \in s.base..(s.next - 1) : \E i \in 1..n : q[i].base <= x /\ x < End(q[i])
  BY DEF SegOK, BatchesOK, Covers
<1>4. \A b : b \in found <=>
        \E i \in 1..n : b = q[i] /\ Fits(s, b, p) /\ End(b) > o
  BY DEF InWindow
<1>5. \A r : r \in all <=>
        /\ r >= o
        /\ \E b \in found : r \in b.base..(End(b) - 1)
  <2> DEFINE of(b) == b.base..(End(b) - 1)
             sets == {of(b) : b \in found}
  <2>1. all = {x \in UNION sets : x >= o}
    BY DEF Readable
  <2>2. \A r : (\E u \in sets : r \in u) <=> \E b \in found : r \in of(b)
    OBVIOUS
  <2> HIDE DEF of, sets, all, found
  <2>3. \A r : r \in UNION sets <=> \E u \in sets : r \in u
    OBVIOUS
  <2>4. \A r : r \in all <=> r \in UNION sets /\ r >= o
    BY <2>1
  <2>5. \A r : r \in all <=> r >= o /\ \E b \in found : r \in of(b)
    BY <2>2, <2>3, <2>4
  <2> QED
    BY <2>5 DEF of
<1>6. ASSUME NEW r \in all
      PROVE  /\ r \in Nat /\ o <= r /\ r < s.next
             /\ \E i \in 1..n : /\ q[i] \in found /\ Fits(s, q[i], p)
                               /\ q[i].base <= r /\ r < End(q[i])
  <2>1. PICK b \in found : r \in b.base..(End(b) - 1) /\ r >= o
    BY <1>5
  <2>2. PICK i \in 1..n : b = q[i] /\ Fits(s, b, p) /\ End(b) > o
    BY <1>4
  <2>3. /\ End(q[i]) \in Nat /\ q[i].base \in Nat /\ End(q[i]) <= s.next
        /\ r \in q[i].base..(End(q[i]) - 1)
    BY <1>1, <1>2, <2>1, <2>2
  <2>4. r \in Nat /\ q[i].base <= r /\ r < End(q[i]) /\ r < s.next
    BY <1>1, <2>3
  <2>5. o <= r
    BY <2>1, <2>4
  <2> QED
    BY <2>2, <2>4, <2>5
<1> HIDE DEF q, n, all, found
<1>7. ASSUME NEW r \in all, NEW x \in o..r
      PROVE  x \in all
  <2>1. PICK j \in 1..n : /\ q[j] \in found /\ Fits(s, q[j], p)
                          /\ q[j].base <= r /\ r < End(q[j])
    BY <1>6
  <2>2. x \in Nat /\ o <= x /\ x <= r /\ r \in Nat /\ x \in s.base..(s.next - 1)
    BY <1>1, <1>6
  <2>3. PICK i \in 1..n : q[i].base <= x /\ x < End(q[i])
    BY <1>3, <2>2
  <2>4. End(q[i]) > o /\ ~(End(q[i]) <= o)
    BY <1>1, <2>2, <2>3
  <2>5. q[i].pos >= p
    BY <1>1, <2>4 DEF q, n
  <2>6. Fits(s, q[i], p)
    <3>1. CASE i = j
      BY <2>1, <3>1
    <3>2. CASE i # j
      <4>1. ~(j < i)
        <5> SUFFICES ASSUME j < i PROVE FALSE
          OBVIOUS
        <5>1. End(q[j]) <= q[i].base
          BY <1>2
        <5>2. End(q[j]) \in Nat /\ q[i].base \in Nat
          BY <1>1
        <5> QED
          BY <2>1, <2>2, <2>3, <5>1, <5>2
      <4>2. i < j
        BY <3>2, <4>1
      <4>3. q[i].pos + q[i].size <= q[j].pos
        BY <1>2, <4>2
      <4>4. /\ q[i].pos \in Nat /\ q[i].size \in Nat
            /\ q[j].pos \in Nat /\ q[j].size \in Nat
        BY <1>1
      <4>5. q[j].pos + q[j].size <= p + Window
        BY <2>1 DEF Fits
      <4>6. Window \in Nat
        BY LogAssumption
      <4> DEFINE a == q[i].pos
                 b == q[i].size
                 c == q[j].pos
                 d == q[j].size
      <4>7. a + b <= c /\ c + d <= p + Window /\ a \in Nat /\ b \in Nat /\ c \in Nat /\ d \in Nat
        BY <4>3, <4>4, <4>5
      <4> HIDE DEF a, b, c, d
      <4>8. a + b <= p + Window
        BY <4>6, <4>7
      <4> QED
        BY <2>5, <4>8 DEF Fits, a, b
    <3> QED
      BY <3>1, <3>2
  <2>7. q[i] \in found
    BY <1>4, <2>4, <2>6
  <2>8. x \in q[i].base..(End(q[i]) - 1) /\ x >= o
    BY <1>1, <2>2, <2>3
  <2> QED
    BY <1>5, <2>7, <2>8
<1>8. ASSUME NEW b \in found
      PROVE  End(b) \in Nat /\ End(b) > o /\ End(b) <= s.next /\ End(b) - 1 \in all
  <2>1. PICK i \in 1..n : b = q[i] /\ End(b) > o
    BY <1>4
  <2>2. /\ End(b) \in Nat /\ b.base \in Nat /\ b.base < End(b) /\ End(b) <= s.next
    BY <1>1, <1>2, <2>1
  <2>3. End(b) - 1 \in b.base..(End(b) - 1) /\ End(b) - 1 >= o
    BY <2>1, <2>2
  <2> QED
    BY <1>5, <2>1, <2>2, <2>3
<1>9. ASSUME NEW r \in all PROVE \E b \in found : r < End(b)
  BY <1>6
<1>10. \A r \in all : r \in Nat /\ o <= r /\ r < s.next
  BY <1>6
<1>11. \A r \in all : o..r \subseteq all
  BY <1>7
<1> QED
  BY <1>8, <1>9, <1>10, <1>11 DEF all, found

(* What a poll returns is what it moves past, and it stays within the log. *)
LEMMA PollResult ==
  ASSUME TypeOK, SegmentsOK(segs, nextOffset), ConsumerOK, Poll
  PROVE  /\ offset' \in Nat /\ offset < offset' /\ offset' <= nextOffset
         /\ polled' = offset..(offset' - 1)
<1> DEFINE s == SegmentOf(offset)
<1>1. nextOffset \in Nat /\ offset \in Nat /\ offset \in 0..nextOffset
  BY LogAssumption DEF TypeOK, ConsumerOK
<1>2. PICK k \in 1..Len(segs) : s = segs[k] /\ segs[k].base <= offset
  BY <1>1, SegmentFound
<1>3. SegOK(s) /\ s.base <= offset
  BY <1>2 DEF SegmentsOK
<1>4. s.next \in Nat /\ s.next <= nextOffset
  BY <1>1, <1>2, ChainSegment
<1>5. PICK p \in Lookup(s, offset) :
        LET found == InWindow(s, offset, p)
            all == Readable(s, offset, p)
            upTo(r) == {x \in all : x <= r}
        IN /\ found # {}
           /\ \E r \in all :
                /\ polled' = upTo(r)
                /\ \/ /\ Cardinality(upTo(r)) = MaxRecords
                      /\ offset' = StopAt(found, r)
                   \/ /\ upTo(r) = all /\ Cardinality(all) < MaxRecords
                      /\ offset' \in {End(b) : b \in found}
                      /\ \A b \in found : End(b) <= offset'
  BY DEF Poll
<1> HIDE DEF s
<1> DEFINE found == InWindow(s, offset, p)
           all == Readable(s, offset, p)
<1>6. PICK r \in all :
        /\ polled' = {x \in all : x <= r}
        /\ \/ offset' = r + 1
           \/ /\ {x \in all : x <= r} = all
              /\ offset' \in {End(b) : b \in found}
              /\ \A b \in found : End(b) <= offset'
  BY <1>5 DEF StopAt
<1>7. /\ \A y \in all : y \in Nat /\ offset <= y /\ y < s.next /\ offset..y \subseteq all
      /\ \A b \in found : End(b) \in Nat /\ End(b) > offset /\ End(b) <= s.next
                        /\ End(b) - 1 \in all
      /\ \A y \in all : \E b \in found : y < End(b)
  <2>1. /\ p \in Nat
        /\ \A i \in 1..Len(s.batches) : s.batches[i].pos < p => End(s.batches[i]) <= offset
    BY <1>1, <1>3, LookupBelow
  <2> QED
    BY <1>1, <1>3, <2>1, WindowIsContiguous
<1> HIDE DEF all, found
<1>8. CASE offset' = r + 1
  <2>1. r \in Nat /\ offset <= r /\ r < s.next /\ offset..r \subseteq all
    BY <1>7
  <2>2. {x \in all : x <= r} = offset..r
    <3>1. \A x \in all : x \in Nat /\ offset <= x
      BY <1>7
    <3>2. \A x \in all : x <= r => x \in offset..r
      BY <1>1, <2>1, <3>1
    <3>3. \A x \in offset..r : x \in all /\ x <= r
      BY <1>1, <2>1
    <3> QED
      BY <3>2, <3>3
  <2>3. offset' \in Nat /\ offset < offset' /\ offset' <= nextOffset /\ offset' - 1 = r
    BY <1>1, <1>4, <1>8, <2>1
  <2> QED
    BY <1>6, <2>2, <2>3
<1>9. CASE /\ {x \in all : x <= r} = all
           /\ offset' \in {End(b) : b \in found}
           /\ \A b \in found : End(b) <= offset'
  <2>1. PICK b \in found : offset' = End(b)
    BY <1>9
  <2>2. offset' \in Nat /\ offset' > offset /\ offset' <= s.next /\ offset' - 1 \in all
    BY <1>7, <2>1
  <2>3. offset..(offset' - 1) \subseteq all
    BY <1>7, <2>2
  <2>4. ASSUME NEW x \in all PROVE x \in offset..(offset' - 1)
    <3>1. PICK c \in found : x < End(c)
      BY <1>7
    <3>2. End(c) <= offset' /\ End(c) \in Nat /\ x \in Nat /\ offset <= x
      BY <1>7, <1>9
    <3> DEFINE e == End(c)
               n == offset'
    <3>3. /\ x < e /\ e <= n /\ e \in Nat /\ x \in Nat /\ offset <= x /\ n \in Nat
          /\ offset \in Nat
      BY <1>1, <2>2, <3>1, <3>2
    <3> HIDE DEF e, n
    <3>4. x \in offset..(n - 1)
      BY <3>3
    <3> QED
      BY <3>4 DEF n
  <2>5. polled' = all
    BY <1>6, <1>9
  <2>6. offset' <= nextOffset
    BY <1>1, <1>4, <2>2
  <2> QED
    BY <1>1, <2>2, <2>3, <2>4, <2>5, <2>6
<1> QED
  BY <1>6, <1>8, <1>9

-----------------------------------------------------------------------------
(* The invariant. *)

LEMMA InitEstablishes == Init => IInv
<1> SUFFICES ASSUME Init PROVE IInv
  OBVIOUS
<1> DEFINE s == NewSegment(0)
           q == <<s>>
<1>1. SegOK(s) /\ s \in Segment /\ s.base = 0 /\ s.next = 0
  BY NewSegmentOK DEF SegOK
<1>2. segs = q /\ nextOffset = 0 /\ offset = 0 /\ polled = {} /\ saved = 0 /\ restarts = 0
  BY DEF Init
<1> HIDE DEF s
<1>3. q \in Seq(Segment) /\ Len(q) = 1 /\ q[1] = s
  BY <1>1
<1> HIDE DEF q
<1>4. SegmentsOK(q, 0)
  BY <1>1, <1>3 DEF SegmentsOK, Chain
<1> QED
  BY <1>2, <1>3, <1>4, LogAssumption DEF IInv, TypeOK, ConsumerOK

LEMMA WriteKeeps ==
  ASSUME IInv, NEW count \in 1..MaxCount, NEW n \in 1..MaxSize, NEW old \in BOOLEAN,
         Write(count, n, old)
  PROVE  IInv'
<1> DEFINE to == Rolled(old)
           s == to[Len(to)]
           w == Written(s, s.next, count, n)
<1>1. nextOffset \in Nat /\ SegmentsOK(segs, nextOffset) /\ count \in Nat /\ count > 0
  BY LogAssumption DEF IInv, TypeOK
<1>2. SegmentsOK(to, nextOffset)
  <2>1. SegmentsOK(Append(segs, NewSegment(nextOffset)), nextOffset)
    BY <1>1, RollKeeps
  <2> QED
    BY <1>1, <2>1 DEF Rolled
<1>3. /\ segs' = [to EXCEPT ![Len(to)] = Written(s, nextOffset, count, n)]
      /\ nextOffset' = nextOffset + count /\ nextOffset + count <= MaxOffset
      /\ UNCHANGED <<offset, polled, saved, restarts>>
  BY DEF Write
<1> HIDE DEF to
<1>4. Len(to) \in 1..Len(to) /\ SegOK(s) /\ s.next = nextOffset
  <2>1. Len(to) \in 1..Len(to)
    BY <1>2, NonEmpty DEF SegmentsOK
  <2> QED
    BY <1>2, <2>1 DEF SegmentsOK, Chain
<1>5. SegOK(w) /\ w.base = s.base /\ w.next = nextOffset + count
  <2> HIDE DEF s
  <2> QED
    BY <1>4, WrittenKeeps
<1>6. segs' = [to EXCEPT ![Len(to)] = w]
  BY <1>3, <1>4
<1> HIDE DEF w
<1>7. SegmentsOK(segs', nextOffset')
  <2> DEFINE e == nextOffset + count
  <2>1. e \in Nat /\ nextOffset <= e
    BY <1>1
  <2> HIDE DEF e
  <2>2. SegmentsOK([to EXCEPT ![Len(to)] = w], e)
    BY <1>1, <1>2, <1>5, <2>1, GrowKeeps DEF e
  <2> QED
    BY <1>3, <1>6, <2>2 DEF e
<1>8. nextOffset' \in 0..MaxOffset /\ nextOffset <= nextOffset'
  BY <1>1, <1>3, LogAssumption
<1>9. TypeOK'
  BY <1>3, <1>7, <1>8 DEF IInv, TypeOK, SegmentsOK
<1>10. ConsumerOK'
  BY <1>1, <1>3, <1>8 DEF IInv, TypeOK, ConsumerOK
<1> QED
  BY <1>7, <1>9, <1>10 DEF IInv

LEMMA RestartKeeps ==
  ASSUME IInv, NEW clean \in BOOLEAN, Restart(clean)
  PROVE  IInv' /\ nextOffset' = nextOffset
<1> DEFINE from(k) == IF clean THEN Synced(segs[k]) ELSE segs[k]
           r == [k \in 1..Len(segs) |-> Reopened(from(k))]
<1>1. nextOffset \in Nat /\ SegmentsOK(segs, nextOffset) /\ Len(segs) \in Nat
  BY LogAssumption, NonEmpty DEF IInv, TypeOK, SegmentsOK
<1>2. /\ segs' = r /\ nextOffset' = r[Len(segs')].next
      /\ offset' = saved /\ polled' = {} /\ saved' = saved
      /\ restarts < MaxRestarts /\ restarts' = restarts + 1
  BY DEF Restart
<1>3. ASSUME NEW k \in 1..Len(segs)
      PROVE  /\ r[k] \in Segment /\ SegOK(r[k])
             /\ r[k].base = segs[k].base /\ r[k].next = segs[k].next
  <2>1. SegOK(segs[k])
    BY <1>1 DEF SegmentsOK
  <2>2. SegOK(from(k)) /\ from(k).base = segs[k].base /\ from(k).next = segs[k].next
    BY <2>1, SyncedKeeps
  <2>3. r[k] = Reopened(from(k))
    OBVIOUS
  <2> HIDE DEF from, r
  <2>4. SegOK(r[k]) /\ r[k].base = segs[k].base /\ r[k].next = segs[k].next
    BY <2>2, <2>3, ReopenedKeeps
  <2> QED
    BY <2>4 DEF SegOK
<1>4. r \in Seq(Segment) /\ Len(r) = Len(segs)
  <2>1. r \in [1..Len(segs) -> Segment]
    BY <1>3
  <2> HIDE DEF r
  <2>2. r \in Seq(Segment)
    BY <1>1, <2>1
  <2> QED
    BY <1>1, <2>1, <2>2
<1> HIDE DEF r, from
<1>5. SegmentsOK(r, nextOffset)
  BY <1>1, <1>3, <1>4, SameKeeps
<1>6. nextOffset' = nextOffset
  BY <1>2, <1>4, <1>5 DEF SegmentsOK, Chain
<1>7. TypeOK'
  <2>1. restarts' \in 0..MaxRestarts
    BY <1>2, LogAssumption DEF IInv, TypeOK
  <2> QED
    BY <1>2, <1>5, <1>6, <2>1 DEF IInv, TypeOK, SegmentsOK
<1>8. ConsumerOK'
  <2>1. saved \in Nat /\ offset \in Nat /\ saved <= offset /\ offset <= nextOffset
    BY DEF IInv, TypeOK, ConsumerOK
  <2>2. saved <= saved /\ saved <= nextOffset
    BY <1>1, <2>1
  <2> QED
    BY <1>2, <1>6, <2>2 DEF ConsumerOK
<1> QED
  BY <1>2, <1>5, <1>6, <1>7, <1>8 DEF IInv

LEMMA Inductive == IInv /\ [Next]_vars => IInv'
<1> SUFFICES ASSUME IInv, [Next]_vars PROVE IInv'
  OBVIOUS
<1>1. ASSUME NEW count \in 1..MaxCount, NEW n \in 1..MaxSize, NEW old \in BOOLEAN,
             Write(count, n, old)
      PROVE  IInv'
  BY <1>1, WriteKeeps
<1>2. CASE Poll
  <2>1. /\ offset' \in Nat /\ offset' <= nextOffset /\ polled' = offset..(offset' - 1)
        /\ offset < offset'
    BY <1>2, PollResult DEF IInv
  <2>2. offset \in Nat /\ saved \in Nat
    BY DEF IInv, TypeOK
  <2>3. polled' \subseteq Nat
    <3>1. \A e \in Nat : offset..(e - 1) \subseteq Nat
      BY <2>2
    <3> QED
      BY <2>1, <3>1
  <2>4. UNCHANGED <<segs, nextOffset, saved, restarts>>
    BY <1>2 DEF Poll
  <2>5. saved <= offset'
    BY <2>1, <2>2 DEF IInv, ConsumerOK
  <2> QED
    BY <2>1, <2>3, <2>4, <2>5 DEF IInv, TypeOK, ConsumerOK
<1>3. CASE Commit
  BY <1>3 DEF Commit, IInv, TypeOK, ConsumerOK
<1>4. ASSUME NEW clean \in BOOLEAN, Restart(clean) PROVE IInv'
  BY <1>4, RestartKeeps
<1>5. CASE UNCHANGED vars
  BY <1>5 DEF vars, IInv, TypeOK, ConsumerOK
<1> QED
  BY <1>1, <1>2, <1>3, <1>4, <1>5 DEF Next

(* The variables of the log and of its consumer keep their types, through   *)
(* every append, poll, commit and reopening of the files.                   *)
THEOREM TypeCorrect == Spec => []TypeOK
<1>1. IInv => TypeOK
  BY DEF IInv
<1> QED
  BY InitEstablishes, Inductive, <1>1, PTL DEF Spec

LEMMA Invariance == Spec => []IInv
  BY InitEstablishes, Inductive, PTL DEF Spec

(* Whatever index a restart leaves behind, none, a part of it or entries out *)
(* of order, a read starts at or before the batch that holds its target.     *)
THEOREM LookupNeverOvershoots == Spec => []LookupIsBelow
<1>1. IInv => LookupIsBelow
  <2> SUFFICES ASSUME IInv, NEW k \in 1..Len(segs), NEW o \in segs[k].base..nextOffset,
                      NEW p \in Lookup(segs[k], o)
               PROVE  \A i \in 1..Len(segs[k].batches) :
                        segs[k].batches[i].pos < p => End(segs[k].batches[i]) <= o
    BY DEF LookupIsBelow
  <2>1. SegOK(segs[k]) /\ nextOffset \in Nat /\ segs[k].base \in Nat
    BY LogAssumption, ChainSegment DEF IInv, TypeOK, SegmentsOK
  <2>2. o \in Nat
    BY <2>1
  <2> QED
    BY <2>1, <2>2, LookupBelow
<1> QED
  BY Invariance, <1>1, PTL

(* Every offset below the end of the log has one place and no other has any: *)
(* recover gives the log its true end back, wherever its scan starts.        *)
THEOREM NoOffsetLostOrReused == Spec => []OffsetsAreDense
<1>1. IInv => OffsetsAreDense
  <2> SUFFICES ASSUME IInv, NEW o \in 0..MaxOffset
               PROVE  /\ Places(o) # {} <=> o < nextOffset
                      /\ \A x, y \in Places(o) : x = y
    BY DEF OffsetsAreDense
  <2> DEFINE q(k) == segs[k].batches
             Holds(k, i) == q(k)[i].base <= o /\ o < End(q(k)[i])
  <2>1. /\ nextOffset \in Nat /\ o \in Nat /\ SegmentsOK(segs, nextOffset)
    BY LogAssumption DEF IInv, TypeOK
  <2>2. \A x : x \in Places(o) <=>
          \E k \in 1..Len(segs) : \E i \in 1..Len(q(k)) : x = <<k, i>> /\ Holds(k, i)
    BY DEF Places
  <2>3. ASSUME NEW k \in 1..Len(segs)
        PROVE  /\ segs[k].base \in Nat /\ segs[k].next \in Nat /\ segs[k].next <= nextOffset
               /\ \A i \in 1..Len(q(k)) :
                    /\ i \in Nat
                    /\ q(k)[i].base \in Nat /\ End(q(k)[i]) \in Nat
                    /\ segs[k].base <= q(k)[i].base /\ End(q(k)[i]) <= segs[k].next
               /\ \A i, j \in 1..Len(q(k)) : i < j => End(q(k)[i]) <= q(k)[j].base
               /\ \A x \in segs[k].base..(segs[k].next - 1) :
                    \E i \in 1..Len(q(k)) : q(k)[i].base <= x /\ x < End(q(k)[i])
    <3>1. SegOK(segs[k])
      BY <2>1 DEF SegmentsOK
    <3> QED
      BY <2>1, <3>1, ChainSegment, SegmentFields
      DEF SegOK, BatchesOK, Ordered, Covers
  <2> HIDE DEF q
  <2>4. ASSUME NEW k \in 1..Len(segs), NEW i \in 1..Len(q(k)), Holds(k, i)
        PROVE  /\ segs[k].base <= o /\ o < segs[k].next /\ o < nextOffset
               /\ k \in Nat /\ i \in Nat
    BY SMTT(20), <2>1, <2>3, <2>4
  <2>5. ASSUME o < nextOffset PROVE Places(o) # {}
    <3>1. o \in 0..(nextOffset - 1)
      BY <2>1, <2>5
    <3>2. PICK k \in 1..Len(segs) : segs[k].base <= o /\ o < segs[k].next
      BY <2>1, <3>1 DEF SegmentsOK, Chain
    <3>3. o \in segs[k].base..(segs[k].next - 1)
      BY <2>1, <2>3, <3>2
    <3>4. PICK i \in 1..Len(q(k)) : Holds(k, i)
      BY <2>3, <3>3
    <3>5. <<k, i>> \in Places(o)
      BY <2>2, <3>4
    <3> QED
      BY <3>5
  <2>6. ASSUME NEW x \in Places(o), NEW y \in Places(o) PROVE x = y
    <3>1. PICK k \in 1..Len(segs) : \E i \in 1..Len(q(k)) : x = <<k, i>> /\ Holds(k, i)
      BY <2>2
    <3>2. PICK i \in 1..Len(q(k)) : x = <<k, i>> /\ Holds(k, i)
      BY <3>1
    <3>3. PICK l \in 1..Len(segs) : \E j \in 1..Len(q(l)) : y = <<l, j>> /\ Holds(l, j)
      BY <2>2
    <3>4. PICK j \in 1..Len(q(l)) : y = <<l, j>> /\ Holds(l, j)
      BY <3>3
    <3>5. \A a, b \in 1..Len(segs) : a < b => segs[a].next <= segs[b].base
      BY <2>1 DEF SegmentsOK, Chain
    <3>6. /\ segs[k].base <= o /\ o < segs[k].next /\ segs[k].next \in Nat
          /\ segs[l].base <= o /\ o < segs[l].next /\ segs[l].next \in Nat
          /\ segs[k].base \in Nat /\ segs[l].base \in Nat
          /\ k \in Nat /\ l \in Nat /\ i \in Nat /\ j \in Nat
      BY <2>3, <2>4, <3>2, <3>4
    <3>7. ~(k < l)
      BY SMTT(20), <2>1, <3>5, <3>6
    <3>8. ~(l < k)
      BY SMTT(20), <2>1, <3>5, <3>6
    <3>9. k = l
      BY <3>6, <3>7, <3>8
    <3>10. ~(i < j)
      <4> SUFFICES ASSUME i < j PROVE FALSE
        OBVIOUS
      <4>1. j \in 1..Len(q(k)) /\ Holds(k, j)
        BY <3>4, <3>9
      <4>2. End(q(k)[i]) <= q(k)[j].base /\ End(q(k)[i]) \in Nat /\ q(k)[j].base \in Nat
        BY <2>3, <4>1
      <4> QED
        BY <2>1, <3>2, <4>1, <4>2
    <3>11. ~(j < i)
      <4> SUFFICES ASSUME j < i PROVE FALSE
        OBVIOUS
      <4>1. j \in 1..Len(q(k)) /\ Holds(k, j)
        BY <3>4, <3>9
      <4>2. End(q(k)[j]) <= q(k)[i].base /\ End(q(k)[j]) \in Nat /\ q(k)[i].base \in Nat
        BY <2>3, <4>1
      <4> QED
        BY <2>1, <3>2, <4>1, <4>2
    <3> QED
      BY <3>2, <3>4, <3>6, <3>9, <3>10, <3>11
  <2>7. Places(o) # {} => o < nextOffset
    BY <2>2, <2>4
  <2> QED
    BY <2>5, <2>6, <2>7
<1> QED
  BY Invariance, <1>1, PTL

(* A poll that moves the consumer returned exactly the records it moved past. *)
THEOREM PollsReturnWhatTheyPass == Spec => PollsTakeNext
<1>1. IInv /\ [Next]_vars => [offset' > offset => polled' = offset..(offset' - 1)]_vars
  <2> SUFFICES ASSUME IInv, [Next]_vars, offset' > offset
               PROVE  polled' = offset..(offset' - 1)
    OBVIOUS
  <2>1. offset \in Nat /\ saved \in Nat /\ saved <= offset
    BY DEF IInv, TypeOK, ConsumerOK
  <2>2. CASE Poll
    BY <2>2, PollResult DEF IInv
  <2>3. offset' # offset /\ offset' # saved
    BY <2>1
  <2> QED
    BY <2>2, <2>3 DEF Next, Write, Commit, Restart, vars
<1> QED
  BY Invariance, <1>1, PTL DEF Spec, PollsTakeNext

(* The log and its consumer keep the promise of TopicLog: appends number the *)
(* records, a poll never moves past the end, and a new process, whatever it  *)
(* finds in the index files, goes on from the committed offset of a log that *)
(* ends where it ended.                                                      *)
THEOREM Refinement == Spec => ImplementsTopicLog
<1>1. Init => Topic!Init
  BY DEF Init, Topic!Init
<1>2. IInv /\ IInv' /\ [Next]_vars => [Topic!Next]_<<nextOffset, offset, saved>>
  <2> SUFFICES ASSUME IInv, IInv', [Next]_vars
               PROVE  [Topic!Next]_<<nextOffset, offset, saved>>
    OBVIOUS
  <2>t. nextOffset \in Nat /\ nextOffset' \in Nat /\ offset \in Nat /\ offset' \in Nat
    BY LogAssumption DEF IInv, TypeOK
  <2>1. ASSUME NEW count \in 1..MaxCount, NEW n \in 1..MaxSize, NEW old \in BOOLEAN,
               Write(count, n, old)
        PROVE  Topic!Write
    <3>1. count \in Nat /\ count > 0
      BY LogAssumption
    <3>2. nextOffset' > nextOffset
      BY <2>t, <2>1, <3>1 DEF Write
    <3> QED
      BY <2>t, <2>1, <3>2 DEF Write, Topic!Write
  <2>2. CASE Poll
    <3>1. offset < offset' /\ offset' <= nextOffset
      BY <2>2, PollResult DEF IInv
    <3>2. offset' \in (offset + 1)..nextOffset
      BY <2>t, <3>1
    <3> QED
      BY <2>2, <3>2 DEF Poll, Topic!Read, Topic!Next
  <2>3. CASE Commit
    BY <2>3 DEF Commit, Topic!Save, Topic!Next
  <2>4. ASSUME NEW clean \in BOOLEAN, Restart(clean)
        PROVE  Topic!Resume
    <3>1. nextOffset' = nextOffset
      BY <2>4, RestartKeeps
    <3> QED
      BY <2>4, <3>1 DEF Restart, Topic!Resume
  <2>5. CASE UNCHANGED vars
    BY <2>5 DEF vars
  <2> QED
    BY <2>1, <2>2, <2>3, <2>4, <2>5 DEF Next, Topic!Next
<1> QED
  BY Invariance, Inductive, <1>1, <1>2, PTL DEF Spec, ImplementsTopicLog, Topic!Spec

-----------------------------------------------------------------------------
(* The first process: its index was never reopened. *)

Last(q) == q[Len(q)]

(* The entries are in order, and since counts from the last one. *)
Sorted(s) ==
  /\ \A i, j \in 1..Len(s.index) : i <= j => /\ s.index[i].base <= s.index[j].base
                                             /\ s.index[i].pos <= s.index[j].pos
  /\ \A i \in 1..Len(s.index) : s.index[i].base <= s.next /\ s.index[i].pos <= s.size
  /\ s.index # <<>> => s.size = Last(s.index).pos + s.since

(* An entry is close enough in front of the batch. *)
Near(e, b) ==
  e.base <= b.base /\ b.pos + b.size <= e.pos + IndexInterval + MaxSize - 1

Indexes(s) ==
  \A i \in 1..Len(s.batches) : \E j \in 1..Len(s.index) : Near(s.index[j], s.batches[i])

IndexDense(s) == Sorted(s) /\ Indexes(s)

FirstInv == restarts = 0 => \A k \in 1..Len(segs) : IndexDense(segs[k])

LEMMA DenseOf ==
  ASSUME NEW s, NEW t, t.index = s.index, t.since = s.since, t.size = s.size,
         t.next = s.next, t.batches = s.batches, IndexDense(s)
  PROVE  IndexDense(t)
  BY DEF IndexDense, Sorted, Indexes

LEMMA NewIsDense ==
  ASSUME NEW base \in Nat
  PROVE  IndexDense(NewSegment(base))
<1> DEFINE s == NewSegment(base)
<1>1. s.index = <<>> /\ s.batches = <<>>
  BY DEF NewSegment
<1> HIDE DEF s
<1>2. Len(s.index) = 0 /\ Len(s.batches) = 0
  BY <1>1, EmptyFacts
<1> QED
  BY <1>1, <1>2 DEF IndexDense, Sorted, Indexes, s

(* The entry of a batch, or the last one before it, is near. *)
LEMMA AppendedIsDense ==
  ASSUME NEW s, SegOK(s), IndexDense(s), NEW count \in 1..MaxCount, NEW n \in 1..MaxSize
  PROVE  IndexDense(Appended(s, s.next, count, n))
<1> DEFINE b == [base |-> s.next, count |-> count, pos |-> s.size, size |-> n]
           e == [base |-> s.next, pos |-> s.size]
           t == Appended(s, s.next, count, n)
           m == Len(s.index)
<1>f. /\ s \in Segment /\ s.size \in Nat /\ s.next \in Nat
      /\ s.batches \in Seq(Batch) /\ s.index \in Seq(Entry) /\ m \in Nat
      /\ s.since \in Nat /\ Len(s.batches) \in Nat
      /\ \A i \in 1..m : s.index[i].base \in Nat /\ s.index[i].pos \in Nat
  BY SegmentFields DEF SegOK
<1>c. /\ n \in Nat /\ n >= 1 /\ n <= MaxSize /\ count \in Nat
      /\ MaxSize \in Nat /\ IndexInterval \in Nat /\ IndexInterval >= 1
  BY LogAssumption
<1>s. /\ \A i, j \in 1..m : i <= j => /\ s.index[i].base <= s.index[j].base
                                      /\ s.index[i].pos <= s.index[j].pos
      /\ \A i \in 1..m : s.index[i].base <= s.next /\ s.index[i].pos <= s.size
      /\ s.index # <<>> => s.size = Last(s.index).pos + s.since
      /\ \A i \in 1..Len(s.batches) : \E j \in 1..m : Near(s.index[j], s.batches[i])
  BY DEF IndexDense, Sorted, Indexes
<1>1. /\ t.batches = Append(s.batches, b) /\ t.size = s.size + n /\ t.next = s.next + count
      /\ Indexed(s) => t.index = Append(s.index, e) /\ t.since = n
      /\ ~Indexed(s) => t.index = s.index /\ t.since = s.since + n
  BY <1>f DEF Appended, EntryPos, Segment
<1>2. b \in Batch /\ b.base = s.next /\ b.pos = s.size /\ b.size = n
      /\ e \in Entry /\ e.base = s.next /\ e.pos = s.size
  BY <1>f DEF Batch, Entry
<1> HIDE DEF t, b, e, m
<1>3. /\ Len(t.batches) = Len(s.batches) + 1 /\ t.batches[Len(s.batches) + 1] = b
      /\ \A i \in 1..Len(s.batches) : t.batches[i] = s.batches[i]
  BY <1>f, <1>1, <1>2, AppendFacts
<1>4. \A i \in 1..Len(t.batches) : i \in 1..Len(s.batches) \/ i = Len(s.batches) + 1
  BY <1>f, <1>3
<1>5. s.next \in Nat /\ s.next + count \in Nat /\ s.next <= s.next + count
      /\ s.size + n \in Nat /\ s.size <= s.size + n
  BY <1>f, <1>c
<1>6. CASE Indexed(s)
  <2>1. /\ Len(t.index) = m + 1 /\ t.index[m + 1] = e /\ t.since = n /\ t.index # <<>>
        /\ \A i \in 1..m : t.index[i] = s.index[i]
    <3> DEFINE o == s.index
               r == t.index
    <3>1. o \in Seq(Entry) /\ r = Append(o, e) /\ m = Len(o) /\ t.since = n
      BY <1>f, <1>1, <1>6 DEF m
    <3> HIDE DEF o, r
    <3>2. /\ Len(r) = m + 1 /\ r[m + 1] = e /\ r # <<>>
          /\ \A i \in 1..m : r[i] = o[i]
      BY <1>2, <3>1, AppendFacts
    <3> QED
      BY <3>1, <3>2 DEF o, r
  <2>2. \A i \in 1..(m + 1) : i \in 1..m \/ i = m + 1
    BY <1>f
  <2>3. \A i \in 1..(m + 1) :
          /\ t.index[i].base \in Nat /\ t.index[i].pos \in Nat
          /\ t.index[i].base <= s.next /\ t.index[i].pos <= s.size
    <3>1. \A i \in 1..m :
            /\ t.index[i].base \in Nat /\ t.index[i].pos \in Nat
            /\ t.index[i].base <= s.next /\ t.index[i].pos <= s.size
      BY <1>f, <1>s, <2>1
    <3>2. /\ e.base \in Nat /\ e.pos \in Nat /\ e.base <= s.next /\ e.pos <= s.size
      BY <1>f, <1>2
    <3> QED
      BY <2>1, <2>2, <3>1, <3>2
  <2>4. ASSUME NEW i \in 1..(m + 1), NEW j \in 1..(m + 1), i <= j
        PROVE  t.index[i].base <= t.index[j].base /\ t.index[i].pos <= t.index[j].pos
    <3>1. CASE j = m + 1
      BY <1>2, <2>1, <2>3, <3>1
    <3>2. CASE j # m + 1
      <4>1. i \in 1..m /\ j \in 1..m
        BY <1>f, <2>2, <2>4, <3>2
      <4> QED
        BY <1>s, <2>1, <2>4, <4>1
    <3> QED
      BY <3>1, <3>2
  <2>5. ASSUME NEW i \in 1..(m + 1)
        PROVE  t.index[i].base <= t.next /\ t.index[i].pos <= t.size
    <3>1. /\ t.index[i].base \in Nat /\ t.index[i].pos \in Nat
          /\ t.index[i].base <= s.next /\ t.index[i].pos <= s.size
      BY <2>3
    <3> DEFINE x == t.index[i].base
               y == t.index[i].pos
    <3>2. x \in Nat /\ y \in Nat /\ x <= s.next /\ y <= s.size
      BY <3>1
    <3> HIDE DEF x, y
    <3>3. x <= s.next + count /\ y <= s.size + n
      BY <1>f, <1>c, <3>2
    <3> QED
      BY <1>1, <3>3 DEF x, y
  <2>6. t.size = Last(t.index).pos + t.since
    BY <1>1, <1>2, <2>1 DEF Last
  <2>7. Near(e, b)
    <3>1. s.next <= s.next /\ s.size + n <= s.size + IndexInterval + MaxSize - 1
      BY <1>f, <1>c
    <3> QED
      BY <1>2, <3>1 DEF Near
  <2>8. ASSUME NEW i \in 1..Len(t.batches)
        PROVE  \E j \in 1..(m + 1) : Near(t.index[j], t.batches[i])
    <3>1. CASE i = Len(s.batches) + 1
      <4>1. m + 1 \in 1..(m + 1)
        BY <1>f
      <4> QED
        BY <1>3, <2>1, <2>7, <3>1, <4>1
    <3>2. CASE i \in 1..Len(s.batches)
      <4>1. PICK j \in 1..m : Near(s.index[j], s.batches[i])
        BY <1>s, <3>2
      <4>2. j \in 1..(m + 1)
        BY <1>f
      <4> QED
        BY <1>3, <2>1, <3>2, <4>1, <4>2
    <3> QED
      BY <1>4, <3>1, <3>2
  <2>9. Sorted(t)
    BY <2>1, <2>4, <2>5, <2>6 DEF Sorted
  <2>10. Indexes(t)
    BY <2>1, <2>8 DEF Indexes
  <2> QED
    BY <2>9, <2>10 DEF IndexDense, t
<1>7. CASE ~Indexed(s)
  <2>1. t.index = s.index /\ t.since = s.since + n /\ s.index # <<>> /\ s.since < IndexInterval
    BY <1>f, <1>c, <1>1, <1>7 DEF Indexed
  <2>2. m \in 1..m /\ Last(s.index) = s.index[m]
    BY <1>f, <2>1, NonEmpty DEF m, Last
  <2> DEFINE l == s.index[m]
  <2>3. /\ l.base \in Nat /\ l.pos \in Nat /\ l.base <= s.next
        /\ s.size = l.pos + s.since
    BY <1>f, <1>s, <2>1, <2>2
  <2>4. t.size = Last(t.index).pos + t.since
    <3> HIDE DEF l
    <3>1. s.size + n = l.pos + (s.since + n)
      BY <1>f, <1>c, <2>3
    <3> QED
      BY <1>1, <2>1, <2>2, <3>1 DEF l
  <2>5. ASSUME NEW i \in 1..m
        PROVE  t.index[i].base <= t.next /\ t.index[i].pos <= t.size
    <3>1. /\ s.index[i].base \in Nat /\ s.index[i].pos \in Nat
          /\ s.index[i].base <= s.next /\ s.index[i].pos <= s.size
      BY <1>f, <1>s
    <3> DEFINE x == s.index[i].base
               y == s.index[i].pos
    <3>2. x \in Nat /\ y \in Nat /\ x <= s.next /\ y <= s.size
      BY <3>1
    <3> HIDE DEF x, y
    <3>3. x <= s.next + count /\ y <= s.size + n
      BY <1>f, <1>c, <3>2
    <3>4. t.index[i].base = x /\ t.index[i].pos = y
      BY <2>1 DEF x, y
    <3> QED
      BY <1>1, <3>3, <3>4
  <2>6. Near(l, b)
    <3> HIDE DEF l
    <3>1. s.size + n <= l.pos + IndexInterval + MaxSize - 1
      BY SMTT(20), <1>f, <1>c, <2>1, <2>3
    <3> QED
      BY <1>2, <2>3, <3>1 DEF Near
  <2>7. ASSUME NEW i \in 1..Len(t.batches)
        PROVE  \E j \in 1..m : Near(s.index[j], t.batches[i])
    <3>1. CASE i = Len(s.batches) + 1
      BY <1>3, <2>2, <2>6, <3>1
    <3>2. CASE i \in 1..Len(s.batches)
      BY <1>s, <1>3, <3>2
    <3> QED
      BY <1>4, <3>1, <3>2
  <2>8. Len(t.index) = m
    BY <2>1 DEF m
  <2>9. Sorted(t)
    <3>1. \A i, j \in 1..m : i <= j => /\ t.index[i].base <= t.index[j].base
                                      /\ t.index[i].pos <= t.index[j].pos
      BY <1>s, <2>1
    <3> QED
      BY <2>4, <2>5, <2>8, <3>1 DEF Sorted
  <2>10. Indexes(t)
    BY <2>1, <2>7, <2>8 DEF Indexes
  <2> QED
    BY <2>9, <2>10 DEF IndexDense, t
<1> QED
  BY <1>6, <1>7 DEF t

LEMMA WrittenIsDense ==
  ASSUME NEW s, SegOK(s), IndexDense(s), NEW count \in 1..MaxCount, NEW n \in 1..MaxSize
  PROVE  IndexDense(Written(s, s.next, count, n))
<1> DEFINE t == Appended(s, s.next, count, n)
           v == Synced(t)
           u == [v EXCEPT !.unsynced = 0]
<1>1. SegOK(t) /\ IndexDense(t)
  BY AppendedKeeps, AppendedIsDense
<1>2. Written(s, s.next, count, n) \in {t, u}
  BY DEF Written
<1> HIDE DEF t
<1>3. /\ SegOK(v) /\ v.index = t.index /\ v.since = t.since /\ v.size = t.size
      /\ v.next = t.next /\ v.batches = t.batches
  BY <1>1, SyncedKeeps
<1> HIDE DEF v
<1>4. /\ u.index = v.index /\ u.since = v.since /\ u.size = v.size
      /\ u.next = v.next /\ u.batches = v.batches
  BY <1>3 DEF SegOK, Segment
<1> HIDE DEF u
<1>5. IndexDense(u)
  <2>1. /\ u.index = t.index /\ u.since = t.since /\ u.size = t.size
        /\ u.next = t.next /\ u.batches = t.batches
    BY <1>3, <1>4
  <2> QED
    BY <1>1, <2>1, DenseOf
<1> QED
  BY <1>1, <1>2, <1>5

LEMMA FirstInductive == IInv /\ FirstInv /\ [Next]_vars => FirstInv'
<1> SUFFICES ASSUME IInv, FirstInv, [Next]_vars, restarts' = 0
             PROVE  \A k \in 1..Len(segs') : IndexDense(segs'[k])
  BY DEF FirstInv
<1>1. restarts \in Nat /\ nextOffset \in Nat /\ SegmentsOK(segs, nextOffset)
  BY LogAssumption DEF IInv, TypeOK
<1>2. ASSUME NEW clean \in BOOLEAN, Restart(clean) PROVE FALSE
  BY <1>1, <1>2 DEF Restart
<1>3. ASSUME NEW count \in 1..MaxCount, NEW n \in 1..MaxSize, NEW old \in BOOLEAN,
             Write(count, n, old)
      PROVE  \A k \in 1..Len(segs') : IndexDense(segs'[k])
  <2> DEFINE to == Rolled(old)
             s == to[Len(to)]
             w == Written(s, s.next, count, n)
  <2>1. \A k \in 1..Len(segs) : IndexDense(segs[k])
    BY <1>3 DEF Write, FirstInv
  <2>2. SegmentsOK(to, nextOffset) /\ \A k \in 1..Len(to) : IndexDense(to[k])
    <3> DEFINE r == Append(segs, NewSegment(nextOffset))
    <3>1. SegmentsOK(r, nextOffset)
      BY <1>1, RollKeeps
    <3>2. \A k \in 1..Len(r) : IndexDense(r[k])
      <4> DEFINE x == NewSegment(nextOffset)
      <4>1. x \in Segment /\ IndexDense(x)
        BY <1>1, NewSegmentOK, NewIsDense DEF SegOK
      <4>2. segs \in Seq(Segment) /\ Len(segs) \in Nat
        BY <1>1, NonEmpty DEF SegmentsOK
      <4> HIDE DEF x
      <4>3. /\ Len(Append(segs, x)) = Len(segs) + 1 /\ Append(segs, x)[Len(segs) + 1] = x
            /\ \A i \in 1..Len(segs) : Append(segs, x)[i] = segs[i]
        BY <4>1, <4>2, AppendFacts
      <4>4. \A i \in 1..(Len(segs) + 1) : i \in 1..Len(segs) \/ i = Len(segs) + 1
        BY <4>2
      <4>5. \A k \in 1..Len(Append(segs, x)) : IndexDense(Append(segs, x)[k])
        BY <2>1, <4>1, <4>3, <4>4
      <4> QED
        BY <4>5 DEF x
    <3> HIDE DEF r
    <3>3. to \in {segs, r}
      BY DEF Rolled, r
    <3> QED
      BY <1>1, <2>1, <3>1, <3>2, <3>3
  <2>3. segs' = [to EXCEPT ![Len(to)] = Written(s, nextOffset, count, n)]
    BY <1>3 DEF Write
  <2> HIDE DEF to
  <2>4. /\ Len(to) \in 1..Len(to) /\ to \in Seq(Segment)
        /\ SegOK(s) /\ IndexDense(s) /\ s.next = nextOffset
    <3>1. Len(to) \in 1..Len(to) /\ to \in Seq(Segment)
      BY <2>2, NonEmpty DEF SegmentsOK
    <3> QED
      BY <2>2, <3>1 DEF SegmentsOK, Chain
  <2>5. IndexDense(w)
    <3> HIDE DEF s
    <3> QED
      BY <2>4, WrittenIsDense
  <2>6. segs' = [to EXCEPT ![Len(to)] = w]
    BY <2>3, <2>4
  <2> HIDE DEF w
  <2>7. /\ Len(segs') = Len(to) /\ segs'[Len(to)] = w
        /\ \A i \in 1..Len(to) : i # Len(to) => segs'[i] = to[i]
    BY <2>4, <2>6
  <2> QED
    BY <2>2, <2>5, <2>7
<1>4. CASE UNCHANGED <<segs, restarts>>
  BY <1>4 DEF FirstInv
<1> QED
  BY <1>2, <1>3, <1>4 DEF Next, Poll, Commit, vars

(* A window that reaches past an index interval and a batch is always enough *)
(* for a poll of the first process: the consumer is never stuck behind       *)
(* records that are there.  The code's window is as long as the interval.    *)
THEOREM WideWindowSuffices ==
  ASSUME Window >= IndexInterval + MaxSize - 1
  PROVE  Spec => []PollAdvances
<1>1. IInv /\ FirstInv => PollAdvances
  <2> SUFFICES ASSUME IInv, FirstInv, restarts = 0, offset < nextOffset,
                      NEW p \in Lookup(SegmentOf(offset), offset)
               PROVE  InWindow(SegmentOf(offset), offset, p) # {}
    BY DEF PollAdvances
  <2> DEFINE s == SegmentOf(offset)
             q == s.batches
  <2>1. nextOffset \in Nat /\ offset \in Nat /\ offset \in 0..nextOffset
    BY LogAssumption DEF IInv, TypeOK, ConsumerOK
  <2>2. SegmentsOK(segs, nextOffset)
    BY DEF IInv
  <2>3. PICK k \in 1..Len(segs) :
          s = segs[k] /\ segs[k].base <= offset /\ offset < segs[k].next
    BY <2>1, <2>2, SegmentFound
  <2>4. SegOK(s) /\ IndexDense(s) /\ s.base <= offset /\ offset < s.next
    BY <2>2, <2>3 DEF SegmentsOK, FirstInv
  <2>p. p \in Lookup(s, offset)
    OBVIOUS
  <2> HIDE DEF s
  <2>5. /\ s.base \in Nat /\ s.next \in Nat /\ Len(s.index) \in Nat
        /\ \A i \in 1..Len(q) : /\ q[i].base \in Nat /\ q[i].pos \in Nat
                              /\ q[i].size \in 1..MaxSize /\ End(q[i]) \in Nat
        /\ \A i \in 1..Len(s.index) : s.index[i].base \in Nat /\ s.index[i].pos \in Nat
    BY <2>4, SegmentFields DEF SegOK
  <2>6. PICK c \in 1..Len(q) : q[c].base <= offset /\ offset < End(q[c])
    <3>1. offset \in s.base..(s.next - 1)
      BY <2>1, <2>4, <2>5
    <3> QED
      BY <2>4, <3>1 DEF SegOK, BatchesOK, Covers
  <2>7. p \in Nat /\ q[c].pos >= p
    <3>1. p \in Nat /\ (q[c].pos < p => End(q[c]) <= offset)
      BY <2>1, <2>4, <2>p, LookupBelow
    <3>2. q[c].pos \in Nat /\ End(q[c]) \in Nat
      BY <2>5
    <3> QED
      BY <2>1, <2>6, <3>1, <3>2
  <2>8. PICK j \in 1..Len(s.index) : Near(s.index[j], q[c])
    BY <2>4 DEF IndexDense, Indexes
  <2>9. s.index[j].base <= offset
    <3>1. s.index[j].base <= q[c].base /\ s.index[j].base \in Nat /\ q[c].base \in Nat
      BY <2>5, <2>8 DEF Near
    <3> QED
      BY SMTT(20), <2>1, <2>6, <3>1
  <2>10. PICK i \in 0..Len(s.index) :
          IsFloor(s, i, offset) /\ p = IF i = 0 THEN 0 ELSE s.index[i].pos
    BY <2>p DEF Lookup
  <2>11. j <= i
    <3> SUFFICES ASSUME i < j PROVE FALSE
      BY <2>5
    <3>1. i + 1 \in 1..Len(s.index) /\ i + 1 <= j /\ i # Len(s.index)
      BY <2>5
    <3>2. s.index[i + 1].base > offset
      BY <2>10, <3>1 DEF IsFloor
    <3>3. s.index[i + 1].base <= s.index[j].base
      BY <2>4, <3>1 DEF IndexDense, Sorted
    <3>4. s.index[i + 1].base \in Nat /\ s.index[j].base \in Nat
      BY <2>5, <3>1
    <3> QED
      BY SMTT(20), <2>1, <2>9, <3>2, <3>3, <3>4
  <2>12. s.index[j].pos <= p
    <3>1. i # 0 /\ i \in 1..Len(s.index) /\ p = s.index[i].pos
      BY <2>5, <2>10, <2>11
    <3> QED
      BY <2>4, <2>11, <3>1 DEF IndexDense, Sorted
  <2>13. q[c].pos + q[c].size <= p + Window
    <3> DEFINE a == q[c].pos + q[c].size
               e == s.index[j].pos
    <3>0. \A x \in 1..MaxSize : x \in Nat
      BY LogAssumption
    <3>1. a <= e + IndexInterval + MaxSize - 1 /\ e \in Nat /\ e <= p /\ a \in Nat
      <4>1. q[c].pos \in Nat /\ q[c].size \in Nat /\ e \in Nat
        BY <2>5, <3>0
      <4>2. a \in Nat
        <5>1. \A x, y \in Nat : x + y \in Nat
          OBVIOUS
        <5> QED
          BY <4>1, <5>1
      <4>3. a <= e + IndexInterval + MaxSize - 1
        BY <2>8 DEF Near
      <4>4. e <= p
        BY <2>12
      <4> QED
        BY <4>1, <4>2, <4>3, <4>4
    <3> HIDE DEF a, e
    <3>2. /\ Window \in Nat /\ IndexInterval \in Nat /\ MaxSize \in Nat
          /\ Window >= IndexInterval + MaxSize - 1
      BY LogAssumption
    <3>3. a <= p + Window
      BY <2>7, <3>1, <3>2
    <3> QED
      BY <3>3 DEF a
  <2>14. Fits(s, q[c], p)
    BY <2>7, <2>13 DEF Fits
  <2>15. End(q[c]) > offset
    BY <2>1, <2>5, <2>6
  <2>16. q[c] \in InWindow(s, offset, p)
    BY <2>14, <2>15 DEF InWindow
  <2> QED
    BY <2>16 DEF s
<1>2. Init => FirstInv
  <2> SUFFICES ASSUME Init PROVE \A k \in 1..Len(segs) : IndexDense(segs[k])
    BY DEF FirstInv
  <2> DEFINE s == NewSegment(0)
  <2>1. IndexDense(s) /\ s \in Segment
    BY NewIsDense, NewSegmentOK DEF SegOK
  <2>2. segs = <<s>>
    BY DEF Init
  <2> HIDE DEF s
  <2>3. Len(segs) = 1 /\ segs[1] = s
    BY <2>1, <2>2
  <2> QED
    BY <2>1, <2>3
<1> QED
  BY InitEstablishes, Inductive, FirstInductive, <1>1, <1>2, PTL DEF Spec
=============================================================================

----------------------- MODULE ForgeMaintenance_proofs -----------------------
(***************************************************************************)
(* Proofs about ForgeMaintenance, for every value of its constants.         *)
(*                                                                         *)
(* All but the types are about logs in which no two segments share a file.   *)
(* ConservedInv says where the records are and gives RecordsConserved and   *)
(* OffsetsGrow.  PollInv says, for a log in which no merge has crossed a *)
(* segment that it left, that the segment a record is looked for in has it, *)
(* and every batch below it, and gives PollFindsNext and PollSkipsNothing.   *)
(* OrderInv says that such a log is in the order of the records as long as  *)
(* recovery finds nothing twice, and gives DeliveredOnce.                   *)
(***************************************************************************)
EXTENDS ForgeMaintenance, FiniteSetTheorems, WellFoundedInduction, TLAPS

-----------------------------------------------------------------------------
(* The first inductive invariant: where the records are. *)

(* The types as they are while no two segments share a file. *)
PlainTypeOK ==
  /\ DOMAIN files \subseteq Bases /\ files \in [DOMAIN files -> File]
  /\ DOMAIN staged \subseteq Bases /\ staged \in [DOMAIN staged -> File]
  /\ DOMAIN segs \subseteq Bases /\ segs \in [DOMAIN segs -> Segment]
  /\ nextOffset \in 0..MaxRecords /\ offset \in 0..nextOffset
  /\ cutoff \in [retire : Nat, merge : Nat]
  /\ maint \in [step : {"idle", "between", "retire", "clean", "write", "drop"},
               victims : SUBSET Bases, left : SUBSET Bases, base : Bases,
               rest : SUBSET (Bases \X Nat)]
  /\ got \in [Records -> Nat]
  /\ retired \subseteq Records /\ torn \subseteq Records
  /\ doubled \in BOOLEAN /\ crossed \in BOOLEAN /\ up \in BOOLEAN
  /\ crashes \in Nat /\ fails \in Nat

Done == maint.victims \ maint.left
Held(b) == Range(segs[b].recs)
Rec(p) == segs[p[1]].recs[p[2]]

(* The records in memory were written. *)
BelowOK == \A b \in DOMAIN segs : Held(b) \subseteq 0..(nextOffset - 1)

(* The file of the active segment: nothing is above it, nothing staged will   *)
(* replace it, and it ends at the next offset.                               *)
IsTop(m) ==
  /\ m <= nextOffset
  /\ \A b \in DOMAIN files : b <= m
  /\ \A b \in DOMAIN staged : b < m
  /\ up => /\ m \in DOMAIN segs /\ ~segs[m].dead
           /\ \A b \in DOMAIN segs : b <= m
  /\ files[m].recs = <<>> => m = nextOffset
  /\ files[m].recs # <<>> =>
       m < nextOffset /\ nextOffset - 1 \in Range(files[m].recs)
TopOK == \E m \in DOMAIN files : IsTop(m)

(* A segment whose file exists has what the file has; another one is closed.  *)
MemoryOK ==
  IF up THEN /\ DOMAIN files \subseteq DOMAIN segs
             /\ \A b \in DOMAIN segs :
                  IF b \in DOMAIN files THEN files[b].recs = segs[b].recs
                                        ELSE segs[b].dead
        ELSE DOMAIN segs = {} /\ maint = Idle

(* What a step of retention or of a merge can rely on. *)
VictimsOK ==
  /\ maint.left \subseteq maint.victims
  /\ \A v \in maint.victims : v \in DOMAIN segs /\ \E a \in DOMAIN segs : v < a
  /\ \A v \in Done : segs[v].dead /\ v \notin DOMAIN files
  /\ maint.step \in {"idle", "between"} => maint.victims = {}
  /\ maint.step = "write" => maint.left = maint.victims
  /\ maint.step = "retire" => \A v \in Done : Held(v) \subseteq retired
  /\ maint.step = "clean" => \A v \in maint.victims : segs[v].recs = <<>>
  /\ maint.step \in {"clean", "write", "drop"} =>
       \A v \in maint.victims : segs[v].created <= cutoff.merge

(* What is staged is what the victims hold but for the rest. *)
StagedOK ==
  maint.step \in {"write", "drop"} =>
    /\ maint.base \in maint.victims /\ \A v \in maint.victims : maint.base <= v
    /\ maint.base \in DOMAIN staged
    /\ maint.rest \subseteq Places(maint.victims)
    /\ maint.step = "drop" => maint.rest = {}
    /\ \A p \in Places(maint.victims) \ maint.rest :
         Rec(p) \in Range(staged[maint.base].recs)

(* A record that is not lost is in memory, be its segment closed or not. *)
HeldOK == up => \A r \in 0..(nextOffset - 1) : r \in Lost \/ \E b \in DOMAIN segs : r \in Held(b)

(* A file that is gone with records retention did not delete was removed by a *)
(* merge, and no later merge can begin while its segment is in the list.     *)
GoneOK ==
  \A b \in DOMAIN segs \ DOMAIN files :
    \/ Held(b) \subseteq retired
    \/ /\ segs[b].created <= cutoff.merge
       /\ maint.step \in {"write", "drop"} => b \in Done

Accounted == 0..(nextOffset - 1) = Contents(files) \cup Contents(staged) \cup Lost

ConservedInv ==
  /\ PlainTypeOK /\ BelowOK /\ TopOK /\ MemoryOK /\ VictimsOK /\ StagedOK /\ HeldOK /\ GoneOK
  /\ Accounted

(* The steps after which no two segments share a file. *)
PlainNext ==
  \/ \E old \in BOOLEAN : Write(old)
  \/ Poll
  \/ \E c \in cutoff.retire..nextOffset : EnforceRetention(c)
  \/ RemoveNext
  \/ \E deleted \in BOOLEAN : RemoveFails(deleted)
  \/ RemovalEnds
  \/ \E c \in 0..nextOffset : c >= cutoff.retire /\ c >= cutoff.merge /\ MergeSegments(c)
  \/ WriteStaged \/ StagingFails \/ CloseStaged \/ Swap
  \/ Crash \/ Recover

-----------------------------------------------------------------------------
(* The second: what a poll finds. *)

(* What an earlier merge left in .staging: the segment it begins at is closed. *)
LeftoverOK ==
  up => \A b \in DOMAIN staged :
          /\ b \in DOMAIN segs
          /\ \/ maint.step \in {"write", "drop"} /\ b = maint.base
             \/ segs[b].dead /\ b \notin Done /\ segs[b].created <= cutoff.merge

(* A merge reads only segments that are open, or have nothing to read. *)
ReadableOK ==
  maint.step = "write" =>
    \A v \in maint.victims : v \in DOMAIN files \/ segs[v].recs = <<>>

(* The highest base that is not above the record: where it is looked for. *)
Floor(S, r, b) == b \in S /\ b <= r /\ \A a \in S : a <= r => a <= b

(* A batch has all before it that the segment's base and its record enclose.  *)
Covers(b, q) ==
  \A i \in DOMAIN q : \A r \in b..q[i] : r \in Lost \/ \E j \in DOMAIN q : j <= i /\ q[j] = r
CoverOK ==
  /\ \A b \in DOMAIN files : Covers(b, files[b].recs)
  /\ \A b \in DOMAIN staged : Covers(b, staged[b].recs)

(* A record is in the segment it is looked for in. *)
HomeOK ==
  up => \A r \in 0..(nextOffset - 1) :
          r \in Lost \/ \E b \in DOMAIN segs : Floor(DOMAIN segs, r, b) /\ r \in Held(b)

(* A merge takes neighbours. *)
NeighboursOK ==
  maint.step \in {"write", "drop"} =>
    \A v \in maint.victims : \A x \in DOMAIN segs :
      maint.base <= x /\ x <= v => x \in maint.victims

(* A staged file that takes the place of a segment whose file is gone ...     *)
StandInOK ==
  \A b \in DOMAIN segs \ DOMAIN files : \A r \in Held(b) :
    r \in Lost \/ \E a \in DOMAIN staged :
                     Floor(DOMAIN Merged, b, a) /\ r \in Range(staged[a].recs)

(* ... is what a process that comes up looks for its records in. *)
ReloadOK ==
  ~up => \A r \in 0..(nextOffset - 1) :
           r \in Lost \/ \E b \in DOMAIN Merged :
                            /\ Floor(DOMAIN Merged, r, b)
                            /\ r \in Range(Merged[b].recs) \cup TornBy

DeliveredOK == \A r \in 0..(offset - 1) : r \in Lost \/ got[r] > 0

WholeInv == HomeOK /\ CoverOK /\ NeighboursOK /\ StandInOK /\ ReloadOK /\ DeliveredOK
PollInv == LeftoverOK /\ ReadableOK /\ (~crossed => WholeInv)

-----------------------------------------------------------------------------
(* The third: in which order they stand. *)

Sorted(q) == \A i, j \in DOMAIN q : i < j => q[i] < q[j]
Twice(q) == \E i, j \in DOMAIN q : i # j /\ q[i] = q[j]

(* The files one behind the other. *)
FilesOrdered ==
  /\ \A b \in DOMAIN files : Sorted(files[b].recs)
  /\ \A a, b \in DOMAIN files : a < b =>
       \A x \in Range(files[a].recs), y \in Range(files[b].recs) : x < y

(* A staged file lies behind the files below it, and ahead of what it has not  *)
(* taken from those above it.                                                *)
StagedBetween ==
  \A a \in DOMAIN staged : \A b \in DOMAIN files :
    \A x \in Range(staged[a].recs) : \A y \in Range(files[b].recs) :
      IF b < a THEN y < x ELSE x < y \/ y \in Range(staged[a].recs)

(* So are the staged files, but for what a later one took from an earlier, and *)
(* a file that was written on shows it by a record it has twice.             *)
StagedOrdered ==
  /\ \A a \in DOMAIN staged : Sorted(staged[a].recs) \/ Twice(staged[a].recs)
  /\ \A a, b \in DOMAIN staged : a < b =>
       \A x \in Range(staged[a].recs) : \A y \in Range(staged[b].recs) :
         x < y \/ y \in Range(staged[a].recs) \/ y \in retired

(* What is staged stands in the list still, or retention deleted it. *)
StagedFromOK ==
  up => \A a \in DOMAIN staged : \A y \in Range(staged[a].recs) :
          y \in retired \/ \E b \in DOMAIN segs : a <= b /\ y \in Held(b)

(* The staged file of a merge that can come to its end. *)
MergeOrdered ==
  maint.step \in {"write", "drop"} =>
    \/ segs[maint.base].dead /\ maint.base \notin Done
    \/ /\ Sorted(staged[maint.base].recs)
       /\ \A z \in Range(staged[maint.base].recs) :
            /\ \A p \in maint.rest : z < Rec(p)
            /\ \A b \in DOMAIN files \ maint.victims : maint.base < b =>
                 \A y \in Range(files[b].recs) : z < y

OnceOK == \A r \in Records : got[r] <= 1 /\ (r >= offset => got[r] = 0)

Ordered == FilesOrdered /\ StagedBetween /\ StagedOrdered /\ MergeOrdered /\ OnceOK
OrderInv == StagedFromOK /\ (~crossed /\ ~doubled => Ordered)

-----------------------------------------------------------------------------
(* Sets of numbers, sequences. *)

(* Every nonempty set of naturals has a least element. *)
LEMMA LeastNat ==
  ASSUME NEW T \in SUBSET Nat, T # {}
  PROVE  \E m \in T : \A t \in T : m <= t
<1> DEFINE R == OpToRel(<, Nat)
<1>0. \A x, y \in Nat : <<x, y>> \in R <=> x < y
  BY DEF OpToRel
<1>1. IsWellFoundedOn(R, Nat)
  BY NatLessThanWellFounded, Zenon
<1> HIDE DEF R
<1>2. PICK m \in T : \A t \in T : ~(<<t, m>> \in R)
  BY <1>1, WFMin
<1>3. \A t \in T : ~(t < m)
  BY <1>2, <1>0
<1> QED BY <1>3

LEMMA MinOf ==
  ASSUME NEW S \in SUBSET Nat, S # {}
  PROVE  Min(S) \in S /\ \A x \in S : Min(S) <= x
BY LeastNat DEF Min

LEMMA MaxOf ==
  ASSUME NEW n \in Nat, NEW S \in SUBSET (0..n), S # {}
  PROVE  Max(S) \in S /\ \A x \in S : x <= Max(S)
<1> DEFINE T == {k \in Nat : \E x \in S : k = n - x}
<1>1. T \in SUBSET Nat /\ T # {}
  <2>1. PICK x \in S : TRUE
    OBVIOUS
  <2>2. n - x \in Nat
    BY <2>1
  <2> QED BY <2>1, <2>2
<1>2. PICK m \in T : \A t \in T : m <= t
  BY <1>1, LeastNat
<1>3. PICK x \in S : m = n - x
  BY <1>2
<1>4. \A y \in S : y <= x
  <2> TAKE y \in S
  <2>1. n - y \in T
    OBVIOUS
  <2> QED BY <2>1, <1>2, <1>3
<1> QED BY <1>3, <1>4 DEF Max

LEMMA RangeOfAppend ==
  ASSUME NEW S, NEW q \in Seq(S), NEW x \in S
  PROVE  /\ Append(q, x) \in Seq(S) /\ Append(q, x) # <<>>
         /\ Range(Append(q, x)) = Range(q) \cup {x}
<1> DEFINE a == Append(q, x)
<1>1. a \in Seq(S) /\ Len(a) = Len(q) + 1 /\ Len(q) \in Nat
  OBVIOUS
<1>2. DOMAIN a = 1..(Len(q) + 1) /\ DOMAIN q = 1..Len(q)
  BY <1>1
<1>3. \A i \in 1..(Len(q) + 1) : a[i] = IF i = Len(q) + 1 THEN x ELSE q[i]
  OBVIOUS
<1>4. a # <<>>
  BY <1>1
<1> HIDE DEF a
<1>5. Range(a) = Range(q) \cup {x}
  BY <1>1, <1>2, <1>3 DEF Range
<1> QED BY <1>1, <1>4, <1>5 DEF a

LEMMA RangeOfSeq ==
  ASSUME NEW S, NEW q \in Seq(S)
  PROVE  Range(q) \subseteq S /\ (Range(q) = {} <=> q = <<>>)
BY DEF Range

LEMMA InContents ==
  ASSUME NEW dir, NEW r
  PROVE  r \in Contents(dir) <=> \E b \in DOMAIN dir : r \in Range(dir[b].recs)
BY DEF Contents

LEMMA InPlaces ==
  ASSUME NEW some, NEW p
  PROVE  p \in Places(some) <=> \E b \in some : \E i \in DOMAIN segs[b].recs : p = <<b, i>>
BY DEF Places

LEMMA Naturals ==
  ASSUME ConservedInv
  PROVE  /\ nextOffset \in Nat /\ offset \in Nat
         /\ \A x \in DOMAIN segs : x \in Nat
         /\ \A x \in DOMAIN files : x \in Nat
         /\ \A x \in DOMAIN staged : x \in Nat
         /\ \A x \in maint.victims : x \in Nat
BY MaintenanceAssumption DEF ConservedInv, PlainTypeOK, Bases

(* Nothing is in front of base offset 0: a segment's key is its base offset.  *)
LEMMA OwnFile ==
  ASSUME ConservedInv, NEW b \in DOMAIN segs
  PROVE  FileOf(b) = b
<1>1. b \in Nat
  BY Naturals
<1> QED BY <1>1 DEF FileOf, Twin

LEMMA OwnFileOfMin ==
  ASSUME ConservedInv, NEW some \in SUBSET DOMAIN segs, Places(some) # {}
  PROVE  FileOf(Min(some)) = Min(some)
<1>1. some # {}
  BY DEF Places
<1>2. some \in SUBSET Nat
  BY Naturals
<1>3. Min(some) \in some
  BY <1>1, <1>2, MinOf
<1> QED BY <1>3, OwnFile


-----------------------------------------------------------------------------
(* The initial state. *)

LEMMA InitConserved == Init => ConservedInv
<1> SUFFICES ASSUME Init PROVE ConservedInv
  OBVIOUS
<1> USE MaintenanceAssumption
<1>1. Range(<<>>) = {}
  BY DEF Range
<1>2. PlainTypeOK
  <2>1. DOMAIN files \subseteq Bases /\ files \in [DOMAIN files -> File]
    BY DEF Init, Bases, File
  <2>2. DOMAIN staged \subseteq Bases /\ staged \in [DOMAIN staged -> File]
    BY DEF Init, Bases, NoFiles
  <2>3. DOMAIN segs \subseteq Bases /\ segs \in [DOMAIN segs -> Segment]
    BY DEF Init, Bases, Segment, NewSegment
  <2>4. maint \in [step : {"idle", "between", "retire", "clean", "write", "drop"},
                   victims : SUBSET Bases, left : SUBSET Bases, base : Bases,
                   rest : SUBSET (Bases \X Nat)]
    BY DEF Init, Idle, Bases
  <2>5. got \in [Records -> Nat] /\ cutoff \in [retire : Nat, merge : Nat]
    BY DEF Init
  <2>6. /\ nextOffset \in 0..MaxRecords /\ offset \in 0..nextOffset
        /\ retired \subseteq Records /\ torn \subseteq Records
        /\ doubled \in BOOLEAN /\ crossed \in BOOLEAN /\ up \in BOOLEAN
        /\ crashes \in Nat /\ fails \in Nat
    BY DEF Init
  <2> QED BY <2>1, <2>2, <2>3, <2>4, <2>5, <2>6 DEF PlainTypeOK
<1>3. BelowOK
  BY <1>1 DEF BelowOK, Held, Init, NewSegment
<1>4. TopOK
  <2>1. IsTop(0) /\ 0 \in DOMAIN files
    BY DEF IsTop, Init, NoFiles, NewSegment
  <2> QED BY <2>1 DEF TopOK
<1>5. MemoryOK /\ HeldOK /\ GoneOK
  BY DEF MemoryOK, HeldOK, GoneOK, Init, NewSegment
<1>6. VictimsOK /\ StagedOK
  BY DEF VictimsOK, StagedOK, Init, Idle, Done
<1>7. Accounted
  <2>1. Contents(files) = {} /\ Contents(staged) = {}
    BY <1>1 DEF Contents, Init, NoFiles
  <2>2. Lost = {} /\ 0..(nextOffset - 1) = {}
    BY DEF Lost, Init
  <2> QED BY <2>1, <2>2 DEF Accounted
<1> QED BY <1>2, <1>3, <1>4, <1>5, <1>6, <1>7 DEF ConservedInv

-----------------------------------------------------------------------------
(* Steps that move no record. *)

(* The log as these steps leave it. *)
core == <<files, staged, segs, nextOffset, retired, torn, up>>

LEMMA CoreSame ==
  ASSUME ConservedInv, UNCHANGED core
  PROVE  BelowOK' /\ TopOK' /\ Accounted' /\ HeldOK'
<1> USE DEF core
<1>1. BelowOK'
  BY DEF ConservedInv, BelowOK, Held
<1>2. TopOK'
  BY DEF ConservedInv, TopOK, IsTop
<1>3. Accounted'
  BY DEF ConservedInv, Accounted, Contents, Lost
<1>4. HeldOK'
  BY DEF ConservedInv, HeldOK, Held, Lost
<1> QED BY <1>1, <1>2, <1>3, <1>4

(* The active segment is there, so that the list is never empty. *)
LEMMA TopIsActive ==
  ASSUME ConservedInv, up
  PROVE  /\ Active \in DOMAIN segs /\ Active \in DOMAIN files /\ Active \in Nat
         /\ ~segs[Active].dead /\ \A b \in DOMAIN segs : b <= Active
         /\ IsTop(Active)
<1>1. PICK m \in DOMAIN files : IsTop(m)
  BY DEF ConservedInv, TopOK
<1>2. m \in DOMAIN segs /\ \A b \in DOMAIN segs : b <= m
  BY <1>1 DEF IsTop
<1>3. DOMAIN segs \in SUBSET (0..MaxRecords) /\ MaxRecords \in Nat
  BY MaintenanceAssumption DEF ConservedInv, PlainTypeOK, Bases
<1>4. Max(DOMAIN segs) \in DOMAIN segs /\ \A x \in DOMAIN segs : x <= Max(DOMAIN segs)
  BY <1>2, <1>3, MaxOf
<1>5. Max(DOMAIN segs) = m
  BY <1>2, <1>3, <1>4
<1> QED BY <1>1, <1>2, <1>3, <1>5 DEF Active, IsTop

(* findSegment: the segment with the largest base offset that is not above. *)
LEMMA SegmentOfFloor ==
  ASSUME ConservedInv, up, NEW o \in Nat
  PROVE  /\ SegmentOf(o) \in DOMAIN segs
         /\ \/ Floor(DOMAIN segs, o, SegmentOf(o))
            \/ \A b \in DOMAIN segs : o < b
<1> DEFINE below == {b \in DOMAIN segs : b <= o}
<1>1. DOMAIN segs \in SUBSET (0..MaxRecords) /\ MaxRecords \in Nat /\ DOMAIN segs # {}
  BY TopIsActive, MaintenanceAssumption DEF ConservedInv, PlainTypeOK, Bases
<1>2. CASE below = {}
  <2>1. Min(DOMAIN segs) \in DOMAIN segs
    <3>1. DOMAIN segs \in SUBSET Nat
      BY <1>1
    <3> QED BY <3>1, <1>1, MinOf
  <2>2. \A b \in DOMAIN segs : o < b
    BY <1>1, <1>2
  <2> QED BY <1>2, <2>1, <2>2 DEF SegmentOf
<1>3. CASE below # {}
  <2>1. Max(below) \in below /\ \A x \in below : x <= Max(below)
    <3>1. below \in SUBSET (0..MaxRecords)
      BY <1>1
    <3> HIDE DEF below
    <3> QED BY <3>1, <1>1, <1>3, MaxOf
  <2>2. SegmentOf(o) = Max(below)
    BY <1>3 DEF SegmentOf
  <2> QED BY <2>1, <2>2 DEF Floor
<1> QED BY <1>2, <1>3

LEMMA CloseStagedConserved == ConservedInv /\ CloseStaged => ConservedInv'
<1> SUFFICES ASSUME ConservedInv, CloseStaged PROVE ConservedInv'
  OBVIOUS
<1>0. /\ up /\ up' = up /\ maint.step = "write" /\ maint.rest = {}
      /\ maint' = [maint EXCEPT !.step = "drop"]
      /\ UNCHANGED core /\ UNCHANGED <<cutoff, offset, got, doubled, crossed, crashes, fails>>
  BY DEF CloseStaged, Complete, core, log, consumer, history, process
<1>m. /\ maint'.step = "drop" /\ maint'.rest = {} /\ maint'.base = maint.base
      /\ maint'.victims = maint.victims /\ maint'.left = maint.left
  BY <1>0 DEF ConservedInv, PlainTypeOK
<1>1. PlainTypeOK'
  BY <1>0 DEF ConservedInv, PlainTypeOK, core
<1>2. BelowOK' /\ TopOK' /\ Accounted' /\ HeldOK'
  BY <1>0, CoreSame
<1>3. MemoryOK'
  BY <1>0 DEF ConservedInv, MemoryOK, core
<1>4. VictimsOK'
  BY <1>0, <1>m DEF ConservedInv, VictimsOK, core, Done
<1>5. StagedOK'
  BY <1>0, <1>m DEF ConservedInv, StagedOK, core, Places, Rec
<1>6. GoneOK'
  BY <1>0, <1>m DEF ConservedInv, GoneOK, core, Held, Lost, Done
<1> QED BY <1>1, <1>2, <1>3, <1>4, <1>5, <1>6 DEF ConservedInv

LEMMA EnforceRetentionConserved ==
  ASSUME ConservedInv, NEW c \in cutoff.retire..nextOffset, EnforceRetention(c)
  PROVE  ConservedInv'
<1>0. /\ up /\ up' = up /\ maint.step = "idle"
      /\ cutoff' = [cutoff EXCEPT !.retire = c]
      /\ maint' = Removal("retire", Victims(c))
      /\ UNCHANGED core /\ UNCHANGED <<offset, got, doubled, crossed, crashes, fails>>
  BY DEF EnforceRetention, core, log, consumer, history, process
<1>c. c \in Nat /\ cutoff'.merge = cutoff.merge
  BY <1>0 DEF ConservedInv, PlainTypeOK
<1>m. /\ maint'.step = "retire" /\ maint'.rest = {} /\ maint'.base = 0
      /\ maint'.victims = Victims(c) /\ maint'.left = Victims(c)
  BY <1>0 DEF Removal, Idle
<1>v. \A v \in Victims(c) : v \in DOMAIN segs /\ v < Active
  <2>1. \A v \in Victims(c) : v \in DOMAIN segs /\ v # Active
    BY DEF Victims
  <2>2. \A v \in DOMAIN segs : v \in Nat
    BY MaintenanceAssumption DEF ConservedInv, PlainTypeOK, Bases
  <2> QED BY <2>1, <2>2, <1>0, TopIsActive
<1>1. PlainTypeOK'
  <2>1. Victims(c) \subseteq Bases /\ 0 \in Bases
    BY <1>v, MaintenanceAssumption DEF ConservedInv, PlainTypeOK, Bases
  <2>2. maint' \in [step : {"idle", "between", "retire", "clean", "write", "drop"},
               victims : SUBSET Bases, left : SUBSET Bases, base : Bases,
               rest : SUBSET (Bases \X Nat)]
    BY <2>1, <1>0 DEF Removal, Idle
  <2> QED BY <1>0, <1>c, <2>2 DEF ConservedInv, PlainTypeOK, core
<1>2. BelowOK' /\ TopOK' /\ Accounted' /\ HeldOK'
  BY <1>0, CoreSame
<1>3. MemoryOK'
  BY <1>0 DEF ConservedInv, MemoryOK, core
<1>4. VictimsOK'
  BY <1>0, <1>m, <1>v, TopIsActive DEF ConservedInv, VictimsOK, core, Done
<1>5. StagedOK'
  BY <1>0, <1>m DEF StagedOK
<1>6. GoneOK'
  BY <1>0, <1>m, <1>c DEF ConservedInv, GoneOK, core, Held, Lost, Done
<1> QED BY <1>1, <1>2, <1>3, <1>4, <1>5, <1>6 DEF ConservedInv

(* What a poll reads: records that were written, up to a place in the file. *)
LEMMA BatchType ==
  ASSUME ConservedInv, up
  PROVE  /\ Batch \in Seq(Records) /\ Len(Batch) \in Nat /\ DOMAIN Batch = 1..Len(Batch)
         /\ \A i \in DOMAIN Batch : Batch[i] \in 0..(nextOffset - 1)
<1> DEFINE b == SegmentOf(offset)
<1>1. b \in DOMAIN segs
  BY SegmentOfFloor DEF ConservedInv, PlainTypeOK
<1>2. segs[b] \in Segment /\ Held(b) \subseteq 0..(nextOffset - 1)
  BY <1>1 DEF ConservedInv, PlainTypeOK, BelowOK
<1> HIDE DEF b
<1>3. segs[b].recs \in Seq(Records)
  BY <1>2 DEF Segment
<1>4. \A i \in DOMAIN segs[b].recs : segs[b].recs[i] \in Held(b)
  BY DEF Held, Range
<1> QED BY <1>2, <1>3, <1>4 DEF Batch, b

LEMMA OffsetAfterOf ==
  ASSUME ConservedInv, up, NEW S \in SUBSET Read
  PROVE  /\ OffsetAfter(S) \in 0..nextOffset
         /\ S = {} => OffsetAfter(S) = offset
         /\ S # {} => \E m \in S : /\ \A x \in S : x <= m
                                   /\ OffsetAfter(S) = Batch[m] + 1
<1>1. S \subseteq 0..Len(Batch) /\ S \subseteq DOMAIN Batch
  BY BatchType DEF Read
<1>2. CASE S = {}
  BY <1>2 DEF OffsetAfter, ConservedInv, PlainTypeOK
<1>3. CASE S # {}
  <2>1. Max(S) \in S /\ \A x \in S : x <= Max(S)
    BY <1>1, <1>3, MaxOf, BatchType
  <2>2. Batch[Max(S)] \in 0..(nextOffset - 1) /\ nextOffset \in Nat
    BY <2>1, <1>1, BatchType, Naturals
  <2>3. OffsetAfter(S) = Batch[Max(S)] + 1
    BY <1>3 DEF OffsetAfter
  <2> QED BY <1>3, <2>1, <2>2, <2>3
<1> QED BY <1>2, <1>3

LEMMA PollConserved == ConservedInv /\ Poll => ConservedInv'
<1> SUFFICES ASSUME ConservedInv, Poll PROVE ConservedInv'
  OBVIOUS
<1>0. /\ up /\ UNCHANGED core /\ UNCHANGED <<maint, cutoff, doubled, crossed, crashes, fails>>
      /\ offset' = OffsetAfter(Visited)
      /\ got' = [r \in Records |-> got[r] + Cardinality({i \in Polled : Batch[i] = r})]
  BY DEF Poll, Free, core, log, history, process
<1>1. PlainTypeOK'
  <2>1. offset' \in 0..nextOffset'
    <3>1. Visited \in SUBSET Read
      BY DEF Visited
    <3> QED BY <3>1, <1>0, OffsetAfterOf DEF core
  <2>2. \A r \in Records : Cardinality({i \in Polled : Batch[i] = r}) \in Nat
    <3> TAKE r \in Records
    <3>1. {i \in Polled : Batch[i] = r} \subseteq 1..Len(Batch)
      BY <1>0, BatchType DEF Polled, Visited, Read
    <3>2. IsFiniteSet(1..Len(Batch))
      BY <1>0, BatchType, FS_Interval
    <3> HIDE DEF Polled
    <3> QED BY <3>1, <3>2, FS_Subset, FS_CardinalityType
  <2>3. got' \in [Records -> Nat]
    <3> DEFINE n(r) == Cardinality({i \in Polled : Batch[i] = r})
    <3>1. \A r \in Records : n(r) \in Nat
      BY <2>2
    <3>2. got' = [r \in Records |-> got[r] + n(r)]
      BY <1>0
    <3> HIDE DEF n
    <3> QED BY <3>1, <3>2 DEF ConservedInv, PlainTypeOK
  <2> QED BY <2>1, <2>3, <1>0 DEF ConservedInv, PlainTypeOK, core
<1>2. BelowOK' /\ TopOK' /\ Accounted' /\ HeldOK'
  BY <1>0, CoreSame
<1>3. MemoryOK' /\ VictimsOK'
  BY <1>0 DEF ConservedInv, MemoryOK, VictimsOK, core, Done, Held, Lost
<1>5. StagedOK'
  BY <1>0 DEF ConservedInv, StagedOK, core, Places, Rec
<1>6. GoneOK'
  BY <1>0 DEF ConservedInv, GoneOK, core, Held, Lost, Done
<1> QED BY <1>1, <1>2, <1>3, <1>5, <1>6 DEF ConservedInv

-----------------------------------------------------------------------------
(* Steps that end something. *)

(* Nothing is left of the maintenance that a step ends. *)
Over(m) == m.victims = {} /\ m.left = {} /\ m.rest = {} /\ m.base = 0
           /\ m.step \in {"idle", "between"}

LEMMA OverOK ==
  /\ Over(Idle) /\ Over(Behind)
  /\ \A m : m \in {Idle, Behind} =>
       m \in [step : {"idle", "between", "retire", "clean", "write", "drop"},
              victims : SUBSET Bases, left : SUBSET Bases, base : Bases,
              rest : SUBSET (Bases \X Nat)]
BY MaintenanceAssumption DEF Over, Idle, Behind, Bases

LEMMA OverKeeps ==
  ASSUME Over(maint')
  PROVE  VictimsOK' /\ StagedOK'
BY DEF Over, VictimsOK, StagedOK, Done

LEMMA CrashConserved == ConservedInv /\ Crash => ConservedInv'
<1> SUFFICES ASSUME ConservedInv, Crash PROVE ConservedInv'
  OBVIOUS
<1>0. /\ ~up' /\ maint' = Idle /\ crashes' = crashes + 1
      /\ segs' = [b \in {} |-> NewSegment(0)] /\ up' = FALSE
      /\ UNCHANGED <<files, staged, nextOffset, cutoff, fails, offset, got,
                     retired, torn, doubled, crossed>>
  BY DEF Crash, consumer, history
<1>d. DOMAIN segs' = {}
  BY <1>0
<1>1. PlainTypeOK'
  <2>1. DOMAIN segs' \subseteq Bases /\ segs' \in [DOMAIN segs' -> Segment]
    BY <1>0
  <2>2. maint' \in [step : {"idle", "between", "retire", "clean", "write", "drop"},
                    victims : SUBSET Bases, left : SUBSET Bases, base : Bases,
                    rest : SUBSET (Bases \X Nat)]
    BY <1>0, OverOK
  <2>3. crashes' \in Nat
    <3>1. crashes \in Nat
      BY DEF ConservedInv, PlainTypeOK
    <3> QED BY <3>1, <1>0
  <2>5. up' \in BOOLEAN
    BY <1>0
  <2>4. UNCHANGED <<files, staged, nextOffset, cutoff, fails, offset, got, retired,
                    torn, doubled, crossed>>
    BY <1>0
  <2> QED BY <2>1, <2>2, <2>3, <2>4, <2>5 DEF ConservedInv, PlainTypeOK
<1>2. BelowOK' /\ HeldOK' /\ MemoryOK' /\ GoneOK'
  BY <1>0, <1>d DEF BelowOK, HeldOK, MemoryOK, GoneOK
<1>3. TopOK'
  BY <1>0 DEF ConservedInv, TopOK, IsTop
<1>4. Accounted'
  BY <1>0 DEF ConservedInv, Accounted, Contents, Lost
<1>5. VictimsOK' /\ StagedOK'
  BY <1>0, OverOK, OverKeeps
<1> QED BY <1>1, <1>2, <1>3, <1>4, <1>5 DEF ConservedInv

LEMMA StagingFailsConserved == ConservedInv /\ StagingFails => ConservedInv'
<1> SUFFICES ASSUME ConservedInv, StagingFails PROVE ConservedInv'
  OBVIOUS
<1>0. /\ up /\ maint.step = "write" /\ maint' = Idle /\ staged' = NoFiles
      /\ fails' = fails + 1
      /\ UNCHANGED <<files, segs, nextOffset, cutoff, offset, got, retired, torn,
                     doubled, crossed, up, crashes>>
  BY DEF StagingFails, log, consumer, history, process
<1>s. DOMAIN staged' = {}
  BY <1>0 DEF NoFiles
<1>1. PlainTypeOK'
  <2>1. DOMAIN staged' \subseteq Bases /\ staged' \in [DOMAIN staged' -> File]
    BY <1>0, <1>s DEF NoFiles
  <2> QED BY <2>1, <1>0, OverOK DEF ConservedInv, PlainTypeOK
<1>2. BelowOK' /\ HeldOK' /\ MemoryOK'
  BY <1>0 DEF ConservedInv, BelowOK, HeldOK, MemoryOK, Held, Lost
<1>3. TopOK'
  BY <1>0, <1>s DEF ConservedInv, TopOK, IsTop
<1>4. Accounted'
  <2>1. Done = {}
    BY <1>0 DEF ConservedInv, VictimsOK, Done
  <2>2. \A r \in 0..(nextOffset - 1) : r \in Lost \/ r \in Contents(files)
    <3> SUFFICES ASSUME NEW r \in 0..(nextOffset - 1), r \notin Lost
                 PROVE  r \in Contents(files)
      OBVIOUS
    <3>1. PICK b \in DOMAIN segs : r \in Held(b)
      BY <1>0 DEF ConservedInv, HeldOK
    <3>2. b \in DOMAIN files
      BY <3>1, <2>1, <1>0 DEF ConservedInv, GoneOK, Lost
    <3>3. r \in Range(files[b].recs)
      BY <3>1, <3>2, <1>0 DEF ConservedInv, MemoryOK, Held
    <3> QED BY <3>2, <3>3 DEF Contents
  <2>3. Contents(staged') = {}
    BY <1>s DEF Contents
  <2>4. Contents(files) \cup Lost \subseteq 0..(nextOffset - 1)
    BY DEF ConservedInv, Accounted
  <2> QED BY <2>2, <2>3, <2>4, <1>0 DEF Accounted, Contents, Lost
<1>5. VictimsOK' /\ StagedOK'
  BY <1>0, OverOK, OverKeeps
<1>6. GoneOK'
  BY <1>0 DEF ConservedInv, GoneOK, Held, Lost, Idle
<1> QED BY <1>1, <1>2, <1>3, <1>4, <1>5, <1>6 DEF ConservedInv

LEMMA RemovalEndsConserved == ConservedInv /\ RemovalEnds => ConservedInv'
<1> SUFFICES ASSUME ConservedInv, RemovalEnds PROVE ConservedInv'
  OBVIOUS
<1>0. /\ up /\ maint.step \in {"retire", "clean"} /\ maint.left = {}
      /\ segs' = Without(segs, maint.victims) /\ maint' = Behind
      /\ UNCHANGED <<files, staged, nextOffset, cutoff, offset, got, retired, torn,
                     doubled, crossed, up, crashes, fails>>
  BY DEF RemovalEnds, consumer, history, process
<1>s. /\ DOMAIN segs' = DOMAIN segs \ maint.victims
      /\ \A b \in DOMAIN segs' : segs'[b] = segs[b]
  BY <1>0 DEF Without
<1>d. /\ Done = maint.victims
      /\ \A v \in maint.victims : /\ segs[v].dead /\ v \notin DOMAIN files
                                  /\ Held(v) \subseteq retired
  <2>1. Done = maint.victims
    BY <1>0 DEF Done
  <2>2. Range(<<>>) = {}
    BY DEF Range
  <2> QED BY <2>1, <2>2, <1>0 DEF ConservedInv, VictimsOK, Held
<1>1. PlainTypeOK'
  <2>1. DOMAIN segs' \subseteq Bases /\ segs' \in [DOMAIN segs' -> Segment]
    BY <1>0 DEF Without, ConservedInv, PlainTypeOK
  <2> QED BY <2>1, <1>0, OverOK DEF ConservedInv, PlainTypeOK
<1>2. BelowOK'
  BY <1>0, <1>s DEF ConservedInv, BelowOK, Held
<1>3. TopOK'
  BY <1>0, <1>s, <1>d DEF ConservedInv, TopOK, IsTop
<1>4. MemoryOK'
  BY <1>0, <1>s, <1>d DEF ConservedInv, MemoryOK
<1>5. HeldOK'
  BY <1>0, <1>s, <1>d DEF ConservedInv, HeldOK, Held, Lost
<1>6. Accounted'
  BY <1>0 DEF ConservedInv, Accounted, Contents, Lost
<1>7. VictimsOK' /\ StagedOK'
  BY <1>0, OverOK, OverKeeps
<1>8. GoneOK'
  <2>1. Over(maint')
    BY <1>0, OverOK
  <2> QED BY <2>1, <1>0, <1>s DEF ConservedInv, GoneOK, Held, Lost, Over
<1> QED BY <1>1, <1>2, <1>3, <1>4, <1>5, <1>6, <1>7, <1>8 DEF ConservedInv

-----------------------------------------------------------------------------
(* A merge begins and is staged. *)

LEMMA MergeSegmentsConserved ==
  ASSUME ConservedInv, NEW c \in 0..nextOffset, c >= cutoff.merge, MergeSegments(c)
  PROVE  ConservedInv'
<1> DEFINE some == Candidates(c)
           base == Min(some)
<1>0. /\ up /\ maint.step = "between" /\ cutoff' = [cutoff EXCEPT !.merge = c]
      /\ UNCHANGED <<files, segs, nextOffset, offset, got, retired, torn,
                     doubled, up, crashes, fails>>
  BY DEF MergeSegments, log, consumer, process
<1>c. c \in Nat /\ cutoff'.merge = c /\ cutoff.merge \in Nat /\ cutoff' \in [retire : Nat, merge : Nat]
  BY <1>0 DEF ConservedInv, PlainTypeOK
<1>v. \A v \in some : v \in DOMAIN segs /\ v < Active /\ segs[v].created <= c
  <2>1. \A v \in some : v \in DOMAIN segs /\ v # Active /\ segs[v].created <= c
    BY DEF Candidates
  <2>2. \A v \in DOMAIN segs : v \in Nat
    BY MaintenanceAssumption DEF ConservedInv, PlainTypeOK, Bases
  <2> HIDE DEF some
  <2> QED BY <2>1, <2>2, <1>0, TopIsActive
<1>b. some \subseteq Bases /\ some \subseteq Nat
  BY <1>v, MaintenanceAssumption DEF ConservedInv, PlainTypeOK, Bases
<1>g. BelowOK' /\ HeldOK' /\ MemoryOK'
  BY <1>0 DEF ConservedInv, BelowOK, HeldOK, MemoryOK, Held, Lost
<1>1. CASE maint' = Idle /\ UNCHANGED <<staged, crossed>>
  <2>1. PlainTypeOK'
    BY <1>0, <1>1, <1>c, OverOK DEF ConservedInv, PlainTypeOK
  <2>2. TopOK' /\ Accounted'
    BY <1>0, <1>1, CoreSame DEF core
  <2>3. VictimsOK' /\ StagedOK'
    BY <1>1, OverOK, OverKeeps
  <2>4. GoneOK'
    <3>1. \A b \in DOMAIN segs : segs[b].created \in Nat
      BY DEF ConservedInv, PlainTypeOK, Segment
    <3>2. maint'.step = "idle"
      BY <1>1 DEF Idle
    <3> QED BY <3>1, <3>2, <1>0, <1>c DEF ConservedInv, GoneOK, Held, Lost
  <2> QED BY <1>g, <2>1, <2>2, <2>3, <2>4 DEF ConservedInv
<1>2. CASE Places(some) = {} /\ maint' = Removal("clean", some) /\ UNCHANGED <<staged, crossed>>
  <2>m. /\ maint'.step = "clean" /\ maint'.rest = {} /\ maint'.base = 0
        /\ maint'.victims = some /\ maint'.left = some
    BY <1>2 DEF Removal, Idle
  <2>1. PlainTypeOK'
    <3>1. maint' \in [step : {"idle", "between", "retire", "clean", "write", "drop"},
                 victims : SUBSET Bases, left : SUBSET Bases, base : Bases,
                 rest : SUBSET (Bases \X Nat)]
      <4>1. maint' = [step |-> "clean", victims |-> some, left |-> some, base |-> 0, rest |-> {}]
        BY <1>2 DEF Removal, Idle
      <4>2. some \in SUBSET Bases /\ 0 \in Bases
        BY <1>b, MaintenanceAssumption DEF Bases
      <4> HIDE DEF some
      <4> QED BY <4>1, <4>2
    <3> QED BY <3>1, <1>0, <1>2, <1>c DEF ConservedInv, PlainTypeOK
  <2>2. TopOK' /\ Accounted'
    BY <1>0, <1>2, CoreSame DEF core
  <2>3. \A v \in some : segs[v].recs = <<>>
    <3> SUFFICES ASSUME NEW v \in some PROVE segs[v].recs = <<>>
      OBVIOUS
    <3>1. segs[v].recs \in Seq(Records)
      BY <1>v DEF ConservedInv, PlainTypeOK, Segment
    <3>2. \A i \in DOMAIN segs[v].recs : <<v, i>> \in Places(some)
      BY InPlaces
    <3> HIDE DEF some
    <3>3. DOMAIN segs[v].recs = {}
      BY <3>2, <1>2
    <3>4. Range(segs[v].recs) = {}
      BY <3>3 DEF Range
    <3> QED BY <3>1, <3>4, RangeOfSeq
  <2>4. VictimsOK'
    <3>1. \A v \in some : \E a \in DOMAIN segs : v < a
      BY <1>v, <1>0, TopIsActive
    <3> HIDE DEF some
    <3> QED BY <2>m, <2>3, <3>1, <1>0, <1>c, <1>v DEF VictimsOK, Done
  <2>5. StagedOK'
    BY <2>m DEF StagedOK
  <2>6. GoneOK'
    <3>1. \A b \in DOMAIN segs : segs[b].created \in Nat
      BY DEF ConservedInv, PlainTypeOK, Segment
    <3> QED BY <3>1, <2>m, <1>0, <1>c DEF ConservedInv, GoneOK, Held, Lost
  <2> QED BY <1>g, <2>1, <2>2, <2>4, <2>5, <2>6 DEF ConservedInv
<1>3. CASE /\ Cardinality(some) >= MinMerge /\ ~Unreadable(some)
           /\ maint' = [Removal("write", some) EXCEPT !.base = base, !.rest = Places(some)]
           /\ staged' = IF base \in DOMAIN staged THEN staged
                        ELSE With(staged, base, [recs |-> <<>>, time |-> nextOffset])
           /\ crossed' = (crossed \/ Crosses(some))
  <2>m. /\ maint'.step = "write" /\ maint'.rest = Places(some) /\ maint'.base = base
        /\ maint'.victims = some /\ maint'.left = some
    BY <1>3 DEF Removal, Idle
  <2>n. base \in some /\ \A x \in some : base <= x
    <3>1. some # {}
      <4> HIDE DEF some
      <4> SUFFICES ASSUME some = {} PROVE FALSE
        OBVIOUS
      <4>1. Cardinality({}) = 0
        BY FS_EmptySet
      <4>2. Cardinality(some) = 0
        BY <4>1, Zenon
      <4>3. MinMerge \in Nat \ {0} /\ Cardinality(some) >= MinMerge
        BY <1>3, MaintenanceAssumption
      <4> QED BY <4>2, <4>3
    <3> HIDE DEF some
    <3> QED BY <3>1, <1>b, MinOf
  <2>s. /\ DOMAIN staged' = DOMAIN staged \cup {base}
        /\ \A b \in DOMAIN staged : staged'[b] = staged[b]
        /\ base \notin DOMAIN staged => staged'[base] = [recs |-> <<>>, time |-> nextOffset]
    BY <1>3 DEF With
  <2>1. PlainTypeOK'
    <3>1. Places(some) \subseteq Bases \X Nat
      <4> SUFFICES ASSUME NEW v \in some, NEW i \in DOMAIN segs[v].recs
                   PROVE  v \in Bases /\ i \in Nat
        BY DEF Places
      <4>1. segs[v].recs \in Seq(Records)
        BY <1>v DEF ConservedInv, PlainTypeOK, Segment
      <4> QED BY <4>1, <1>b
    <3>2. maint' \in [step : {"idle", "between", "retire", "clean", "write", "drop"},
                 victims : SUBSET Bases, left : SUBSET Bases, base : Bases,
                 rest : SUBSET (Bases \X Nat)]
      <4> DEFINE pl == Places(some)
      <4>1. pl \in SUBSET (Bases \X Nat) /\ some \in SUBSET Bases /\ base \in Bases
        BY <3>1, <1>b, <2>n
      <4>2. maint' = [step |-> "write", victims |-> some, left |-> some, base |-> base,
                      rest |-> pl]
        BY <1>3 DEF Removal, Idle
      <4> HIDE DEF pl, some, base
      <4> QED BY <4>1, <4>2
    <3>3. DOMAIN staged' \subseteq Bases /\ staged' \in [DOMAIN staged' -> File]
      <4>1. [recs |-> <<>>, time |-> nextOffset] \in File
        BY DEF ConservedInv, PlainTypeOK, File
      <4>2. staged \in [DOMAIN staged -> File] /\ DOMAIN staged \subseteq Bases
        BY DEF ConservedInv, PlainTypeOK
      <4> HIDE DEF base, some
      <4> QED BY <4>1, <4>2, <1>3, <1>b, <2>n DEF With
    <3>4. crossed' \in BOOLEAN
      BY <1>3 DEF ConservedInv, PlainTypeOK
    <3> QED BY <3>2, <3>3, <3>4, <1>0, <1>c DEF ConservedInv, PlainTypeOK
  <2>2. TopOK'
    <3>1. PICK m \in DOMAIN files : m = Active /\ IsTop(m)
      BY <1>0, TopIsActive
    <3>2. base < m
      BY <3>1, <2>n, <1>v
    <3>3. IsTop(m)'
      BY <3>1, <3>2, <2>s, <1>0 DEF IsTop
    <3> QED BY <3>3, <1>0 DEF TopOK
  <2>3. Accounted'
    <3>1. Range(<<>>) = {}
      BY DEF Range
    <3>2. Contents(staged') = Contents(staged)
      BY <2>s, <3>1 DEF Contents
    <3> QED BY <3>2, <1>0 DEF ConservedInv, Accounted, Lost, Contents
  <2>4. VictimsOK'
    <3>1. \A v \in some : \E a \in DOMAIN segs : v < a
      BY <1>v, <1>0, TopIsActive
    <3> HIDE DEF some
    <3> QED BY <2>m, <3>1, <1>0, <1>c, <1>v DEF VictimsOK, Done
  <2>5. StagedOK'
    <3> HIDE DEF some, base
    <3>1. Places(maint.victims)' = maint'.rest
      BY <1>0, <2>m DEF Places
    <3> QED BY <2>m, <2>n, <2>s, <3>1 DEF StagedOK
  <2>6. GoneOK'
    <3> SUFFICES ASSUME NEW b \in DOMAIN segs, b \notin DOMAIN files, ~(Held(b) \subseteq retired)
                 PROVE  FALSE
      BY <1>0 DEF GoneOK, Held
    <3>1. segs[b].created <= cutoff.merge /\ segs[b].dead
      BY <1>0 DEF ConservedInv, GoneOK, MemoryOK
    <3>2. segs[b].created <= c /\ b # Active
      <4>1. segs[b].created \in Nat
        BY DEF ConservedInv, PlainTypeOK, Segment
      <4> QED BY <4>1, <3>1, <1>c, <1>0, TopIsActive
    <3>3. b \in some
      BY <3>2 DEF Candidates
    <3>4. segs[b].recs = <<>>
      BY <3>1, <3>3, <1>3 DEF Unreadable
    <3> QED BY <3>4 DEF Held, Range
  <2> QED BY <1>g, <2>1, <2>2, <2>3, <2>4, <2>5, <2>6 DEF ConservedInv
<1>4. Cardinality(some) \in Nat
  <2>1. IsFiniteSet(Bases)
    BY FS_Interval, MaintenanceAssumption DEF Bases
  <2> QED BY <2>1, <1>b, FS_Subset, FS_CardinalityType
<1>5. Cardinality(some) < MinMerge \/ Cardinality(some) >= MinMerge
  BY <1>4, MaintenanceAssumption
<1>f. some \in SUBSET DOMAIN segs /\ (Places(some) # {} => FileOf(Min(some)) = base)
  BY OwnFileOfMin DEF Candidates
<1> HIDE DEF some, base
<1> QED
  <2>1. \/ maint' = Idle /\ UNCHANGED <<staged, crossed>>
        \/ Places(some) = {} /\ maint' = Removal("clean", some) /\ UNCHANGED <<staged, crossed>>
        \/ /\ Cardinality(some) >= MinMerge /\ ~Unreadable(some)
           /\ maint' = [Removal("write", some) EXCEPT !.base = base, !.rest = Places(some)]
           /\ staged' = IF base \in DOMAIN staged THEN staged
                        ELSE With(staged, base, [recs |-> <<>>, time |-> nextOffset])
           /\ crossed' = (crossed \/ Crosses(some))
    BY <1>5, <1>f, Zenon DEF MergeSegments, some
  <2> QED BY <2>1, <1>1, <1>2, <1>3

LEMMA WriteStagedConserved == ConservedInv /\ WriteStaged => ConservedInv'
<1> SUFFICES ASSUME ConservedInv, WriteStaged PROVE ConservedInv'
  OBVIOUS
<1>0. /\ up /\ maint.step = "write"
      /\ UNCHANGED <<files, segs, nextOffset, cutoff, offset, got, retired, torn,
                     doubled, crossed, up, crashes, fails>>
  BY DEF WriteStaged, log, consumer, history, process
<1> DEFINE old == staged[maint.base]
<1>1. PICK p \in maint.rest :
        /\ staged' = With(staged, maint.base,
                          [recs |-> Append(old.recs, Rec(p)), time |-> nextOffset])
        /\ maint' = [maint EXCEPT !.rest = @ \ {p}]
  BY DEF WriteStaged, Rec
<1>m. /\ maint'.step = "write" /\ maint'.rest = maint.rest \ {p} /\ maint'.base = maint.base
      /\ maint'.victims = maint.victims /\ maint'.left = maint.left
  BY <1>0, <1>1 DEF ConservedInv, PlainTypeOK
<1>b. /\ maint.base \in DOMAIN staged /\ old.recs \in Seq(Records)
      /\ maint.base \in Bases /\ nextOffset \in Nat
  BY <1>0 DEF ConservedInv, StagedOK, PlainTypeOK, File
<1>r. /\ p[1] \in maint.victims /\ p[1] \in DOMAIN segs
      /\ Rec(p) \in Held(p[1]) /\ Rec(p) \in 0..(nextOffset - 1) /\ Rec(p) \in Records
  <2>1. p \in Places(maint.victims)
    BY <1>0 DEF ConservedInv, StagedOK
  <2>2. PICK v \in maint.victims : p \in {v} \X DOMAIN segs[v].recs
    BY <2>1 DEF Places
  <2>3. p[1] = v /\ p[2] \in DOMAIN segs[v].recs
    BY <2>2
  <2>4. v \in DOMAIN segs
    BY DEF ConservedInv, VictimsOK
  <2>5. Rec(p) \in Held(v)
    BY <2>3 DEF Rec, Held, Range
  <2>6. Held(v) \subseteq 0..(nextOffset - 1)
    BY <2>4 DEF ConservedInv, BelowOK
  <2>7. 0..(nextOffset - 1) \subseteq Records
    <3>1. nextOffset \in 0..MaxRecords
      BY DEF ConservedInv, PlainTypeOK
    <3> QED BY <3>1, MaintenanceAssumption DEF Records
  <2> QED BY <2>3, <2>4, <2>5, <2>6, <2>7
<1>s. /\ DOMAIN staged' = DOMAIN staged
      /\ \A b \in DOMAIN staged : b # maint.base => staged'[b] = staged[b]
      /\ staged'[maint.base].recs \in Seq(Records)
      /\ Range(staged'[maint.base].recs) = Range(old.recs) \cup {Rec(p)}
      /\ staged'[maint.base] \in File
  <2>1. /\ Append(old.recs, Rec(p)) \in Seq(Records)
        /\ Range(Append(old.recs, Rec(p))) = Range(old.recs) \cup {Rec(p)}
    BY <1>b, <1>r, RangeOfAppend
  <2> DEFINE new == Append(old.recs, Rec(p))
  <2> HIDE DEF new, old
  <2>2. staged'[maint.base] = [recs |-> new, time |-> nextOffset]
    BY <1>1, <1>b DEF With, new
  <2>3. /\ DOMAIN staged' = DOMAIN staged
        /\ \A b \in DOMAIN staged : b # maint.base => staged'[b] = staged[b]
    BY <1>1, <1>b DEF With
  <2>4. staged'[maint.base].recs = new /\ staged'[maint.base] \in File
    BY <2>1, <2>2, <1>b DEF new, File
  <2> QED BY <2>1, <2>3, <2>4 DEF new
<1> HIDE DEF old
<1>2. PlainTypeOK'
  <2>1. DOMAIN staged' \subseteq Bases /\ staged' \in [DOMAIN staged' -> File]
    <3>1. \A b \in DOMAIN staged' : staged'[b] \in File
      BY <1>s DEF ConservedInv, PlainTypeOK
    <3>2. staged' = [b \in DOMAIN staged' |-> staged'[b]]
      BY <1>1 DEF With
    <3> QED BY <3>1, <3>2, <1>s DEF ConservedInv, PlainTypeOK
  <2>2. maint' \in [step : {"idle", "between", "retire", "clean", "write", "drop"},
               victims : SUBSET Bases, left : SUBSET Bases, base : Bases,
               rest : SUBSET (Bases \X Nat)]
    BY <1>1 DEF ConservedInv, PlainTypeOK
  <2> QED BY <2>1, <2>2, <1>0 DEF ConservedInv, PlainTypeOK
<1>3. BelowOK' /\ HeldOK' /\ MemoryOK'
  BY <1>0 DEF ConservedInv, BelowOK, HeldOK, MemoryOK, Held, Lost
<1>4. TopOK'
  BY <1>0, <1>s DEF ConservedInv, TopOK, IsTop
<1>5. Accounted'
  <2>1. Contents(staged') = Contents(staged) \cup {Rec(p)}
    <3> SUFFICES ASSUME NEW r
                 PROVE  r \in Contents(staged') <=> r \in Contents(staged) \/ r = Rec(p)
      OBVIOUS
    <3> QED BY <1>s, <1>b, InContents DEF old
  <2> QED BY <2>1, <1>r, <1>0 DEF ConservedInv, Accounted, Lost, Contents
<1>6. VictimsOK'
  BY <1>0, <1>m DEF ConservedInv, VictimsOK, Done, Held, Lost
<1>7. StagedOK'
  <2>1. Places(maint.victims)' = Places(maint.victims)
    BY <1>0, <1>m DEF Places
  <2>2. StagedOK
    BY DEF ConservedInv
  <2>3. \A q \in Places(maint.victims) \ maint'.rest : Rec(q)' \in Range(staged'[maint.base].recs)
    <3> TAKE q \in Places(maint.victims) \ maint'.rest
    <3>1. Rec(q)' = Rec(q)
      BY <1>0 DEF Rec
    <3>2. CASE q = p
      BY <3>1, <3>2, <1>s
    <3>3. CASE q \notin maint.rest
      BY <3>1, <3>3, <2>2, <1>0, <1>s DEF StagedOK, old
    <3> QED BY <3>2, <3>3, <1>m
  <2> QED BY <2>1, <2>2, <2>3, <1>0, <1>m, <1>s DEF StagedOK
<1>8. GoneOK'
  BY <1>0, <1>m DEF ConservedInv, GoneOK, Held, Lost, Done
<1> QED BY <1>2, <1>3, <1>4, <1>5, <1>6, <1>7, <1>8 DEF ConservedInv

-----------------------------------------------------------------------------
(* Removals. *)

(* What a removal does to the log, whether it goes on or fails behind it. *)
Removes(deleted) ==
  /\ Removing /\ maint.left # {}
  /\ segs' = Killed(Victim)
  /\ files' = IF deleted THEN Without(files, {Victim}) ELSE files
  /\ retired' = IF deleted THEN Retired(Victim) ELSE retired
  /\ UNCHANGED <<staged, nextOffset, cutoff, offset, got, torn, doubled, crossed, up, crashes>>

(* When the staged segment is complete it has what the victims hold. *)
LEMMA StagedHolds ==
  ASSUME ConservedInv, maint.step = "drop", NEW v \in maint.victims
  PROVE  Held(v) \subseteq Range(staged[maint.base].recs)
<1> SUFFICES ASSUME NEW i \in DOMAIN segs[v].recs
             PROVE  segs[v].recs[i] \in Range(staged[maint.base].recs)
  BY DEF Held, Range
<1>1. <<v, i>> \in Places(maint.victims)
  BY InPlaces
<1>2. maint.rest = {}
  BY DEF ConservedInv, StagedOK
<1>3. Rec(<<v, i>>) \in Range(staged[maint.base].recs)
  BY <1>1, <1>2 DEF ConservedInv, StagedOK
<1> QED BY <1>3 DEF Rec

LEMMA VictimOK ==
  ASSUME ConservedInv, Removing, maint.left # {}
  PROVE  /\ Victim \in maint.left /\ \A x \in maint.left : Victim <= x
         /\ Victim \in maint.victims /\ Victim \in DOMAIN segs /\ Victim < Active
<1>1. maint.left \in SUBSET Nat
  BY MaintenanceAssumption DEF ConservedInv, PlainTypeOK, Bases
<1>2. Victim \in maint.left /\ \A x \in maint.left : Victim <= x
  BY <1>1, MinOf DEF Victim
<1>3. Victim \in maint.victims /\ Victim \in DOMAIN segs /\ \E a \in DOMAIN segs : Victim < a
  BY <1>2 DEF ConservedInv, VictimsOK
<1>4. up /\ \A b \in DOMAIN segs : b \in Nat
  BY MaintenanceAssumption DEF Removing, ConservedInv, PlainTypeOK, Bases
<1> QED BY <1>2, <1>3, <1>4, TopIsActive

LEMMA VictimFile ==
  ASSUME ConservedInv, Removing, maint.left # {}
  PROVE  FileOf(Victim) = Victim
<1>1. Victim \in DOMAIN segs
  BY VictimOK
<1> QED BY <1>1, OwnFile

LEMMA RemovesConserved ==
  ASSUME ConservedInv, NEW deleted \in BOOLEAN, Removes(deleted)
  PROVE  /\ DOMAIN files' \subseteq Bases /\ files' \in [DOMAIN files' -> File]
         /\ DOMAIN segs' \subseteq Bases /\ segs' \in [DOMAIN segs' -> Segment]
         /\ retired' \subseteq Records /\ retired \subseteq retired'
         /\ DOMAIN segs' = DOMAIN segs
         /\ \A b \in DOMAIN segs : /\ segs'[b].recs = segs[b].recs
                                   /\ segs'[b].created = segs[b].created
                                   /\ segs'[b].dead = (segs[b].dead \/ b = Victim)
         /\ DOMAIN files' = IF deleted THEN DOMAIN files \ {Victim} ELSE DOMAIN files
         /\ \A b \in DOMAIN files' : files'[b] = files[b]
         /\ deleted /\ Victim \in DOMAIN files /\ maint.step = "retire" => Held(Victim) \subseteq retired'
         /\ BelowOK' /\ TopOK' /\ MemoryOK' /\ HeldOK' /\ Accounted'
<1> DEFINE v == Victim
<1>v. /\ up /\ v \in maint.left /\ v \in maint.victims /\ v \in DOMAIN segs /\ v < Active
      /\ v \in Nat
  <2>1. up /\ Removing /\ maint.left # {}
    BY DEF Removes, Removing
  <2> QED BY <2>1, VictimOK, MaintenanceAssumption DEF ConservedInv, PlainTypeOK, Bases
<1>0. /\ segs' = [segs EXCEPT ![v].dead = TRUE]
      /\ files' = IF deleted THEN [b \in DOMAIN files \ {v} |-> files[b]] ELSE files
      /\ retired' = IF deleted THEN Retired(v) ELSE retired
      /\ UNCHANGED <<staged, nextOffset, torn, up>>
  BY DEF Removes, Killed, Without
<1> HIDE DEF v
<1>s. /\ DOMAIN segs' = DOMAIN segs /\ segs' \in [DOMAIN segs -> Segment]
      /\ \A b \in DOMAIN segs : /\ segs'[b].recs = segs[b].recs
                                /\ segs'[b].created = segs[b].created
                                /\ segs'[b].dead = (segs[b].dead \/ b = v)
  <2>1. segs \in [DOMAIN segs -> Segment]
    BY DEF ConservedInv, PlainTypeOK
  <2>2. DOMAIN segs' = DOMAIN segs /\ segs' \in [DOMAIN segs -> Segment]
    BY <2>1, <1>0, <1>v DEF Segment
  <2>3. \A b \in DOMAIN segs : b # v => segs'[b] = segs[b]
    BY <1>0
  <2>4. segs'[v] = [segs[v] EXCEPT !.dead = TRUE] /\ segs[v] \in Segment
    BY <1>0, <1>v, <2>1
  <2>5. segs'[v].recs = segs[v].recs /\ segs'[v].created = segs[v].created /\ segs'[v].dead = TRUE
    BY <2>4 DEF Segment
  <2>6. \A b \in DOMAIN segs : segs[b].dead \in BOOLEAN
    BY <2>1 DEF Segment
  <2>7. \A b \in DOMAIN segs : /\ segs'[b].recs = segs[b].recs
                               /\ segs'[b].created = segs[b].created
    BY <2>3, <2>5
  <2>8. \A b \in DOMAIN segs : segs'[b].dead = (segs[b].dead \/ b = v)
    <3> TAKE b \in DOMAIN segs
    <3>1. CASE b = v
      BY <3>1, <2>5
    <3>2. CASE b # v
      BY <3>2, <2>3, <2>6
    <3> QED BY <3>1, <3>2
  <2> QED BY <2>2, <2>7, <2>8
<1>f. /\ DOMAIN files' = IF deleted THEN DOMAIN files \ {v} ELSE DOMAIN files
      /\ \A b \in DOMAIN files' : files'[b] = files[b]
      /\ DOMAIN files' \subseteq Bases /\ files' \in [DOMAIN files' -> File]
  BY <1>0 DEF ConservedInv, PlainTypeOK
<1>r. /\ retired \subseteq retired' /\ retired' \subseteq Records
      /\ deleted /\ v \in DOMAIN files /\ maint.step = "retire" => Held(v) \subseteq retired'
      /\ retired' \subseteq retired \cup Held(v)
  <2>1. v \in DOMAIN files => files[v].recs = segs[v].recs
    BY <1>v DEF ConservedInv, MemoryOK
  <2>2. segs[v].recs \in Seq(Records) /\ retired \subseteq Records
    BY <1>v DEF ConservedInv, PlainTypeOK, Segment
  <2>3. Held(v) \subseteq Records
    BY <2>2, RangeOfSeq DEF Held
  <2>4. \/ retired' = retired /\ ~(deleted /\ v \in DOMAIN files /\ maint.step = "retire")
        \/ retired' = retired \cup Held(v)
    BY <2>1, <1>0, <1>v, OwnFile DEF Retired, Held
  <2> QED BY <2>2, <2>3, <2>4
<1>1. BelowOK'
  BY <1>s, <1>0 DEF ConservedInv, BelowOK, Held
<1>2. TopOK'
  <2>1. PICK m \in DOMAIN files : m = Active /\ IsTop(m)
    BY <1>v, TopIsActive
  <2>2. v # m
    BY <2>1, <1>v
  <2>3. m \in DOMAIN files' /\ files'[m] = files[m] /\ DOMAIN files' \subseteq DOMAIN files
    BY <2>1, <2>2, <1>f
  <2>4. m \in DOMAIN segs /\ ~segs[m].dead /\ \A b \in DOMAIN segs : b <= m
    BY <2>1, <1>v DEF IsTop
  <2>5. ~segs'[m].dead
    BY <2>4, <2>2, <1>s
  <2>6. IsTop(m)'
    BY <2>1, <2>3, <2>4, <2>5, <1>s, <1>0 DEF IsTop
  <2> QED BY <2>3, <2>6 DEF TopOK
<1>3. MemoryOK'
  BY <1>s, <1>f, <1>v, <1>0 DEF ConservedInv, MemoryOK
<1>4. HeldOK'
  BY <1>s, <1>0, <1>r, <1>v DEF ConservedInv, HeldOK, Held, Lost
<1>5. Accounted'
  <2>c. 0..(nextOffset - 1) = Contents(files) \cup Contents(staged) \cup Lost
    BY DEF ConservedInv, Accounted
  <2>1. Contents(files') \subseteq Contents(files)
    <3> SUFFICES ASSUME NEW r \in Contents(files') PROVE r \in Contents(files)
      OBVIOUS
    <3> QED BY <1>f, InContents
  <2>2. Lost' = retired' \cup torn /\ Lost = retired \cup torn
    BY <1>0 DEF Lost
  <2>3. Held(v) \subseteq 0..(nextOffset - 1)
    BY <1>v DEF ConservedInv, BelowOK
  <2>4. \A r \in Contents(files) : r \in Contents(files') \cup Contents(staged) \cup Lost'
    <3> SUFFICES ASSUME NEW r \in Contents(files), r \notin Contents(files')
                 PROVE  r \in Contents(staged) \/ r \in retired'
      BY <2>2
    <3>1. PICK b \in DOMAIN files : r \in Range(files[b].recs)
      BY InContents
    <3>2. b = v /\ deleted
      BY <3>1, <1>f, InContents
    <3>3. r \in Held(v)
      BY <3>1, <3>2, <1>v DEF ConservedInv, MemoryOK, Held
    <3>4. CASE maint.step = "retire"
      BY <3>1, <3>2, <3>3, <3>4, <1>r
    <3>5. CASE maint.step = "clean"
      <4>1. segs[v].recs = <<>>
        BY <3>5, <1>v DEF ConservedInv, VictimsOK
      <4> QED BY <4>1, <3>3 DEF Held, Range
    <3>6. CASE maint.step = "drop"
      <4>1. r \in Range(staged[maint.base].recs) /\ maint.base \in DOMAIN staged
        BY <3>3, <3>6, <1>v, StagedHolds DEF ConservedInv, StagedOK
      <4> QED BY <4>1, InContents
    <3>7. maint.step \in {"retire", "clean", "drop"}
      BY DEF Removes, Removing
    <3> QED BY <3>4, <3>5, <3>6, <3>7
  <2>5. Contents(staged') = Contents(staged) /\ nextOffset' = nextOffset
    BY <1>0
  <2>6. Contents(files)' = Contents(files') /\ Contents(staged)' = Contents(staged')
    BY DEF Contents
  <2>7. 0..(nextOffset - 1) = Contents(files') \cup Contents(staged) \cup Lost'
    BY <2>c, <2>1, <2>2, <2>3, <2>4, <1>r
  <2> QED BY <2>5, <2>6, <2>7 DEF Accounted
<1>6. v = Victim
  BY DEF v
<1>7. /\ \A b \in DOMAIN segs : /\ segs'[b].recs = segs[b].recs
                                /\ segs'[b].created = segs[b].created
                                /\ segs'[b].dead = (segs[b].dead \/ b = Victim)
      /\ DOMAIN segs' = DOMAIN segs /\ segs' \in [DOMAIN segs' -> Segment]
      /\ DOMAIN segs' \subseteq Bases
  <2>1. DOMAIN segs \subseteq Bases
    BY DEF ConservedInv, PlainTypeOK
  <2> QED BY <2>1, <1>6, <1>s, Zenon
<1>8. /\ DOMAIN files' = IF deleted THEN DOMAIN files \ {Victim} ELSE DOMAIN files
      /\ \A b \in DOMAIN files' : files'[b] = files[b]
      /\ DOMAIN files' \subseteq Bases /\ files' \in [DOMAIN files' -> File]
  BY <1>6, <1>f, Zenon
<1>9. /\ retired' \subseteq Records /\ retired \subseteq retired'
      /\ deleted /\ Victim \in DOMAIN files /\ maint.step = "retire" => Held(Victim) \subseteq retired'
  BY <1>6, <1>r, Zenon
<1> QED BY <1>7, <1>8, <1>9, <1>1, <1>2, <1>3, <1>4, <1>5, Zenon

LEMMA RemoveNextConserved == ConservedInv /\ RemoveNext => ConservedInv'
<1> SUFFICES ASSUME ConservedInv, RemoveNext PROVE ConservedInv'
  OBVIOUS
<1> DEFINE v == Victim
<1>0. /\ Removes(TRUE) /\ Removing /\ maint.left # {} /\ ~segs[v].dead
      /\ maint' = [maint EXCEPT !.left = @ \ {v}]
      /\ UNCHANGED <<staged, nextOffset, cutoff, offset, got, torn, doubled, crossed,
                     up, crashes, fails>>
  BY VictimFile DEF RemoveNext, Removes, consumer, process
<1>m. /\ maint'.step = maint.step /\ maint'.rest = maint.rest /\ maint'.base = maint.base
      /\ maint'.victims = maint.victims /\ maint'.left = maint.left \ {v}
  BY <1>0 DEF ConservedInv, PlainTypeOK
<1>v. /\ v \in maint.left /\ v \in maint.victims /\ v \in DOMAIN segs
      /\ v \in DOMAIN files /\ up
  <2>1. v \in maint.left /\ v \in maint.victims /\ v \in DOMAIN segs
    BY <1>0, VictimOK
  <2>2. up
    BY <1>0 DEF Removing
  <2> QED BY <2>1, <2>2, <1>0 DEF ConservedInv, MemoryOK
<1>r. /\ DOMAIN files' \subseteq Bases /\ files' \in [DOMAIN files' -> File]
      /\ DOMAIN segs' \subseteq Bases /\ segs' \in [DOMAIN segs' -> Segment]
      /\ retired' \subseteq Records /\ retired \subseteq retired'
      /\ DOMAIN segs' = DOMAIN segs
      /\ \A b \in DOMAIN segs : /\ segs'[b].recs = segs[b].recs
                                /\ segs'[b].created = segs[b].created
                                /\ segs'[b].dead = (segs[b].dead \/ b = v)
      /\ DOMAIN files' = DOMAIN files \ {v}
      /\ \A b \in DOMAIN files' : files'[b] = files[b]
      /\ maint.step = "retire" => Held(v) \subseteq retired'
  BY <1>0, <1>v, RemovesConserved
<1>k. BelowOK' /\ TopOK' /\ MemoryOK' /\ HeldOK' /\ Accounted'
  BY <1>0, RemovesConserved
<1>d. Done' = Done \cup {v}
  BY <1>m, <1>v DEF Done
<1>s. maint.step \in {"retire", "clean", "drop"}
  BY <1>0 DEF Removing
<1>h. Lost \subseteq Lost' /\ retired' \subseteq Lost' /\ \A b \in DOMAIN segs : Held(b)' = Held(b)
  BY <1>r, <1>0 DEF Lost, Held
<1> HIDE DEF v
<1>1. PlainTypeOK'
  <2>1. maint' \in [step : {"idle", "between", "retire", "clean", "write", "drop"},
               victims : SUBSET Bases, left : SUBSET Bases, base : Bases,
               rest : SUBSET (Bases \X Nat)]
    BY <1>0 DEF ConservedInv, PlainTypeOK
  <2> QED BY <2>1, <1>0, <1>r DEF ConservedInv, PlainTypeOK
<1>2. VictimsOK'
  <2>1. VictimsOK
    BY DEF ConservedInv
  <2>2. \A x \in Done' : segs'[x].dead /\ x \notin DOMAIN files'
    <3> TAKE x \in Done'
    <3>1. x \in DOMAIN segs
      BY <2>1, <1>d, <1>v DEF VictimsOK, Done
    <3>2. CASE x = v
      BY <3>1, <3>2, <1>r
    <3>3. CASE x \in Done
      BY <3>1, <3>3, <1>r, <2>1 DEF VictimsOK
    <3> QED BY <3>2, <3>3, <1>d
  <2>3. maint.step = "retire" => \A x \in Done' : Held(x)' \subseteq retired'
    <3> SUFFICES ASSUME maint.step = "retire", NEW x \in Done' PROVE Held(x)' \subseteq retired'
      OBVIOUS
    <3>1. x \in DOMAIN segs
      BY <2>1, <1>d, <1>v DEF VictimsOK, Done
    <3>2. Held(x) \subseteq retired'
      BY <2>1, <1>d, <1>r DEF VictimsOK
    <3> QED BY <3>1, <3>2, <1>h
  <2>4. \A x \in maint.victims : x \in DOMAIN segs
    BY <2>1 DEF VictimsOK
  <2>5. maint.step = "clean" => \A x \in maint.victims : segs'[x].recs = <<>>
    BY <2>1, <2>4, <1>r DEF VictimsOK
  <2>6. maint.step \in {"clean", "drop"} => \A x \in maint.victims : segs'[x].created <= cutoff.merge
    BY <2>1, <2>4, <1>r DEF VictimsOK
  <2>7. maint'.left \subseteq maint.victims /\ \A x \in maint.victims : \E a \in DOMAIN segs : x < a
    BY <2>1, <1>m DEF VictimsOK
  <2> QED BY <2>2, <2>3, <2>4, <2>5, <2>6, <2>7, <1>m, <1>s, <1>0, <1>r DEF VictimsOK
<1>3. StagedOK'
  <2>1. StagedOK /\ \A x \in maint.victims : x \in DOMAIN segs
    BY DEF ConservedInv, VictimsOK
  <2>2. Places(maint.victims)' = Places(maint.victims)
    BY <2>1, <1>m, <1>r DEF Places
  <2>3. \A p \in Places(maint.victims) : Rec(p)' = Rec(p)
    <3> TAKE p \in Places(maint.victims)
    <3>1. PICK b \in maint.victims : \E i \in DOMAIN segs[b].recs : p = <<b, i>>
      BY InPlaces
    <3> QED BY <3>1, <2>1, <1>r DEF Rec
  <2> QED BY <2>1, <2>2, <2>3, <1>m, <1>0 DEF StagedOK
<1>4. GoneOK'
  <2> SUFFICES ASSUME NEW b \in DOMAIN segs, b \notin DOMAIN files', ~(Held(b) \subseteq retired')
               PROVE  /\ segs[b].created <= cutoff.merge
                      /\ maint.step \in {"write", "drop"} => b \in Done'
    BY <1>r, <1>h, <1>m, <1>0 DEF GoneOK
  <2>1. CASE b \notin DOMAIN files
    BY <2>1, <1>r, <1>d DEF ConservedInv, GoneOK
  <2>2. CASE b = v
    <3>1. maint.step # "retire"
      BY <2>2, <1>r, <1>h
    <3>2. segs[v].created <= cutoff.merge
      BY <3>1, <1>s, <1>v DEF ConservedInv, VictimsOK
    <3> QED BY <3>2, <2>2, <1>d
  <2> QED BY <2>1, <2>2, <1>r
<1> QED BY <1>k, <1>1, <1>2, <1>3, <1>4 DEF ConservedInv

LEMMA RemoveFailsConserved ==
  ASSUME ConservedInv, NEW deleted \in BOOLEAN, RemoveFails(deleted)
  PROVE  ConservedInv'
<1> DEFINE v == Victim
<1>0. /\ Removes(deleted) /\ Removing /\ maint.left # {} /\ maint' = Behind
      /\ fails' = fails \/ fails' = fails + 1
      /\ UNCHANGED <<staged, nextOffset, cutoff, offset, got, torn, doubled, crossed, up, crashes>>
  BY VictimFile DEF RemoveFails, Removes, consumer, process
<1>r. /\ DOMAIN files' \subseteq Bases /\ files' \in [DOMAIN files' -> File]
      /\ DOMAIN segs' \subseteq Bases /\ segs' \in [DOMAIN segs' -> Segment]
      /\ retired' \subseteq Records /\ retired \subseteq retired'
      /\ DOMAIN segs' = DOMAIN segs
      /\ \A b \in DOMAIN segs : /\ segs'[b].recs = segs[b].recs
                                /\ segs'[b].created = segs[b].created
      /\ DOMAIN files' = IF deleted THEN DOMAIN files \ {v} ELSE DOMAIN files
      /\ deleted /\ v \in DOMAIN files /\ maint.step = "retire" => Held(v) \subseteq retired'
  BY <1>0, RemovesConserved
<1>k. BelowOK' /\ TopOK' /\ MemoryOK' /\ HeldOK' /\ Accounted'
  BY <1>0, RemovesConserved
<1>v. v \in maint.left /\ v \in maint.victims /\ v \in DOMAIN segs
  BY <1>0, VictimOK
<1>s. maint.step \in {"retire", "clean", "drop"}
  BY <1>0 DEF Removing
<1>h. Lost \subseteq Lost' /\ retired' \subseteq Lost' /\ \A b \in DOMAIN segs : Held(b)' = Held(b)
  BY <1>r, <1>0 DEF Lost, Held
<1>m. Over(maint')
  BY <1>0, OverOK
<1> HIDE DEF v
<1>1. PlainTypeOK'
  <2>1. maint' \in [step : {"idle", "between", "retire", "clean", "write", "drop"},
               victims : SUBSET Bases, left : SUBSET Bases, base : Bases,
               rest : SUBSET (Bases \X Nat)]
    BY <1>0, OverOK
  <2>2. fails' \in Nat
    <3>1. fails \in Nat
      BY DEF ConservedInv, PlainTypeOK
    <3> QED BY <3>1, <1>0
  <2> QED BY <2>1, <2>2, <1>0, <1>r DEF ConservedInv, PlainTypeOK
<1>2. VictimsOK' /\ StagedOK'
  BY <1>m, OverKeeps
<1>3. GoneOK'
  <2> SUFFICES ASSUME NEW b \in DOMAIN segs, b \notin DOMAIN files', ~(Held(b) \subseteq retired')
               PROVE  segs[b].created <= cutoff.merge
    BY <1>r, <1>h, <1>m, <1>0 DEF GoneOK, Over
  <2>1. CASE b \notin DOMAIN files
    BY <2>1, <1>r DEF ConservedInv, GoneOK
  <2>2. CASE b = v /\ b \in DOMAIN files
    <3>1. maint.step # "retire"
      BY <2>2, <1>r, <1>h
    <3> QED BY <3>1, <2>2, <1>s, <1>v DEF ConservedInv, VictimsOK
  <2> QED BY <2>1, <2>2, <1>r
<1> QED BY <1>k, <1>1, <1>2, <1>3 DEF ConservedInv

-----------------------------------------------------------------------------
(* The staged segment takes the victims' place. *)

LEMMA OpenedOK ==
  ASSUME ConservedInv, NEW file \in File
  PROVE  /\ Opened(file) \in Segment
         /\ Opened(file).recs = file.recs /\ Opened(file).dead = FALSE
BY DEF Opened, Segment, File, ConservedInv, PlainTypeOK

LEMMA SwapFacts ==
  ASSUME ConservedInv, Swap
  PROVE  /\ up /\ maint.step = "drop" /\ maint.left = {} /\ maint' = Idle /\ staged' = NoFiles
         /\ UNCHANGED <<nextOffset, cutoff, offset, got, retired, torn, doubled, crossed,
                        up, crashes, fails>>
         /\ maint.base \in maint.victims /\ maint.base \in DOMAIN staged
         /\ staged[maint.base] \in File
         /\ DOMAIN files' = DOMAIN files \cup {maint.base}
         /\ files'[maint.base] = staged[maint.base]
         /\ \A b \in DOMAIN files : b # maint.base => files'[b] = files[b]
         /\ DOMAIN segs' = (DOMAIN segs \ maint.victims) \cup {maint.base}
         /\ segs'[maint.base] = Opened(staged[maint.base])
         /\ \A b \in DOMAIN segs \ maint.victims : segs'[b] = segs[b]
         /\ Done = maint.victims
         /\ \A v \in maint.victims : v \in DOMAIN segs /\ v < Active /\ v \notin DOMAIN files
         /\ \A b \in DOMAIN segs \ maint.victims : b \in DOMAIN files \/ Held(b) \subseteq retired
<1> DEFINE base == maint.base
           file == staged[base]
           kept == Without(segs, maint.victims)
<1>1. /\ up /\ maint.step = "drop" /\ maint.left = {} /\ maint' = Idle /\ staged' = NoFiles
      /\ UNCHANGED <<nextOffset, cutoff, offset, got, retired, torn, doubled, crossed,
                     up, crashes, fails>>
      /\ files' = With(files, base, file) /\ segs' = With(kept, base, Opened(file))
  BY DEF Swap, consumer, history, process
<1>2. base \in maint.victims /\ base \in DOMAIN staged /\ file \in File
  BY <1>1 DEF ConservedInv, StagedOK, PlainTypeOK
<1>3. /\ DOMAIN kept = DOMAIN segs \ maint.victims
      /\ \A b \in DOMAIN segs \ maint.victims : kept[b] = segs[b]
  BY DEF Without
<1>4. Done = maint.victims
  BY <1>1 DEF Done
<1>5. \A v \in maint.victims : v \in DOMAIN segs /\ v < Active /\ v \notin DOMAIN files
  <2>1. \A v \in maint.victims : /\ v \in DOMAIN segs /\ v \notin DOMAIN files
                                 /\ \E a \in DOMAIN segs : v < a
    BY <1>4 DEF ConservedInv, VictimsOK
  <2>2. \A v \in DOMAIN segs : v \in Nat
    BY MaintenanceAssumption DEF ConservedInv, PlainTypeOK, Bases
  <2> QED BY <2>1, <2>2, <1>1, TopIsActive
<1>6. \A b \in DOMAIN segs \ maint.victims : b \in DOMAIN files \/ Held(b) \subseteq retired
  BY <1>1, <1>4 DEF ConservedInv, GoneOK
<1>7. /\ DOMAIN files' = DOMAIN files \cup {base} /\ files'[base] = file
      /\ \A b \in DOMAIN files : b # base => files'[b] = files[b]
  <2>1. /\ DOMAIN With(files, base, file) = DOMAIN files \cup {base}
        /\ With(files, base, file)[base] = file
        /\ \A b \in DOMAIN files : b # base => With(files, base, file)[b] = files[b]
    BY DEF With
  <2>2. files' = With(files, base, file)
    BY <1>1
  <2> QED BY <2>1, <2>2
<1>8. /\ DOMAIN segs' = (DOMAIN segs \ maint.victims) \cup {base} /\ segs'[base] = Opened(file)
      /\ \A b \in DOMAIN segs \ maint.victims : segs'[b] = segs[b]
  <2>1. \A b \in DOMAIN segs \ maint.victims : b # base
    BY <1>2
  <2> DEFINE x == Opened(file)
  <2>2. /\ DOMAIN With(kept, base, x) = DOMAIN kept \cup {base}
        /\ With(kept, base, x)[base] = x
        /\ \A b \in DOMAIN kept : b # base => With(kept, base, x)[b] = kept[b]
    BY DEF With
  <2>3. segs' = With(kept, base, x)
    BY <1>1
  <2> HIDE DEF kept, x
  <2>4. /\ DOMAIN segs' = (DOMAIN segs \ maint.victims) \cup {base} /\ segs'[base] = x
        /\ \A b \in DOMAIN segs \ maint.victims : segs'[b] = segs[b]
    BY <2>1, <2>2, <2>3, <1>3
  <2> QED BY <2>4 DEF x
<1> QED BY <1>1, <1>2, <1>4, <1>5, <1>6, <1>7, <1>8

LEMMA SwapConserved == ConservedInv /\ Swap => ConservedInv'
<1> SUFFICES ASSUME ConservedInv, Swap PROVE ConservedInv'
  OBVIOUS
<1>b. PICK base : base = maint.base
  OBVIOUS
<1>j. PICK file : file = staged[base]
  OBVIOUS
<1>0. /\ up /\ maint.step = "drop" /\ maint' = Idle /\ staged' = NoFiles
      /\ UNCHANGED <<nextOffset, cutoff, offset, got, retired, torn, doubled, crossed,
                     up, crashes, fails>>
      /\ Done = maint.victims
      /\ base \in maint.victims /\ base \in DOMAIN staged /\ file \in File
  BY <1>b, <1>j, SwapFacts
<1>f. /\ DOMAIN files' = DOMAIN files \cup {base} /\ files'[base] = file
      /\ \A b \in DOMAIN files : b # base => files'[b] = files[b]
  BY <1>b, <1>j, SwapFacts
<1>s. /\ DOMAIN segs' = (DOMAIN segs \ maint.victims) \cup {base} /\ segs'[base] = Opened(file)
      /\ \A b \in DOMAIN segs \ maint.victims : segs'[b] = segs[b]
  BY <1>b, <1>j, SwapFacts
<1>v. /\ \A v \in maint.victims : v \in DOMAIN segs /\ v < Active /\ v \notin DOMAIN files
      /\ \A b \in DOMAIN segs \ maint.victims : b \in DOMAIN files \/ Held(b) \subseteq retired
  BY <1>b, <1>j, SwapFacts
<1>o. /\ Opened(file) \in Segment /\ Opened(file).recs = file.recs /\ Opened(file).dead = FALSE
  BY <1>0, OpenedOK
<1>h. /\ Held(base)' = Range(file.recs)
      /\ \A b \in DOMAIN segs \ maint.victims : Held(b)' = Held(b)
  BY <1>s, <1>o DEF Held
<1>n. DOMAIN staged' = {}
  BY <1>0 DEF NoFiles
<1>l. Lost' = Lost /\ nextOffset' = nextOffset
  BY <1>0 DEF Lost
<1>c. \A r \in Range(file.recs) : r \in 0..(nextOffset - 1)
  <2> TAKE r \in Range(file.recs)
  <2>1. r \in Contents(staged)
    BY <1>0, <1>b, <1>j, InContents
  <2> QED BY <2>1 DEF ConservedInv, Accounted
<1>i. Over(maint')
  BY <1>0, OverOK
<1>1. PlainTypeOK'
  <2>1. /\ DOMAIN files \subseteq Bases /\ files \in [DOMAIN files -> File]
        /\ DOMAIN segs \subseteq Bases /\ segs \in [DOMAIN segs -> Segment]
    BY DEF ConservedInv, PlainTypeOK
  <2>2. base \in Bases
    BY <2>1, <1>0, <1>v
  <2>3. DOMAIN files' \subseteq Bases /\ \A b \in DOMAIN files' : files'[b] \in File
    BY <2>1, <2>2, <1>0, <1>f
  <2>4. DOMAIN segs' \subseteq Bases /\ \A b \in DOMAIN segs' : segs'[b] \in Segment
    BY <2>1, <2>2, <1>o, <1>s
  <2>5. files' = [b \in DOMAIN files' |-> files'[b]] /\ segs' = [b \in DOMAIN segs' |-> segs'[b]]
    BY DEF Swap, With
  <2>6. files' \in [DOMAIN files' -> File] /\ segs' \in [DOMAIN segs' -> Segment]
    BY <2>3, <2>4, <2>5
  <2>7. DOMAIN staged' \subseteq Bases /\ staged' \in [DOMAIN staged' -> File]
    BY <1>0, <1>n DEF NoFiles
  <2>8. maint' \in [step : {"idle", "between", "retire", "clean", "write", "drop"},
                    victims : SUBSET Bases, left : SUBSET Bases, base : Bases,
                    rest : SUBSET (Bases \X Nat)]
    BY <1>0, OverOK
  <2> QED BY <2>3, <2>4, <2>6, <2>7, <2>8, <1>0 DEF ConservedInv, PlainTypeOK
<1>2. BelowOK'
  BY <1>s, <1>h, <1>c, <1>l, <1>0 DEF ConservedInv, BelowOK
<1>3. TopOK'
  <2>1. /\ Active \in DOMAIN segs /\ Active \in DOMAIN files /\ Active \in Nat
        /\ ~segs[Active].dead /\ \A b \in DOMAIN segs : b <= Active
        /\ IsTop(Active)
    BY <1>0, TopIsActive
  <2>m. PICK m : m = Active
    OBVIOUS
  <2>2. m \in DOMAIN segs \ maint.victims /\ m # base /\ base <= m
    <3>1. \A v \in DOMAIN segs : v \in Nat
      BY MaintenanceAssumption DEF ConservedInv, PlainTypeOK, Bases
    <3> QED BY <2>1, <2>m, <3>1, <1>v, <1>0
  <2>3. IsTop(m) /\ m \in DOMAIN files /\ ~segs[m].dead /\ \A b \in DOMAIN segs : b <= m
    BY <2>1, <2>m
  <2>4. m \in DOMAIN files' /\ files'[m] = files[m] /\ m \in DOMAIN segs' /\ segs'[m] = segs[m]
    BY <2>2, <2>3, <1>f, <1>s
  <2>5. (\A b \in DOMAIN files' : b <= m) /\ (\A b \in DOMAIN segs' : b <= m)
    BY <2>2, <2>3, <1>f, <1>s DEF IsTop
  <2>6. IsTop(m)'
    BY <2>3, <2>4, <2>5, <1>n, <1>l DEF IsTop
  <2> QED BY <2>4, <2>6 DEF TopOK
<1>4. MemoryOK'
  <2>1. up' /\ DOMAIN files' \subseteq DOMAIN segs'
    BY <1>0, <1>f, <1>s, <1>v DEF ConservedInv, MemoryOK
  <2>2. \A b \in DOMAIN segs' :
          IF b \in DOMAIN files' THEN files'[b].recs = segs'[b].recs ELSE segs'[b].dead
    <3> TAKE b \in DOMAIN segs'
    <3>1. CASE b = base
      BY <3>1, <1>f, <1>s, <1>o
    <3>2. CASE b # base
      <4>1. b \in DOMAIN segs \ maint.victims /\ segs'[b] = segs[b]
        BY <3>2, <1>s
      <4>2. b \in DOMAIN files' <=> b \in DOMAIN files
        BY <3>2, <1>f
      <4>3. b \in DOMAIN files => files'[b] = files[b]
        BY <3>2, <1>f
      <4> QED BY <4>1, <4>2, <4>3, <1>0 DEF ConservedInv, MemoryOK
    <3> QED BY <3>1, <3>2
  <2> QED BY <2>1, <2>2 DEF MemoryOK
<1>5. VictimsOK' /\ StagedOK'
  BY <1>i, OverKeeps
<1>6. HeldOK'
  <2> SUFFICES ASSUME NEW r \in 0..(nextOffset - 1), r \notin Lost
               PROVE  \E b \in DOMAIN segs' : r \in Held(b)'
    BY <1>l DEF HeldOK
  <2>1. PICK b \in DOMAIN segs : r \in Held(b)
    BY <1>0 DEF ConservedInv, HeldOK
  <2>2. CASE b \in maint.victims
    BY <2>1, <2>2, <1>0, <1>s, <1>h, <1>b, <1>j, StagedHolds
  <2>3. CASE b \notin maint.victims
    BY <2>1, <2>3, <1>s, <1>h
  <2> QED BY <2>2, <2>3
<1>7. GoneOK'
  <2>1. \A b \in DOMAIN segs' \ DOMAIN files' : Held(b)' \subseteq retired'
    BY <1>s, <1>f, <1>v, <1>h, <1>0
  <2> QED BY <2>1 DEF GoneOK
<1>8. Accounted'
  <2>1. Contents(files)' = Contents(files') /\ Contents(staged)' = {}
    BY <1>n DEF Contents
  <2>2. \A r \in Contents(files') : r \in 0..(nextOffset - 1)
    <3> TAKE r \in Contents(files')
    <3>1. PICK b \in DOMAIN files' : r \in Range(files'[b].recs)
      BY InContents
    <3>2. CASE b = base
      BY <3>1, <3>2, <1>f, <1>c
    <3>3. CASE b # base
      <4>1. r \in Contents(files)
        BY <3>1, <3>3, <1>f, InContents
      <4> QED BY <4>1 DEF ConservedInv, Accounted
    <3> QED BY <3>2, <3>3
  <2>3. Lost \subseteq 0..(nextOffset - 1)
    BY DEF ConservedInv, Accounted
  <2>4. \A r \in 0..(nextOffset - 1) : r \in Lost \/ r \in Contents(files')
    <3> SUFFICES ASSUME NEW r \in 0..(nextOffset - 1), r \notin Lost
                 PROVE  r \in Contents(files')
      OBVIOUS
    <3>1. PICK b \in DOMAIN segs : r \in Held(b)
      BY <1>0 DEF ConservedInv, HeldOK
    <3>2. CASE b \in maint.victims
      <4>1. r \in Range(file.recs)
        BY <3>1, <3>2, <1>0, <1>b, <1>j, StagedHolds
      <4> QED BY <4>1, <1>f, InContents
    <3>3. CASE b \notin maint.victims
      <4>1. b \in DOMAIN files /\ b # base
        BY <3>1, <3>3, <1>v, <1>0 DEF Lost
      <4>2. r \in Range(files[b].recs)
        BY <3>1, <4>1, <1>0 DEF ConservedInv, MemoryOK, Held
      <4> QED BY <4>1, <4>2, <1>f, InContents
    <3> QED BY <3>2, <3>3
  <2>5. 0..(nextOffset - 1) = Contents(files') \cup Lost
    BY <2>2, <2>3, <2>4
  <2> QED BY <2>1, <2>5, <1>l DEF Accounted
<1> QED BY <1>1, <1>2, <1>3, <1>4, <1>5, <1>6, <1>7, <1>8 DEF ConservedInv

-----------------------------------------------------------------------------
(* The producer. *)

(* A record is put at the end of the highest segment, or in a new one above.  *)
Puts(base, recs) ==
  /\ base <= nextOffset
  /\ \A b \in DOMAIN segs : b <= base
  /\ \A b \in DOMAIN staged : b < base
  /\ \/ base \notin DOMAIN segs /\ base = nextOffset /\ recs = <<nextOffset>>
     \/ base = Active /\ recs = Append(segs[base].recs, nextOffset)
  /\ recs # <<>> /\ nextOffset \in Range(recs)
  /\ Range(recs) = (IF base \in DOMAIN segs THEN Held(base) ELSE {}) \cup {nextOffset}
  /\ DOMAIN segs' = DOMAIN segs \cup {base} /\ segs'[base] \in Segment
  /\ segs'[base].recs = recs /\ segs'[base].dead = FALSE
  /\ \A b \in DOMAIN segs : b # base => segs'[b] = segs[b]
  /\ DOMAIN files' = DOMAIN files \cup {base} /\ files'[base] \in File
  /\ files'[base].recs = recs
  /\ \A b \in DOMAIN files : b # base => files'[b] = files[b]
  /\ files' \in [DOMAIN files' -> File] /\ segs' \in [DOMAIN segs' -> Segment]

LEMMA WriteFacts ==
  ASSUME ConservedInv, NEW old \in BOOLEAN, Write(old)
  PROVE  /\ up /\ maint.step \in {"idle", "between"} /\ maint.victims = {}
         /\ nextOffset \in Records /\ nextOffset' = nextOffset + 1
         /\ UNCHANGED <<staged, maint, cutoff, offset, got, retired, torn, doubled, crossed,
                        up, crashes, fails>>
         /\ \E base \in Bases : \E recs \in Seq(Records) : Puts(base, recs)
<1>1. /\ up /\ maint.step \in {"idle", "between"} /\ nextOffset < MaxRecords
      /\ nextOffset' = nextOffset + 1
      /\ UNCHANGED <<staged, maint, cutoff, offset, got, retired, torn, doubled, crossed,
                     up, crashes, fails>>
  BY DEF Write, Free, consumer, history, process
<1>2. maint.victims = {}
  BY <1>1 DEF ConservedInv, VictimsOK
<1>3. nextOffset \in Nat /\ nextOffset \in Records /\ nextOffset \in Bases
  BY <1>1, MaintenanceAssumption DEF ConservedInv, PlainTypeOK, Records, Bases
<1>a. PICK act : act = Active
  OBVIOUS
<1>4. /\ act \in DOMAIN segs /\ act \in DOMAIN files /\ act \in Nat
      /\ ~segs[act].dead /\ \A b \in DOMAIN segs : b <= act
      /\ IsTop(act)
  BY <1>1, <1>a, TopIsActive
<1>5. segs[act] \in Segment /\ segs[act].recs \in Seq(Records) /\ act \in Bases
  BY <1>4 DEF ConservedInv, PlainTypeOK, Segment
<1>6. files[act].recs = segs[act].recs
  BY <1>1, <1>4 DEF ConservedInv, MemoryOK
<1>7. Rolls(old) => act < nextOffset
  BY <1>3, <1>4, <1>a DEF Write, IsTop
<1>b. PICK base : base = IF Rolls(old) THEN nextOffset ELSE act
  OBVIOUS
<1>s. PICK seg : seg = IF Rolls(old) THEN NewSegment(nextOffset) ELSE segs[act]
  OBVIOUS
<1>r. PICK recs : recs = Append(seg.recs, nextOffset)
  OBVIOUS
<1>8. /\ segs' = With(segs, base, [seg EXCEPT !.recs = recs])
      /\ files' = With(files, base, [recs |-> recs, time |-> nextOffset + 1])
  <2>1. Rolls(old) \/ base \in DOMAIN files
    BY <1>4, <1>b
  <2> QED BY <2>1, <1>a, <1>b, <1>s, <1>r DEF Write
<1>9. seg \in Segment /\ seg.dead = FALSE /\ seg.recs \in Seq(Records)
  <2>1. NewSegment(nextOffset) \in Segment /\ NewSegment(nextOffset).dead = FALSE
    BY <1>3 DEF NewSegment, Segment
  <2>2. segs[act].dead = FALSE
    BY <1>4, <1>5 DEF Segment
  <2>3. seg \in Segment /\ seg.dead = FALSE
    BY <2>1, <2>2, <1>5, <1>s
  <2> QED BY <2>3 DEF Segment
<1>10. recs \in Seq(Records) /\ recs # <<>> /\ Range(recs) = Range(seg.recs) \cup {nextOffset}
  BY <1>9, <1>3, <1>r, RangeOfAppend
<1>11. /\ base \in Bases /\ base <= nextOffset
       /\ \A b \in DOMAIN segs : b <= base
       /\ \A b \in DOMAIN staged : b < base
  <2>1. \A b \in DOMAIN staged : b \in Nat
    BY MaintenanceAssumption DEF ConservedInv, PlainTypeOK, Bases
  <2>2. \A b \in DOMAIN segs : b \in Nat
    BY MaintenanceAssumption DEF ConservedInv, PlainTypeOK, Bases
  <2> QED BY <2>1, <2>2, <1>3, <1>4, <1>5, <1>7, <1>b DEF IsTop
<1>12. /\ \/ base \notin DOMAIN segs /\ base = nextOffset /\ recs = <<nextOffset>>
          \/ base = act /\ recs = Append(segs[base].recs, nextOffset)
       /\ Range(recs) = (IF base \in DOMAIN segs THEN Held(base) ELSE {}) \cup {nextOffset}
  <2>1. CASE Rolls(old)
    <3>1. base = nextOffset /\ seg.recs = <<>>
      BY <2>1, <1>b, <1>s DEF NewSegment
    <3>2. base \notin DOMAIN segs
      <4>1. \A b \in DOMAIN segs : b \in Nat
        BY MaintenanceAssumption DEF ConservedInv, PlainTypeOK, Bases
      <4> QED BY <4>1, <3>1, <2>1, <1>3, <1>4, <1>7
    <3>3. Range(<<>>) = {}
      BY DEF Range
    <3>4. recs = <<nextOffset>>
      BY <3>1, <1>r
    <3>5. Range(recs) = {nextOffset}
      BY <3>1, <3>3, <1>10
    <3> QED BY <3>1, <3>2, <3>4, <3>5
  <2>2. CASE ~Rolls(old)
    BY <2>2, <1>4, <1>b, <1>s, <1>r, <1>10 DEF Held
  <2> QED BY <2>1, <2>2
<1>13. [seg EXCEPT !.recs = recs] \in Segment /\ [recs |-> recs, time |-> nextOffset + 1] \in File
  BY <1>9, <1>10, <1>3 DEF Segment, File
<1>14. [seg EXCEPT !.recs = recs].recs = recs /\ [seg EXCEPT !.recs = recs].dead = FALSE
  BY <1>9 DEF Segment
<1>15. /\ DOMAIN segs' = DOMAIN segs \cup {base} /\ segs'[base] = [seg EXCEPT !.recs = recs]
       /\ \A b \in DOMAIN segs : b # base => segs'[b] = segs[b]
       /\ segs' = [b \in DOMAIN segs' |-> segs'[b]]
  BY <1>8 DEF With
<1>16. /\ DOMAIN files' = DOMAIN files \cup {base}
       /\ files'[base] = [recs |-> recs, time |-> nextOffset + 1]
       /\ \A b \in DOMAIN files : b # base => files'[b] = files[b]
       /\ files' = [b \in DOMAIN files' |-> files'[b]]
  BY <1>8 DEF With
<1>17. files' \in [DOMAIN files' -> File] /\ segs' \in [DOMAIN segs' -> Segment]
  <2>1. \A b \in DOMAIN files' : files'[b] \in File
    BY <1>16, <1>13 DEF ConservedInv, PlainTypeOK
  <2>2. \A b \in DOMAIN segs' : segs'[b] \in Segment
    BY <1>15, <1>13 DEF ConservedInv, PlainTypeOK
  <2> QED BY <2>1, <2>2, <1>15, <1>16
<1>18. Puts(base, recs)
  <2>1. base = Active \/ base \notin DOMAIN segs
    BY <1>12, <1>a
  <2>2. segs'[base] \in Segment /\ segs'[base].recs = recs /\ segs'[base].dead = FALSE
    BY <1>13, <1>14, <1>15
  <2>3. files'[base] \in File /\ files'[base].recs = recs
    BY <1>13, <1>16
  <2> QED BY <2>1, <2>2, <2>3, <1>a, <1>10, <1>11, <1>12, <1>15, <1>16, <1>17 DEF Puts
<1> QED BY <1>1, <1>2, <1>3, <1>10, <1>11, <1>18

LEMMA WriteConserved ==
  ASSUME ConservedInv, NEW old \in BOOLEAN, Write(old)
  PROVE  ConservedInv'
<1>0. /\ up /\ maint.step \in {"idle", "between"} /\ maint.victims = {}
      /\ nextOffset \in Records /\ nextOffset' = nextOffset + 1
      /\ UNCHANGED <<staged, maint, cutoff, offset, got, retired, torn, doubled, crossed,
                     up, crashes, fails>>
  BY WriteFacts
<1>1. PICK base \in Bases : \E recs \in Seq(Records) : Puts(base, recs)
  BY WriteFacts
<1>2. PICK recs \in Seq(Records) : Puts(base, recs)
  BY <1>1
<1> USE <1>2 DEF Puts
<1>n. /\ nextOffset \in Nat /\ nextOffset < MaxRecords /\ MaxRecords \in Nat
      /\ 0..(nextOffset' - 1) = 0..(nextOffset - 1) \cup {nextOffset}
  <2>1. nextOffset \in Nat /\ nextOffset < MaxRecords /\ MaxRecords \in Nat
    BY <1>0, MaintenanceAssumption DEF Records
  <2> QED BY <2>1, <1>0
<1>l. Lost' = Lost
  BY <1>0 DEF Lost
<1>h. /\ Held(base)' = (IF base \in DOMAIN segs THEN Held(base) ELSE {}) \cup {nextOffset}
      /\ \A b \in DOMAIN segs : b # base => Held(b)' = Held(b)
  BY <1>2 DEF Held
<1>3. PlainTypeOK'
  <2>1. DOMAIN files' \subseteq Bases /\ DOMAIN segs' \subseteq Bases
    BY <1>2 DEF ConservedInv, PlainTypeOK
  <2>2. nextOffset' \in 0..MaxRecords /\ offset' \in 0..nextOffset'
    BY <1>0, <1>n DEF ConservedInv, PlainTypeOK
  <2>3. files' \in [DOMAIN files' -> File] /\ segs' \in [DOMAIN segs' -> Segment]
    BY <1>2
  <2>4. UNCHANGED <<staged, maint, cutoff, got, retired, torn, doubled, crossed, up, crashes, fails>>
    BY <1>0
  <2> QED BY <2>1, <2>2, <2>3, <2>4 DEF ConservedInv, PlainTypeOK
<1>4. BelowOK'
  <2> SUFFICES ASSUME NEW b \in DOMAIN segs' PROVE Held(b)' \subseteq 0..(nextOffset' - 1)
    BY DEF BelowOK
  <2>1. b \in DOMAIN segs => Held(b) \subseteq 0..(nextOffset - 1)
    BY DEF ConservedInv, BelowOK
  <2> QED BY <2>1, <1>h, <1>n, <1>2
<1>5. TopOK'
  <2>1. \A b \in DOMAIN files : b \in DOMAIN segs
    BY <1>0 DEF ConservedInv, MemoryOK
  <2>2. base \in DOMAIN files' /\ base \in DOMAIN segs' /\ ~segs'[base].dead
    BY <1>2
  <2>3. (\A b \in DOMAIN files' : b <= base) /\ (\A b \in DOMAIN segs' : b <= base)
    BY <2>1, <1>2 DEF Bases
  <2>4. base <= nextOffset' /\ base < nextOffset' /\ nextOffset' - 1 = nextOffset
    BY <1>2, <1>0, <1>n, MaintenanceAssumption DEF Bases
  <2>5. IsTop(base)'
    BY <2>2, <2>3, <2>4, <1>2, <1>0 DEF IsTop
  <2> QED BY <2>2, <2>5 DEF TopOK
<1>6. MemoryOK'
  BY <1>2, <1>0 DEF ConservedInv, MemoryOK
<1>7. VictimsOK' /\ StagedOK'
  BY <1>0 DEF ConservedInv, VictimsOK, StagedOK, Done
<1>8. HeldOK'
  <2> SUFFICES ASSUME NEW r \in 0..(nextOffset' - 1), r \notin Lost
               PROVE  \E b \in DOMAIN segs' : r \in Held(b)'
    BY <1>l DEF HeldOK
  <2>1. CASE r = nextOffset
    BY <2>1, <1>h, <1>2
  <2>2. CASE r \in 0..(nextOffset - 1)
    <3>1. PICK b \in DOMAIN segs : r \in Held(b)
      BY <2>2, <1>0 DEF ConservedInv, HeldOK
    <3> QED BY <3>1, <1>h, <1>2
  <2> QED BY <2>1, <2>2, <1>n
<1>9. GoneOK'
  <2> SUFFICES ASSUME NEW b \in DOMAIN segs', b \notin DOMAIN files'
               PROVE  Held(b)' \subseteq retired' \/ segs'[b].created <= cutoff.merge
    BY <1>0 DEF GoneOK
  <2>1. b \in DOMAIN segs /\ b \notin DOMAIN files /\ b # base
    BY <1>2
  <2> QED BY <2>1, <1>2, <1>h, <1>0 DEF ConservedInv, GoneOK
<1>10. Accounted'
  <2>1. Contents(files') = Contents(files) \cup {nextOffset}
    <3>1. base \in DOMAIN segs => base \in DOMAIN files /\ files[base].recs = segs[base].recs
      <4>1. base \in DOMAIN segs => base = Active
        <5>1. \A b \in DOMAIN segs : b \in Nat
          BY MaintenanceAssumption DEF ConservedInv, PlainTypeOK, Bases
        <5> QED BY <5>1, <1>0, <1>2, TopIsActive
      <4> QED BY <4>1, <1>0, TopIsActive DEF ConservedInv, MemoryOK
    <3>2. base \in DOMAIN files => base \in DOMAIN segs
      BY <1>0 DEF ConservedInv, MemoryOK
    <3>3. base \in DOMAIN files => Range(files[base].recs) = Held(base)
      BY <3>1, <3>2 DEF Held
    <3>4. \A r \in Contents(files') : r \in Contents(files) \/ r = nextOffset
      <4> TAKE r \in Contents(files')
      <4>1. PICK b \in DOMAIN files' : r \in Range(files'[b].recs)
        BY InContents
      <4>2. CASE b = base
        <5>1. r \in Range(recs)
          BY <4>1, <4>2, <1>2
        <5>2. r = nextOffset \/ (base \in DOMAIN segs /\ r \in Held(base))
          BY <5>1, <1>2
        <5> QED BY <5>2, <3>1, <3>3, InContents
      <4>3. CASE b # base
        BY <4>1, <4>3, <1>2, InContents
      <4> QED BY <4>2, <4>3
    <3>5. nextOffset \in Contents(files')
      BY <1>2, InContents
    <3>6. \A r \in Contents(files) : r \in Contents(files')
      <4> TAKE r \in Contents(files)
      <4>1. PICK b \in DOMAIN files : r \in Range(files[b].recs)
        BY InContents
      <4>2. CASE b = base
        <5>1. r \in Range(recs)
          BY <4>1, <4>2, <3>2, <3>3, <1>2
        <5> QED BY <5>1, <1>2, InContents
      <4>3. CASE b # base
        BY <4>1, <4>3, <1>2, InContents
      <4> QED BY <4>2, <4>3
    <3> QED BY <3>4, <3>5, <3>6
  <2>2. Contents(files)' = Contents(files') /\ Contents(staged)' = Contents(staged)
    BY <1>0 DEF Contents
  <2>3. 0..(nextOffset - 1) = Contents(files) \cup Contents(staged) \cup Lost
    BY DEF ConservedInv, Accounted
  <2>4. 0..(nextOffset' - 1) = Contents(files') \cup Contents(staged) \cup Lost
    BY <2>1, <2>3, <1>n
  <2> QED BY <2>2, <2>4, <1>l DEF Accounted
<1> QED BY <1>3, <1>4, <1>5, <1>6, <1>7, <1>8, <1>9, <1>10 DEF ConservedInv

-----------------------------------------------------------------------------
(* Recovery. *)

(* The directory as the next process finds it. *)
LEMMA MergedOK ==
  ASSUME ConservedInv
  PROVE  /\ DOMAIN Merged = DOMAIN files \cup DOMAIN staged
         /\ DOMAIN Merged \subseteq Bases /\ Merged \in [DOMAIN Merged -> File]
         /\ \A b \in DOMAIN staged : Merged[b] = staged[b]
         /\ \A b \in DOMAIN files \ DOMAIN staged : Merged[b] = files[b]
<1>1. /\ DOMAIN Merged = DOMAIN files \cup DOMAIN staged
      /\ \A b \in DOMAIN staged : Merged[b] = staged[b]
      /\ \A b \in DOMAIN files \ DOMAIN staged : Merged[b] = files[b]
      /\ Merged = [b \in DOMAIN Merged |-> Merged[b]]
  BY DEF Merged
<1>2. /\ DOMAIN files \subseteq Bases /\ files \in [DOMAIN files -> File]
      /\ DOMAIN staged \subseteq Bases /\ staged \in [DOMAIN staged -> File]
  BY DEF ConservedInv, PlainTypeOK
<1>3. \A b \in DOMAIN Merged : Merged[b] \in File
  BY <1>1, <1>2
<1> QED BY <1>1, <1>2, <1>3

(* Opening the last segment finds the offset that is next. *)
LEMMA NextOfTop ==
  ASSUME ConservedInv, NEW m \in DOMAIN files, IsTop(m)
  PROVE  /\ m \notin DOMAIN staged /\ m \in DOMAIN Merged /\ Merged[m] = files[m]
         /\ \A b \in DOMAIN Merged : b <= m
         /\ Max(DOMAIN Merged) = m /\ NextOf(m, files[m].recs) = nextOffset
<1>1. /\ \A b \in DOMAIN files : b \in Nat
      /\ \A b \in DOMAIN staged : b \in Nat
      /\ nextOffset \in Nat
  BY MaintenanceAssumption DEF ConservedInv, PlainTypeOK, Bases
<1>2. m \notin DOMAIN staged /\ \A b \in DOMAIN Merged : b <= m
  BY <1>1, MergedOK DEF IsTop
<1>3. m \in DOMAIN Merged /\ Merged[m] = files[m]
  BY <1>2, MergedOK
<1>4. Max(DOMAIN Merged) = m
  <2>1. DOMAIN Merged \in SUBSET (0..MaxRecords) /\ MaxRecords \in Nat
    BY MergedOK, MaintenanceAssumption DEF Bases
  <2>2. Max(DOMAIN Merged) \in DOMAIN Merged /\ \A x \in DOMAIN Merged : x <= Max(DOMAIN Merged)
    BY <2>1, <1>3, MaxOf
  <2> QED BY <2>1, <2>2, <1>2, <1>3, <1>1
<1>5. NextOf(m, files[m].recs) = nextOffset
  <2> DEFINE R == Range(files[m].recs)
             T == {m} \cup {r + 1 : r \in R}
  <2>1. R \subseteq 0..(nextOffset - 1)
    <3>1. R \subseteq Contents(files)
      BY InContents
    <3> QED BY <3>1 DEF ConservedInv, Accounted
  <2>2. R = {} <=> files[m].recs = <<>>
    <3>1. files[m].recs \in Seq(Records)
      BY DEF ConservedInv, PlainTypeOK, File
    <3> QED BY <3>1, RangeOfSeq
  <2>3. T \in SUBSET (0..nextOffset) /\ T # {}
    BY <2>1, <1>1 DEF IsTop
  <2>4. nextOffset \in T
    <3>1. CASE R = {}
      BY <3>1, <2>2 DEF IsTop
    <3>2. CASE R # {}
      <4>1. nextOffset - 1 \in R
        BY <3>2, <2>2 DEF IsTop
      <4> QED BY <4>1, <1>1
    <3> QED BY <3>1, <3>2
  <2> HIDE DEF T
  <2>5. Max(T) \in T /\ \A x \in T : x <= Max(T)
    BY <2>3, <1>1, MaxOf
  <2>6. Max(T) = nextOffset
    <3>1. Max(T) \in 0..nextOffset
      BY <2>3, <2>5
    <3>2. nextOffset <= Max(T)
      BY <2>4, <2>5
    <3> QED BY <3>1, <3>2, <1>1
  <2> QED BY <2>6 DEF T, NextOf
<1> QED BY <1>2, <1>3, <1>4, <1>5

LEMMA RecoverFacts ==
  ASSUME ConservedInv, Recover
  PROVE  /\ ~up /\ up' = TRUE /\ maint' = Idle /\ staged' = NoFiles /\ nextOffset' = nextOffset
         /\ files' = Merged /\ torn' = torn \cup TornBy
         /\ UNCHANGED <<cutoff, offset, got, retired, crossed, crashes, fails>>
         /\ doubled' \in BOOLEAN
         /\ DOMAIN segs' = DOMAIN Merged /\ segs' \in [DOMAIN segs' -> Segment]
         /\ \A b \in DOMAIN Merged : segs'[b].recs = Merged[b].recs /\ segs'[b].dead = FALSE
<1>1. /\ ~up /\ up' = TRUE /\ staged' = NoFiles
      /\ files' = Merged /\ torn' = torn \cup TornBy /\ maint' = maint
      /\ UNCHANGED <<cutoff, offset, got, retired, crossed, crashes, fails>>
      /\ doubled' = (doubled \/ ~Single(Merged) \/ Contents(Merged) \cap retired # {})
      /\ segs' = [b \in DOMAIN Merged |-> Opened(Merged[b])]
      /\ nextOffset' = NextOf(Max(DOMAIN Merged), Merged[Max(DOMAIN Merged)].recs)
  BY DEF Recover
<1>2. maint = Idle
  BY <1>1 DEF ConservedInv, MemoryOK
<1>3. nextOffset' = nextOffset
  <2>1. PICK m \in DOMAIN files : IsTop(m)
    BY DEF ConservedInv, TopOK
  <2> QED BY <2>1, <1>1, NextOfTop
<1>4. \A b \in DOMAIN Merged : /\ Opened(Merged[b]) \in Segment
                               /\ Opened(Merged[b]).recs = Merged[b].recs
                               /\ Opened(Merged[b]).dead = FALSE
  <2> TAKE b \in DOMAIN Merged
  <2>1. Merged[b] \in File
    BY MergedOK
  <2> QED BY <2>1, OpenedOK
<1>5. /\ DOMAIN segs' = DOMAIN Merged /\ segs' \in [DOMAIN segs' -> Segment]
      /\ \A b \in DOMAIN Merged : segs'[b].recs = Merged[b].recs /\ segs'[b].dead = FALSE
  BY <1>1, <1>4
<1>6. doubled' \in BOOLEAN
  BY <1>1
<1> QED BY <1>1, <1>2, <1>3, <1>5, <1>6

LEMMA RecoverConserved == ConservedInv /\ Recover => ConservedInv'
<1> SUFFICES ASSUME ConservedInv, Recover PROVE ConservedInv'
  OBVIOUS
<1>0. /\ ~up /\ up' = TRUE /\ maint' = Idle /\ staged' = NoFiles /\ nextOffset' = nextOffset
      /\ files' = Merged /\ torn' = torn \cup TornBy
      /\ UNCHANGED <<cutoff, offset, got, retired, crossed, crashes, fails>>
      /\ doubled' \in BOOLEAN
      /\ DOMAIN segs' = DOMAIN Merged /\ segs' \in [DOMAIN segs' -> Segment]
      /\ \A b \in DOMAIN Merged : segs'[b].recs = Merged[b].recs /\ segs'[b].dead = FALSE
  BY RecoverFacts
<1>m. /\ DOMAIN Merged = DOMAIN files \cup DOMAIN staged
      /\ DOMAIN Merged \subseteq Bases /\ Merged \in [DOMAIN Merged -> File]
      /\ \A b \in DOMAIN staged : Merged[b] = staged[b]
      /\ \A b \in DOMAIN files \ DOMAIN staged : Merged[b] = files[b]
  BY MergedOK
<1>n. DOMAIN staged' = {}
  BY <1>0 DEF NoFiles
<1>c. Contents(files) \cup Contents(staged) \cup Lost = 0..(nextOffset - 1)
  BY DEF ConservedInv, Accounted
<1>t. TornBy \subseteq Contents(files) /\ TornBy \subseteq Records
  <2>1. TornBy \subseteq Contents(files)
    BY DEF TornBy, Contents
  <2>2. nextOffset \in 0..MaxRecords /\ MaxRecords \in Nat
    BY MaintenanceAssumption DEF ConservedInv, PlainTypeOK
  <2>3. 0..(nextOffset - 1) \subseteq Records
    BY <2>2 DEF Records
  <2> QED BY <2>1, <2>3, <1>c
<1>l. Lost' = Lost \cup TornBy
  BY <1>0 DEF Lost
<1>d. Contents(Merged) \subseteq Contents(files) \cup Contents(staged)
  <2> SUFFICES ASSUME NEW r \in Contents(Merged)
               PROVE  r \in Contents(files) \/ r \in Contents(staged)
    OBVIOUS
  <2>1. PICK b \in DOMAIN Merged : r \in Range(Merged[b].recs)
    BY InContents
  <2>2. CASE b \in DOMAIN staged
    BY <2>1, <2>2, <1>m, InContents
  <2>3. CASE b \notin DOMAIN staged
    BY <2>1, <2>3, <1>m, InContents
  <2> QED BY <2>2, <2>3
<1>e. \A r \in 0..(nextOffset - 1) : r \in Contents(Merged) \/ r \in Lost \cup TornBy
  <2> SUFFICES ASSUME NEW r \in 0..(nextOffset - 1), r \notin Lost, r \notin TornBy
               PROVE  r \in Contents(Merged)
    OBVIOUS
  <2>1. CASE r \in Contents(staged)
    <3>1. PICK b \in DOMAIN staged : r \in Range(staged[b].recs)
      BY <2>1, InContents
    <3> QED BY <3>1, <1>m, InContents
  <2>2. CASE r \in Contents(files) /\ r \notin Contents(staged)
    <3>1. PICK b \in DOMAIN files : r \in Range(files[b].recs)
      BY <2>2, InContents
    <3>2. b \notin DOMAIN staged
      BY <3>1, <2>2 DEF TornBy, Contents
    <3> QED BY <3>1, <3>2, <1>m, InContents
  <2> QED BY <2>1, <2>2, <1>c
<1>h. \A b \in DOMAIN Merged : Held(b)' = Range(Merged[b].recs)
  BY <1>0 DEF Held
<1>1. PlainTypeOK'
  <2>1. /\ DOMAIN files' \subseteq Bases /\ files' \in [DOMAIN files' -> File]
        /\ DOMAIN segs' \subseteq Bases /\ segs' \in [DOMAIN segs' -> Segment]
    BY <1>0, <1>m
  <2>2. DOMAIN staged' \subseteq Bases /\ staged' \in [DOMAIN staged' -> File]
    BY <1>0, <1>n DEF NoFiles
  <2>3. torn' \subseteq Records
    BY <1>0, <1>t DEF ConservedInv, PlainTypeOK
  <2>4. maint' \in [step : {"idle", "between", "retire", "clean", "write", "drop"},
                    victims : SUBSET Bases, left : SUBSET Bases, base : Bases,
                    rest : SUBSET (Bases \X Nat)]
    BY <1>0, OverOK
  <2>5. up' \in BOOLEAN
    BY <1>0
  <2> QED BY <2>1, <2>2, <2>3, <2>4, <2>5, <1>0 DEF ConservedInv, PlainTypeOK
<1>2. BelowOK'
  <2> SUFFICES ASSUME NEW b \in DOMAIN segs' PROVE Held(b)' \subseteq 0..(nextOffset - 1)
    BY <1>0 DEF BelowOK
  <2>1. Held(b)' \subseteq Contents(Merged)
    BY <1>0, <1>h, InContents
  <2> QED BY <2>1, <1>d, <1>c
<1>3. TopOK'
  <2>1. PICK m \in DOMAIN files : IsTop(m)
    BY DEF ConservedInv, TopOK
  <2>2. /\ m \in DOMAIN Merged /\ Merged[m] = files[m]
        /\ \A b \in DOMAIN Merged : b <= m
    BY <2>1, NextOfTop
  <2>3. IsTop(m)'
    BY <2>1, <2>2, <1>0, <1>n DEF IsTop
  <2> QED BY <2>2, <2>3, <1>0 DEF TopOK
<1>4. MemoryOK'
  BY <1>0 DEF MemoryOK
<1>5. VictimsOK' /\ StagedOK'
  <2>1. Over(maint')
    BY <1>0, OverOK
  <2> QED BY <2>1, OverKeeps
<1>6. HeldOK'
  <2> SUFFICES ASSUME NEW r \in 0..(nextOffset - 1), r \notin Lost'
               PROVE  \E b \in DOMAIN segs' : r \in Held(b)'
    BY <1>0 DEF HeldOK
  <2>1. r \in Contents(Merged)
    BY <1>e, <1>l
  <2>2. PICK b \in DOMAIN Merged : r \in Range(Merged[b].recs)
    BY <2>1, InContents
  <2> QED BY <2>2, <1>h, <1>0
<1>7. GoneOK'
  BY <1>0 DEF GoneOK
<1>8. Accounted'
  <2>1. Contents(files)' = Contents(Merged) /\ Contents(staged)' = {}
    BY <1>0, <1>n DEF Contents
  <2>2. 0..(nextOffset - 1) = Contents(Merged) \cup (Lost \cup TornBy)
    BY <1>c, <1>d, <1>e, <1>t
  <2> QED BY <2>1, <2>2, <1>l, <1>0 DEF Accounted
<1> QED BY <1>1, <1>2, <1>3, <1>4, <1>5, <1>6, <1>7, <1>8 DEF ConservedInv

-----------------------------------------------------------------------------
LEMMA NextConserved == ConservedInv /\ [PlainNext]_vars => ConservedInv'
<1> SUFFICES ASSUME ConservedInv, [PlainNext]_vars PROVE ConservedInv'
  OBVIOUS
<1>1. ASSUME NEW old \in BOOLEAN, Write(old) PROVE ConservedInv'
  BY <1>1, WriteConserved
<1>2. CASE Poll
  BY <1>2, PollConserved
<1>3. ASSUME NEW c \in cutoff.retire..nextOffset, EnforceRetention(c) PROVE ConservedInv'
  BY <1>3, EnforceRetentionConserved
<1>4. CASE RemoveNext
  BY <1>4, RemoveNextConserved
<1>5. ASSUME NEW deleted \in BOOLEAN, RemoveFails(deleted) PROVE ConservedInv'
  BY <1>5, RemoveFailsConserved
<1>6. CASE RemovalEnds
  BY <1>6, RemovalEndsConserved
<1>7. ASSUME NEW c \in 0..nextOffset, c >= cutoff.merge, MergeSegments(c) PROVE ConservedInv'
  BY <1>7, MergeSegmentsConserved
<1>8. CASE WriteStaged
  BY <1>8, WriteStagedConserved
<1>9. CASE StagingFails
  BY <1>9, StagingFailsConserved
<1>10. CASE CloseStaged
  BY <1>10, CloseStagedConserved
<1>11. CASE Swap
  BY <1>11, SwapConserved
<1>12. CASE Crash
  BY <1>12, CrashConserved
<1>13. CASE Recover
  BY <1>13, RecoverConserved
<1>14. CASE UNCHANGED vars
  <2>1. UNCHANGED core /\ UNCHANGED <<maint, cutoff, offset, got, doubled, crossed, crashes, fails>>
    BY <1>14 DEF vars, core
  <2>2. BelowOK' /\ TopOK' /\ Accounted' /\ HeldOK'
    BY <2>1, CoreSame
  <2>3. PlainTypeOK'
    BY <2>1 DEF ConservedInv, PlainTypeOK, core
  <2>4. MemoryOK' /\ VictimsOK'
    BY <2>1 DEF ConservedInv, MemoryOK, VictimsOK, core, Done, Held, Lost
  <2>5. StagedOK'
    BY <2>1 DEF ConservedInv, StagedOK, core, Places, Rec
  <2>6. GoneOK'
    BY <2>1 DEF ConservedInv, GoneOK, core, Held, Lost, Done
  <2> QED BY <2>2, <2>3, <2>4, <2>5, <2>6 DEF ConservedInv
<1> QED BY <1>1, <1>2, <1>3, <1>4, <1>5, <1>6, <1>7, <1>8, <1>9, <1>10, <1>11, <1>12,
           <1>13, <1>14 DEF PlainNext

(* Two segments that share a file share it for good. *)
LEMMA SharedStays == shared /\ [Next]_vars => shared'
<1> SUFFICES ASSUME shared, [Next]_vars PROVE shared'
  OBVIOUS
<1> USE DEF history
<1>1. ASSUME NEW old, Write(old) PROVE shared'
  BY <1>1 DEF Write
<1>2. ASSUME NEW c, EnforceRetention(c) \/ MergeSegments(c) PROVE shared'
  BY <1>2 DEF EnforceRetention, MergeSegments
<1>3. ASSUME NEW deleted, RemoveFails(deleted) PROVE shared'
  BY <1>3 DEF RemoveFails
<1>4. CASE WriteBesideTwin \/ Poll \/ RemoveNext \/ RemovalEnds
  BY <1>4 DEF WriteBesideTwin, Poll, RemoveNext, RemovalEnds
<1>5. CASE WriteStaged \/ StagingFails \/ CloseStaged \/ Swap
  BY <1>5 DEF WriteStaged, StagingFails, CloseStaged, Swap
<1>6. CASE Crash \/ Recover \/ RecoverEmpty \/ UNCHANGED vars
  BY <1>6 DEF Crash, Recover, RecoverEmpty, vars
<1> QED BY <1>1, <1>2, <1>3, <1>4, <1>5, <1>6 DEF Next

(* Only a roll of an empty segment makes two segments share a file. *)
LEMMA SharedOnlyThere ==
  ASSUME ~shared, shared', [Next]_vars
  PROVE  WriteBesideTwin
<1> USE DEF history
<1>1. ASSUME NEW old, Write(old) PROVE FALSE
  BY <1>1 DEF Write
<1>2. ASSUME NEW c, EnforceRetention(c) \/ MergeSegments(c) PROVE FALSE
  BY <1>2 DEF EnforceRetention, MergeSegments
<1>3. ASSUME NEW deleted, RemoveFails(deleted) PROVE FALSE
  BY <1>3 DEF RemoveFails
<1>4. ~(Poll \/ RemoveNext \/ RemovalEnds)
  BY DEF Poll, RemoveNext, RemovalEnds
<1>5. ~(WriteStaged \/ StagingFails \/ CloseStaged \/ Swap)
  BY DEF WriteStaged, StagingFails, CloseStaged, Swap
<1>6. ~(Crash \/ Recover \/ RecoverEmpty \/ UNCHANGED vars)
  BY DEF Crash, Recover, RecoverEmpty, vars
<1> QED BY <1>1, <1>2, <1>3, <1>4, <1>5, <1>6 DEF Next

(* Where no two segments share a file the directory is never empty, as nothing *)
(* removes the file of the active segment.                                   *)
LEMMA StepsArePlain ==
  ConservedInv /\ [Next]_vars => shared' \/ [PlainNext]_vars
<1> SUFFICES ASSUME ConservedInv, [Next]_vars, ~shared' PROVE [PlainNext]_vars
  OBVIOUS
<1>1. ~WriteBesideTwin
  BY DEF WriteBesideTwin
<1>2. ~RecoverEmpty
  BY DEF RecoverEmpty, Merged, ConservedInv, TopOK
<1> QED BY <1>1, <1>2 DEF Next, PlainNext

(* Every step of the producer, the consumer, retention, a merge, a crash or a  *)
(* recovery keeps the first invariant, as long as no two segments are given  *)
(* the same file: a record that is neither deleted nor torn is in memory, and *)
(* memory agrees with the files (compaction.go:144).                         *)
THEOREM ConservedInvariant == Spec => [](shared \/ ConservedInv)
<1>1. ConservedInv /\ [PlainNext]_vars => ConservedInv'
  BY NextConserved
<1>2. (shared \/ ConservedInv) /\ [Next]_vars => (shared \/ ConservedInv)'
  BY <1>1, StepsArePlain, SharedStays
<1> QED BY <1>2, InitConserved, PTL DEF Spec

(* Whatever fails and wherever the process dies between two steps of          *)
(* retention or of a merge, every record that was written is in the directory *)
(* or in .staging, unless retention deleted it or recovery tore it, in a log  *)
(* in which no two segments share a file.                                    *)
THEOREM RecordsAreConserved == Spec => []RecordsConserved
<1>1. shared \/ ConservedInv => RecordsConserved
  BY DEF ConservedInv, RecordsConserved, Accounted
<1> QED BY <1>1, ConservedInvariant, PTL

LEMMA NextOffsetGrows ==
  ASSUME ConservedInv, [PlainNext]_vars
  PROVE  nextOffset' >= nextOffset
<1> USE DEF log
<1>n. nextOffset \in Nat
  BY MaintenanceAssumption DEF ConservedInv, PlainTypeOK
<1>1. ASSUME NEW old \in BOOLEAN, Write(old) PROVE nextOffset' >= nextOffset
  BY <1>1, <1>n DEF Write
<1>2. CASE Poll \/ WriteStaged \/ StagingFails \/ CloseStaged \/ Swap \/ Crash
  BY <1>2, <1>n DEF Poll, WriteStaged, StagingFails, CloseStaged, Swap, Crash
<1>3. CASE RemoveNext \/ RemovalEnds \/ UNCHANGED vars
  BY <1>3, <1>n DEF RemoveNext, RemovalEnds, vars
<1>4. ASSUME NEW c, EnforceRetention(c) \/ MergeSegments(c) PROVE nextOffset' >= nextOffset
  BY <1>4, <1>n DEF EnforceRetention, MergeSegments
<1>5. ASSUME NEW deleted, RemoveFails(deleted) PROVE nextOffset' >= nextOffset
  BY <1>5, <1>n DEF RemoveFails
<1>6. CASE Recover
  BY <1>6, <1>n, RecoverFacts
<1> QED BY <1>1, <1>2, <1>3, <1>4, <1>5, <1>6 DEF PlainNext

(* A process that starts finds, in the last segment, the offset that its      *)
(* predecessor would have given next, and never one that was given already,   *)
(* and the consumer is not ahead of it, as long as no two segments share a    *)
(* file: only then can the file of the active segment be deleted.            *)
THEOREM OffsetsOnlyGrow == Spec => OffsetsGrow
<1>1. ConservedInv /\ [PlainNext]_vars => nextOffset' >= nextOffset
  BY NextOffsetGrows
<1>2. ConservedInv' => offset' <= nextOffset'
  BY MaintenanceAssumption DEF ConservedInv, PlainTypeOK
<1>3. /\ shared \/ ConservedInv
      /\ (shared \/ ConservedInv)'
      /\ [Next]_vars
      => [~shared' => nextOffset' >= nextOffset /\ offset' <= nextOffset']_vars
  BY <1>1, <1>2, StepsArePlain, SharedStays
<1> QED BY <1>3, ConservedInvariant, PTL DEF Spec, OffsetsGrow


-----------------------------------------------------------------------------
(* What the steps of a merge do to the staged files. *)

LEMMA MergeFacts ==
  ASSUME ConservedInv, NEW c \in 0..nextOffset, c >= cutoff.merge, MergeSegments(c)
  PROVE  /\ up /\ maint.step = "between" /\ cutoff'.merge = c
         /\ UNCHANGED <<files, segs, nextOffset, offset, got, retired, torn, doubled, up>>
         /\ \/ /\ maint'.step \in {"idle", "clean"} /\ maint'.left = maint'.victims
               /\ UNCHANGED <<staged, crossed>>
            \/ /\ maint'.step = "write" /\ maint'.left = maint'.victims
               /\ ~Unreadable(maint'.victims)
               /\ crossed' = (crossed \/ Crosses(maint'.victims))
               /\ DOMAIN staged' = DOMAIN staged \cup {maint'.base}
               /\ \A b \in DOMAIN staged : staged'[b] = staged[b]
               /\ maint'.base \notin DOMAIN staged => staged'[maint'.base].recs = <<>>
<1> DEFINE some == Candidates(c)
           base == Min(some)
<1>0. /\ up /\ maint.step = "between" /\ cutoff' = [cutoff EXCEPT !.merge = c]
      /\ UNCHANGED <<files, segs, nextOffset, offset, got, retired, torn, doubled, up>>
  BY DEF MergeSegments, log, consumer, process
<1>1. cutoff'.merge = c
  BY <1>0 DEF ConservedInv, PlainTypeOK
<1>2. CASE maint' = Idle /\ UNCHANGED <<staged, crossed>>
  BY <1>0, <1>1, <1>2 DEF Idle
<1>4. CASE maint' = Removal("clean", some) /\ UNCHANGED <<staged, crossed>>
  <2>1. maint'.step = "clean" /\ maint'.left = some /\ maint'.victims = some
    BY <1>4 DEF Removal, Idle
  <2> QED BY <2>1, <1>0, <1>1, <1>4
<1>3. CASE /\ ~Unreadable(some)
           /\ maint' = [Removal("write", some) EXCEPT !.base = base, !.rest = Places(some)]
           /\ staged' = IF base \in DOMAIN staged THEN staged
                        ELSE With(staged, base, [recs |-> <<>>, time |-> nextOffset])
           /\ crossed' = (crossed \/ Crosses(some))
  <2>1. maint'.step = "write" /\ maint'.left = some /\ maint'.victims = some /\ maint'.base = base
    BY <1>3 DEF Removal, Idle
  <2> HIDE DEF base, some
  <2>2. /\ DOMAIN staged' = DOMAIN staged \cup {base}
        /\ \A b \in DOMAIN staged : staged'[b] = staged[b]
        /\ base \notin DOMAIN staged => staged'[base].recs = <<>>
    BY <1>3 DEF With
  <2> QED BY <2>1, <2>2, <1>0, <1>1, <1>3
<1>f. Places(some) # {} => FileOf(Min(some)) = base
  BY OwnFileOfMin DEF Candidates
<1> HIDE DEF some, base
<1> QED
  <2>1. \/ maint' = Idle /\ UNCHANGED <<staged, crossed>>
        \/ maint' = Removal("clean", some) /\ UNCHANGED <<staged, crossed>>
        \/ /\ ~Unreadable(some)
           /\ maint' = [Removal("write", some) EXCEPT !.base = base, !.rest = Places(some)]
           /\ staged' = IF base \in DOMAIN staged THEN staged
                        ELSE With(staged, base, [recs |-> <<>>, time |-> nextOffset])
           /\ crossed' = (crossed \/ Crosses(some))
    BY <1>f, Zenon DEF MergeSegments, some
  <2> QED BY <2>1, <1>2, <1>3, <1>4

LEMMA WriteStagedFacts ==
  ASSUME ConservedInv, WriteStaged
  PROVE  /\ up /\ maint.step = "write" /\ maint'.step = "write" /\ maint'.base = maint.base
         /\ maint'.victims = maint.victims /\ maint'.left = maint.left
         /\ UNCHANGED <<files, segs, nextOffset, cutoff, offset, got, retired, torn, doubled,
                        crossed, up>>
         /\ maint.base \in DOMAIN staged /\ DOMAIN staged' = DOMAIN staged
         /\ \A b \in DOMAIN staged : b # maint.base => staged'[b] = staged[b]
         /\ \E v \in maint.victims : \E k \in DOMAIN segs[v].recs :
              /\ v \in DOMAIN segs
              /\ <<v, k>> \in maint.rest /\ maint'.rest = maint.rest \ {<<v, k>>}
              /\ \A q \in maint.rest : Ahead(<<v, k>>, q)
              /\ staged'[maint.base].recs = Append(staged[maint.base].recs, segs[v].recs[k])
<1>0. /\ up /\ maint.step = "write"
      /\ UNCHANGED <<files, segs, nextOffset, cutoff, offset, got, retired, torn, doubled,
                     crossed, up>>
  BY DEF WriteStaged, log, consumer, history, process
<1>1. PICK p \in maint.rest :
        /\ \A q \in maint.rest : Ahead(p, q)
        /\ staged' = With(staged, maint.base,
                         [recs |-> Append(staged[maint.base].recs, segs[p[1]].recs[p[2]]),
                          time |-> nextOffset])
        /\ maint' = [maint EXCEPT !.rest = @ \ {p}]
  BY DEF WriteStaged
<1>2. /\ maint'.step = "write" /\ maint'.base = maint.base
      /\ maint'.victims = maint.victims /\ maint'.left = maint.left
      /\ maint'.rest = maint.rest \ {p}
  BY <1>0, <1>1 DEF ConservedInv, PlainTypeOK
<1>3. maint.base \in DOMAIN staged
  BY <1>0 DEF ConservedInv, StagedOK
<1>4. /\ DOMAIN staged' = DOMAIN staged
      /\ \A b \in DOMAIN staged : b # maint.base => staged'[b] = staged[b]
      /\ staged'[maint.base].recs = Append(staged[maint.base].recs, segs[p[1]].recs[p[2]])
  BY <1>1, <1>3 DEF With
<1>5. p \in Places(maint.victims)
  BY <1>0 DEF ConservedInv, StagedOK
<1>6. PICK v \in maint.victims : \E k \in DOMAIN segs[v].recs : p = <<v, k>>
  BY <1>5, InPlaces
<1>7. PICK k \in DOMAIN segs[v].recs : p = <<v, k>>
  BY <1>6
<1>8. v \in DOMAIN segs
  BY DEF ConservedInv, VictimsOK
<1>9. /\ <<v, k>> \in maint.rest /\ maint'.rest = maint.rest \ {<<v, k>>}
      /\ \A q \in maint.rest : Ahead(<<v, k>>, q)
  BY <1>1, <1>2, <1>7
<1>10. staged'[maint.base].recs = Append(staged[maint.base].recs, segs[v].recs[k])
  BY <1>4, <1>7
<1> QED BY <1>0, <1>2, <1>3, <1>4, <1>8, <1>9, <1>10

(* What a removal leaves: the files but for the victim's. *)
LEMMA RemovesFacts ==
  ASSUME ConservedInv, NEW deleted \in BOOLEAN, Removes(deleted)
  PROVE  /\ up /\ maint.step \in {"retire", "clean", "drop"}
         /\ UNCHANGED <<staged, nextOffset, cutoff, offset, got, torn, crossed, up>>
         /\ Victim \in maint.left /\ Victim \in maint.victims /\ Victim \in DOMAIN segs
         /\ \A x \in maint.left : Victim <= x
         /\ DOMAIN segs' = DOMAIN segs /\ retired \subseteq retired'
         /\ \A b \in DOMAIN segs : /\ segs'[b].recs = segs[b].recs
                                   /\ segs'[b].created = segs[b].created
                                   /\ segs[b].dead => segs'[b].dead
         /\ segs'[Victim].dead
         /\ DOMAIN files' = IF deleted THEN DOMAIN files \ {Victim} ELSE DOMAIN files
         /\ \A b \in DOMAIN files' : files'[b] = files[b]
         /\ deleted /\ Victim \in DOMAIN files /\ maint.step = "retire" => Held(Victim) \subseteq retired'
<1>1. Removing /\ maint.left # {}
  BY DEF Removes
<1>2. /\ up /\ maint.step \in {"retire", "clean", "drop"}
      /\ UNCHANGED <<staged, nextOffset, cutoff, offset, got, torn, crossed, up>>
  BY <1>1 DEF Removes, Removing
<1>3. /\ Victim \in maint.left /\ Victim \in maint.victims /\ Victim \in DOMAIN segs
      /\ \A x \in maint.left : Victim <= x
  BY <1>1, VictimOK
<1>4. PICK v : v = Victim
  OBVIOUS
<1>5. /\ retired \subseteq retired'
      /\ DOMAIN segs' = DOMAIN segs
      /\ \A b \in DOMAIN segs : /\ segs'[b].recs = segs[b].recs
                                /\ segs'[b].created = segs[b].created
                                /\ segs'[b].dead = (segs[b].dead \/ b = v)
      /\ DOMAIN files' = IF deleted THEN DOMAIN files \ {v} ELSE DOMAIN files
      /\ \A b \in DOMAIN files' : files'[b] = files[b]
      /\ deleted /\ v \in DOMAIN files /\ maint.step = "retire" => Held(v) \subseteq retired'
  BY <1>4, RemovesConserved
<1>6. segs'[v].dead = TRUE /\ \A b \in DOMAIN segs : segs[b].dead => segs'[b].dead = TRUE
  BY <1>3, <1>4, <1>5
<1> QED BY <1>2, <1>3, <1>4, <1>5, <1>6, Zenon

-----------------------------------------------------------------------------
(* Leftovers of earlier merges. *)

LEMMA LeftoverKept ==
  ASSUME ConservedInv, ConservedInv', LeftoverOK, ReadableOK, [PlainNext]_vars
  PROVE  LeftoverOK' /\ ReadableOK'
<1>t. /\ cutoff.merge \in Nat /\ \A b \in DOMAIN segs : segs[b].created \in Nat
      /\ cutoff'.merge \in Nat
  BY DEF ConservedInv, PlainTypeOK, Segment
<1>1. ASSUME NEW old \in BOOLEAN, Write(old) PROVE LeftoverOK' /\ ReadableOK'
  <2>0. /\ maint.step \in {"idle", "between"} /\ maint.victims = {}
        /\ UNCHANGED <<staged, maint, cutoff, up>>
        /\ \E base \in Bases : \E recs \in Seq(Records) : Puts(base, recs)
    BY <1>1, WriteFacts
  <2>1. PICK base \in Bases, recs \in Seq(Records) : Puts(base, recs)
    BY <2>0
  <2>2. \A b \in DOMAIN staged : b # base
    BY <2>1, MaintenanceAssumption DEF Puts, Bases
  <2>3. \A b \in DOMAIN segs : b # base => b \in DOMAIN segs' /\ segs'[b] = segs[b]
    BY <2>1 DEF Puts
  <2>4. Done' = {}
    BY <2>0 DEF Done
  <2> QED BY <2>0, <2>2, <2>3, <2>4, <1>t DEF LeftoverOK, ReadableOK
<1>2. CASE Poll \/ UNCHANGED vars
  <2>1. UNCHANGED <<files, staged, segs, maint, cutoff, up>>
    BY <1>2 DEF Poll, vars, log, process
  <2> QED BY <2>1 DEF LeftoverOK, ReadableOK, Done
<1>3. ASSUME NEW c \in cutoff.retire..nextOffset, EnforceRetention(c) PROVE LeftoverOK' /\ ReadableOK'
  <2>1. /\ UNCHANGED <<files, staged, segs, up>> /\ maint.step = "idle"
        /\ maint' = Removal("retire", Victims(c)) /\ cutoff' = [cutoff EXCEPT !.retire = c]
    BY <1>3 DEF EnforceRetention, log, process
  <2>2. maint'.step = "retire" /\ Done' = {} /\ cutoff'.merge = cutoff.merge
    BY <2>1 DEF Removal, Idle, Done, ConservedInv, PlainTypeOK
  <2> QED BY <2>1, <2>2 DEF LeftoverOK, ReadableOK
<1>4. CASE RemoveNext
  <2>1. Removes(TRUE) /\ ~segs[Victim].dead /\ maint' = [maint EXCEPT !.left = @ \ {Victim}]
    BY <1>4, VictimFile DEF RemoveNext, Removes, consumer, process
  <2>v. PICK v : v = Victim
    OBVIOUS
  <2>2. /\ v \in maint.left /\ v \in maint.victims /\ v \in DOMAIN segs /\ ~segs[v].dead
        /\ maint.step \in {"retire", "clean", "drop"}
        /\ DOMAIN segs' = DOMAIN segs
        /\ \A b \in DOMAIN segs : /\ segs'[b].created = segs[b].created
                                  /\ segs[b].dead => segs'[b].dead
        /\ UNCHANGED <<staged, cutoff, up>>
    BY <2>1, <2>v, RemovesFacts
  <2>3. /\ maint'.step = maint.step /\ maint'.base = maint.base
        /\ maint'.victims = maint.victims /\ maint'.left = maint.left \ {v}
    BY <2>1, <2>v DEF ConservedInv, PlainTypeOK
  <2>4. Done' = Done \cup {v}
    BY <2>2, <2>3 DEF Done
  <2> QED BY <2>2, <2>3, <2>4 DEF LeftoverOK, ReadableOK
<1>5. ASSUME NEW deleted \in BOOLEAN, RemoveFails(deleted) PROVE LeftoverOK' /\ ReadableOK'
  <2>1. Removes(deleted) /\ maint' = Behind
    BY <1>5, VictimFile DEF RemoveFails, Removes, consumer, process
  <2>v. PICK v : v = Victim
    OBVIOUS
  <2>2. /\ v \in maint.left /\ v \in DOMAIN segs /\ segs'[v].dead
        /\ maint.step \in {"retire", "clean", "drop"}
        /\ \A x \in maint.left : v <= x
        /\ DOMAIN segs' = DOMAIN segs
        /\ \A b \in DOMAIN segs : /\ segs'[b].created = segs[b].created
                                  /\ segs[b].dead => segs'[b].dead
        /\ UNCHANGED <<staged, cutoff, up>>
    BY <2>1, <2>v, RemovesFacts
  <2>3. maint'.step \in {"idle", "between"} /\ Done' = {}
    BY <2>1, OverOK DEF Over, Done
  <2>4. maint.step = "drop" => /\ maint.base \in DOMAIN segs /\ segs'[maint.base].dead
                               /\ segs[maint.base].created <= cutoff.merge
    <3> SUFFICES ASSUME maint.step = "drop"
                 PROVE  /\ maint.base \in DOMAIN segs /\ segs'[maint.base].dead
                        /\ segs[maint.base].created <= cutoff.merge
      OBVIOUS
    <3>1. /\ maint.base \in maint.victims /\ \A x \in maint.victims : maint.base <= x
          /\ maint.left \subseteq maint.victims
          /\ maint.base \in DOMAIN segs /\ segs[maint.base].created <= cutoff.merge
          /\ \A x \in Done : segs[x].dead
      BY DEF ConservedInv, StagedOK, VictimsOK
    <3>2. CASE maint.base \in Done
      BY <3>1, <3>2, <2>2
    <3>3. CASE maint.base \in maint.left
      <4>1. \A x \in DOMAIN segs : x \in Nat
        BY MaintenanceAssumption DEF ConservedInv, PlainTypeOK, Bases
      <4>2. maint.base = v
        BY <3>1, <3>3, <4>1, <2>2
      <4> QED BY <3>1, <4>2, <2>2
    <3> QED BY <3>1, <3>2, <3>3 DEF Done
  <2> QED BY <2>2, <2>3, <2>4 DEF LeftoverOK, ReadableOK
<1>6. CASE RemovalEnds
  <2>1. /\ maint.step \in {"retire", "clean"} /\ maint.left = {} /\ UNCHANGED <<staged, cutoff, up>>
        /\ segs' = Without(segs, maint.victims) /\ maint' = Behind
    BY <1>6 DEF RemovalEnds, process
  <2>2. maint'.step \in {"idle", "between"} /\ Done' = {} /\ Done = maint.victims
    BY <2>1, OverOK DEF Over, Done
  <2>3. /\ DOMAIN segs' = DOMAIN segs \ maint.victims
        /\ \A b \in DOMAIN segs' : segs'[b] = segs[b]
    BY <2>1 DEF Without
  <2> QED BY <2>1, <2>2, <2>3 DEF LeftoverOK, ReadableOK
<1>7. ASSUME NEW c \in 0..nextOffset, c >= cutoff.merge, MergeSegments(c)
      PROVE  LeftoverOK' /\ ReadableOK'
  <2>1. /\ up /\ maint.step = "between" /\ cutoff'.merge = c /\ UNCHANGED <<files, segs, up>>
        /\ \/ /\ maint'.step \in {"idle", "clean"} /\ maint'.left = maint'.victims
              /\ UNCHANGED staged
           \/ /\ maint'.step = "write" /\ maint'.left = maint'.victims
              /\ ~Unreadable(maint'.victims)
              /\ DOMAIN staged' = DOMAIN staged \cup {maint'.base}
    BY <1>7, MergeFacts
  <2>2. Done' = {}
    BY <2>1 DEF Done
  <2>3. \A b \in DOMAIN staged : b \in DOMAIN segs /\ segs[b].dead /\ segs[b].created <= c
    BY <2>1, <1>7, <1>t DEF LeftoverOK
  <2>4. LeftoverOK'
    <3>1. maint'.step = "write" => maint'.base \in DOMAIN segs'
      BY DEF ConservedInv, StagedOK, VictimsOK
    <3> QED BY <3>1, <2>1, <2>2, <2>3 DEF LeftoverOK
  <2>5. ReadableOK'
    <3>1. \A v \in maint'.victims : v \in DOMAIN segs
      BY <2>1 DEF ConservedInv, VictimsOK
    <3> QED BY <3>1, <2>1 DEF ReadableOK, Unreadable, ConservedInv, MemoryOK
  <2> QED BY <2>4, <2>5
<1>8. CASE WriteStaged
  <2>1. /\ maint.step = "write" /\ maint'.step = "write" /\ maint'.base = maint.base
        /\ maint'.victims = maint.victims /\ maint'.left = maint.left
        /\ UNCHANGED <<files, segs, cutoff, up>> /\ DOMAIN staged' = DOMAIN staged
    BY <1>8, WriteStagedFacts
  <2> QED BY <2>1 DEF LeftoverOK, ReadableOK, Done
<1>9. CASE StagingFails \/ Swap \/ Recover
  <2>1. staged' = NoFiles /\ maint'.step = "idle"
    <3>1. Recover => maint' = Idle /\ staged' = NoFiles
      BY RecoverFacts
    <3> QED BY <3>1, <1>9 DEF StagingFails, Swap, Idle
  <2> QED BY <2>1 DEF LeftoverOK, ReadableOK, NoFiles
<1>10. CASE CloseStaged
  <2>1. /\ maint.step = "write" /\ maint' = [maint EXCEPT !.step = "drop"]
        /\ UNCHANGED <<files, staged, segs, cutoff, up>>
    BY <1>10 DEF CloseStaged, Complete, log, process
  <2>2. /\ maint'.step = "drop" /\ maint'.base = maint.base
        /\ maint'.victims = maint.victims /\ maint'.left = maint.left
    BY <2>1 DEF ConservedInv, PlainTypeOK
  <2> QED BY <2>1, <2>2 DEF LeftoverOK, ReadableOK, Done
<1>11. CASE Crash
  <2>1. ~up' /\ maint'.step = "idle"
    BY <1>11 DEF Crash, Idle
  <2> QED BY <2>1 DEF LeftoverOK, ReadableOK
<1> QED BY <1>1, <1>2, <1>3, <1>4, <1>5, <1>6, <1>7, <1>8, <1>9, <1>10, <1>11 DEF PlainNext

-----------------------------------------------------------------------------
(* Reads, as long as merges take neighbours. *)

LEMMA CoversKept ==
  ASSUME NEW b, NEW q, Covers(b, q), Lost \subseteq Lost'
  PROVE  Covers(b, q)'
BY DEF Covers

LEMMA DeliveredKept ==
  ASSUME DeliveredOK, UNCHANGED <<offset, got>>, Lost \subseteq Lost'
  PROVE  DeliveredOK'
BY DEF DeliveredOK

LEMMA DomainOfMerged ==
  /\ DOMAIN Merged = DOMAIN files \cup DOMAIN staged
  /\ \A b \in DOMAIN Merged : Merged[b] = IF b \in DOMAIN staged THEN staged[b] ELSE files[b]
BY DEF Merged

(* Steps that leave the log and what is staged. *)
LEMMA WholeSame ==
  ASSUME HomeOK, CoverOK, StandInOK, ReloadOK, UNCHANGED core
  PROVE  HomeOK' /\ CoverOK' /\ StandInOK' /\ ReloadOK'
<1>1. Lost' = Lost /\ Merged' = Merged /\ TornBy' = TornBy
  BY DEF core, Lost, Merged, TornBy
<1>2. HomeOK' /\ CoverOK'
  BY <1>1 DEF core, HomeOK, CoverOK, Covers, Held
<1>3. StandInOK'
  BY <1>1 DEF core, StandInOK, Held
<1>4. ReloadOK'
  BY <1>1 DEF core, ReloadOK
<1> QED BY <1>2, <1>3, <1>4

LEMMA WriteWhole ==
  ASSUME ConservedInv, WholeInv, NEW old \in BOOLEAN, Write(old)
  PROVE  WholeInv'
<1>0. /\ up /\ maint.step \in {"idle", "between"} /\ nextOffset' = nextOffset + 1
      /\ UNCHANGED <<staged, maint, offset, got, retired, torn, up>>
      /\ \E base \in Bases : \E recs \in Seq(Records) : Puts(base, recs)
  BY WriteFacts
<1>1. PICK base \in Bases, recs \in Seq(Records) : Puts(base, recs)
  BY <1>0
<1>n. /\ base \in Nat /\ nextOffset \in Nat
      /\ \A x \in DOMAIN segs : x \in Nat
      /\ \A x \in DOMAIN files : x \in Nat
      /\ \A x \in DOMAIN staged : x \in Nat
      /\ 0..(nextOffset' - 1) = 0..(nextOffset - 1) \cup {nextOffset}
  BY <1>0, Naturals, MaintenanceAssumption DEF Bases
<1>l. Lost' = Lost
  BY <1>0 DEF Lost
<1>s. /\ base <= nextOffset
      /\ \A b \in DOMAIN segs : b <= base
      /\ \A b \in DOMAIN staged : b < base
      /\ nextOffset \in Range(recs) /\ (base \in DOMAIN segs => Held(base) \subseteq Range(recs))
      /\ DOMAIN segs' = DOMAIN segs \cup {base} /\ segs'[base].recs = recs
      /\ \A b \in DOMAIN segs : b # base => segs'[b] = segs[b]
  BY <1>1 DEF Puts
<1>f. /\ DOMAIN files' = DOMAIN files \cup {base} /\ files'[base].recs = recs
      /\ \A b \in DOMAIN files : b # base => files'[b] = files[b]
  BY <1>1 DEF Puts
<1>h. /\ Held(base)' = Range(recs)
      /\ \A b \in DOMAIN segs : b # base => Held(b)' = Held(b)
  BY <1>s DEF Held
<1>2. HomeOK'
  <2> SUFFICES ASSUME NEW r \in 0..(nextOffset' - 1), r \notin Lost
               PROVE  \E b \in DOMAIN segs' : Floor(DOMAIN segs', r, b) /\ r \in Held(b)'
    BY <1>l DEF HomeOK, Floor
  <2>1. CASE r = nextOffset
    <3>1. Floor(DOMAIN segs', r, base) /\ r \in Held(base)'
      BY <2>1, <1>s, <1>h, <1>n DEF Floor
    <3> QED BY <3>1, <1>s
  <2>2. CASE r \in 0..(nextOffset - 1)
    <3>1. PICK b \in DOMAIN segs : Floor(DOMAIN segs, r, b) /\ r \in Held(b)
      BY <2>2, <1>0 DEF WholeInv, HomeOK
    <3>2. r \in Held(b)'
      BY <3>1, <1>s, <1>h
    <3>3. Floor(DOMAIN segs', r, b)
      <4>1. base \in DOMAIN segs \/ ~(base <= r)
        <5>1. base \in DOMAIN segs \/ base = nextOffset
          BY <1>1, <1>0, TopIsActive DEF Puts
        <5> QED BY <5>1, <2>2, <1>n
      <4> QED BY <4>1, <3>1, <1>s DEF Floor
    <3> QED BY <3>2, <3>3, <1>s
  <2> QED BY <2>1, <2>2, <1>n
<1>3. CoverOK'
  <2>1. Covers(base, recs)'
    <3> SUFFICES ASSUME NEW i \in DOMAIN recs, NEW r \in base..recs[i], r \notin Lost
                 PROVE  \E j \in DOMAIN recs : j <= i /\ recs[j] = r
      BY <1>l DEF Covers
    <3>1. CASE base \notin DOMAIN segs /\ base = nextOffset /\ recs = <<nextOffset>>
      <4>1. i = 1 /\ recs[i] = nextOffset
        BY <3>1
      <4> QED BY <3>1, <4>1, <1>n
    <3>2. CASE base = Active /\ recs = Append(segs[base].recs, nextOffset)
      <4>1. base \in DOMAIN segs /\ base \in DOMAIN files
        BY <3>2, <1>0, TopIsActive
      <4>2. files[base].recs = segs[base].recs
        BY <4>1, <1>0 DEF ConservedInv, MemoryOK
      <4>3. PICK q \in Seq(Records) : q = segs[base].recs
        BY <4>1 DEF ConservedInv, PlainTypeOK, Segment
      <4>4. /\ Len(q) \in Nat /\ DOMAIN q = 1..Len(q) /\ DOMAIN recs = 1..(Len(q) + 1)
            /\ recs[Len(q) + 1] = nextOffset /\ \A j \in 1..Len(q) : recs[j] = q[j]
        BY <4>3, <3>2
      <4>5. CASE i \in 1..Len(q)
        <5>1. Covers(base, q)
          BY <4>1, <4>2, <4>3 DEF WholeInv, CoverOK
        <5>2. i \in DOMAIN q /\ r \in base..q[i]
          BY <4>4, <4>5
        <5>3. PICK j \in DOMAIN q : j <= i /\ q[j] = r
          BY <5>1, <5>2 DEF Covers
        <5> QED BY <5>3, <4>4
      <4>6. CASE i = Len(q) + 1
        <5>1. recs[i] = nextOffset /\ r \in Nat /\ base <= r /\ r <= nextOffset
          BY <4>4, <4>6, <1>n
        <5>2. CASE r = nextOffset
          BY <5>1, <5>2, <4>6, <4>4
        <5>3. CASE r \in 0..(nextOffset - 1)
          <6>1. PICK b \in DOMAIN segs : Floor(DOMAIN segs, r, b) /\ r \in Held(b)
            BY <5>3, <1>0 DEF WholeInv, HomeOK
          <6>2. b = base
            BY <6>1, <5>1, <4>1, <1>s, <1>n DEF Floor
          <6>3. PICK j \in DOMAIN q : q[j] = r
            BY <6>1, <6>2, <4>3 DEF Held, Range
          <6>4. j \in DOMAIN recs /\ j <= i /\ recs[j] = r
            BY <6>3, <4>4, <4>6
          <6> QED BY <6>4
        <5> QED BY <5>1, <5>2, <5>3, <1>n
      <4> QED BY <4>4, <4>5, <4>6
    <3> QED BY <3>1, <3>2, <1>1 DEF Puts
  <2>2. \A b \in DOMAIN files' : Covers(b, files[b].recs)'
    <3> SUFFICES ASSUME NEW b \in DOMAIN files' PROVE Covers(b, files[b].recs)'
      OBVIOUS
    <3>0. PICK q : q = files'[b].recs
      OBVIOUS
    <3>1. CASE b = base
      BY <3>1, <2>1, <1>f
    <3>2. CASE b # base
      <4>1. b \in DOMAIN files /\ q = files[b].recs
        BY <3>0, <3>2, <1>f
      <4>2. Covers(b, q)
        BY <4>1 DEF WholeInv, CoverOK
      <4> QED BY <4>2, <3>0, <1>l DEF Covers
    <3> QED BY <3>1, <3>2
  <2>3. \A b \in DOMAIN staged : Covers(b, staged[b].recs)'
    BY <1>0, <1>l DEF WholeInv, CoverOK, Covers
  <2> QED BY <2>2, <2>3, <1>0 DEF CoverOK
<1>4. NeighboursOK'
  BY <1>0 DEF NeighboursOK
<1>5. StandInOK'
  <2> SUFFICES ASSUME NEW b \in DOMAIN segs' \ DOMAIN files', NEW r \in Held(b)', r \notin Lost
               PROVE  \E a \in DOMAIN staged' : Floor(DOMAIN Merged', b, a) /\ r \in Range(staged'[a].recs)
    BY <1>l DEF StandInOK, Floor
  <2>1. b \in DOMAIN segs /\ b # base /\ b \notin DOMAIN files /\ r \in Held(b)
    BY <1>s, <1>f, <1>h
  <2>2. PICK a \in DOMAIN staged : Floor(DOMAIN Merged, b, a) /\ r \in Range(staged[a].recs)
    BY <2>1 DEF WholeInv, StandInOK
  <2>3. ~(base <= b)
    BY <2>1, <1>s, <1>n
  <2>4. DOMAIN Merged' = DOMAIN Merged \cup {base}
    BY <1>0, <1>f DEF Merged
  <2>5. Floor(DOMAIN Merged', b, a)
    BY <2>2, <2>3, <2>4 DEF Floor
  <2> QED BY <2>2, <2>5, <1>0
<1>6. ReloadOK'
  BY <1>0 DEF ReloadOK
<1>7. DeliveredOK'
  BY <1>0, <1>l, DeliveredKept DEF WholeInv
<1> QED BY <1>2, <1>3, <1>4, <1>5, <1>6, <1>7 DEF WholeInv

(* A removal: who reads a record of the removed file after a crash finds it   *)
(* in the staged segment, which is then the one below it.                    *)
LEMMA RemovesWhole ==
  ASSUME ConservedInv, LeftoverOK, WholeInv, NEW deleted \in BOOLEAN, Removes(deleted),
         deleted => ~segs[Victim].dead
  PROVE  HomeOK' /\ CoverOK' /\ StandInOK' /\ ReloadOK' /\ DeliveredOK'
<1>v. PICK v : v = Victim
  OBVIOUS
<1>0. /\ up /\ maint.step \in {"retire", "clean", "drop"}
      /\ UNCHANGED <<staged, nextOffset, offset, got, torn, up>>
      /\ v \in maint.left /\ v \in maint.victims /\ v \in DOMAIN segs
      /\ \A x \in maint.left : v <= x
      /\ DOMAIN segs' = DOMAIN segs /\ retired \subseteq retired'
      /\ \A b \in DOMAIN segs : segs'[b].recs = segs[b].recs
      /\ DOMAIN files' = IF deleted THEN DOMAIN files \ {v} ELSE DOMAIN files
      /\ \A b \in DOMAIN files' : files'[b] = files[b]
      /\ deleted /\ v \in DOMAIN files /\ maint.step = "retire" => Held(v) \subseteq retired'
  BY <1>v, RemovesFacts
<1>n. /\ \A x \in DOMAIN segs : x \in Nat
      /\ \A x \in DOMAIN files : x \in Nat
      /\ \A x \in DOMAIN staged : x \in Nat
  BY Naturals
<1>l. Lost \subseteq Lost' /\ retired' \subseteq Lost'
  BY <1>0 DEF Lost
<1>h. \A b \in DOMAIN segs : Held(b)' = Held(b)
  BY <1>0 DEF Held
<1>1. HomeOK'
  BY <1>0, <1>l, <1>h DEF WholeInv, HomeOK, Floor
<1>2. CoverOK'
  <2>1. \A b \in DOMAIN files' : Covers(b, files[b].recs)'
    <3> TAKE b \in DOMAIN files'
    <3>0. PICK q : q = files[b].recs
      OBVIOUS
    <3>1. Covers(b, q)
      BY <3>0, <1>0 DEF WholeInv, CoverOK
    <3>2. files'[b].recs = q
      BY <3>0, <1>0
    <3> QED BY <3>1, <3>2, <1>l DEF Covers
  <2>2. \A b \in DOMAIN staged' : Covers(b, staged[b].recs)'
    BY <1>0, <1>l DEF WholeInv, CoverOK, Covers
  <2> QED BY <2>1, <2>2 DEF CoverOK
<1>3. StandInOK'
  <2> SUFFICES ASSUME NEW b \in DOMAIN segs, b \notin DOMAIN files', NEW r \in Held(b), r \notin Lost'
               PROVE  \E a \in DOMAIN staged : Floor(DOMAIN Merged', b, a) /\ r \in Range(staged[a].recs)
    BY <1>0, <1>h DEF StandInOK, Floor
  <2>m. DOMAIN Merged' = DOMAIN files' \cup DOMAIN staged /\ DOMAIN Merged = DOMAIN files \cup DOMAIN staged
    BY <1>0 DEF Merged
  <2>1. CASE b \notin DOMAIN files
    <3>1. PICK a \in DOMAIN staged : Floor(DOMAIN Merged, b, a) /\ r \in Range(staged[a].recs)
      BY <2>1, <1>l DEF WholeInv, StandInOK
    <3>2. Floor(DOMAIN Merged', b, a)
      BY <3>1, <2>m, <1>0 DEF Floor
    <3> QED BY <3>1, <3>2
  <2>2. CASE b \in DOMAIN files
    <3>1. b = v /\ deleted /\ ~segs[v].dead
      BY <2>2, <1>0, <1>v
    <3>2. maint.step # "retire"
      BY <3>1, <2>2, <1>0, <1>l
    <3>3. maint.step # "clean"
      <4>1. maint.step = "clean" => segs[v].recs = <<>>
        BY <1>0 DEF ConservedInv, VictimsOK
      <4> QED BY <4>1, <3>1 DEF Held, Range
    <3>4. maint.step = "drop"
      BY <3>2, <3>3, <1>0
    <3> DEFINE a == maint.base
    <3>5. /\ a \in DOMAIN staged /\ a <= v /\ r \in Range(staged[a].recs)
      <4>1. a \in DOMAIN staged /\ a <= v
        BY <3>4, <1>0 DEF ConservedInv, StagedOK
      <4> QED BY <4>1, <3>1, <3>4, <1>0, StagedHolds
    <3>6. \A x \in DOMAIN Merged' : x <= v => x <= a
      <4> SUFFICES ASSUME NEW x \in DOMAIN Merged', x <= v, ~(x <= a) PROVE FALSE
        OBVIOUS
      <4>1. x \in DOMAIN segs
        BY <2>m, <1>0 DEF ConservedInv, MemoryOK, LeftoverOK
      <4>2. x \in maint.victims
        BY <4>1, <3>4, <3>5, <1>0, <1>n DEF WholeInv, NeighboursOK
      <4>3. x = v \/ x \in Done
        BY <4>1, <4>2, <1>0, <1>n DEF Done
      <4>4. x \notin DOMAIN files'
        BY <4>3, <3>1, <1>0 DEF ConservedInv, VictimsOK
      <4>5. x \in DOMAIN staged /\ x # a
        BY <4>4, <2>m, <3>5, <1>n
      <4>6. segs[x].dead /\ x \notin Done
        BY <4>5, <1>0 DEF LeftoverOK
      <4> QED BY <4>3, <4>6, <3>1
    <3>7. Floor(DOMAIN Merged', b, a)
      BY <3>1, <3>5, <3>6, <2>m DEF Floor
    <3> QED BY <3>5, <3>7
  <2> QED BY <2>1, <2>2
<1>4. ReloadOK'
  BY <1>0 DEF ReloadOK
<1>5. DeliveredOK'
  BY <1>0, <1>l, DeliveredKept DEF WholeInv
<1> QED BY <1>1, <1>2, <1>3, <1>4, <1>5

LEMMA RemovalsWhole ==
  ASSUME ConservedInv, LeftoverOK, WholeInv, RemoveNext \/ \E deleted \in BOOLEAN : RemoveFails(deleted)
  PROVE  WholeInv'
<1>1. CASE RemoveNext
  <2>1. Removes(TRUE) /\ ~segs[Victim].dead /\ maint' = [maint EXCEPT !.left = @ \ {Victim}]
    BY <1>1, VictimFile DEF RemoveNext, Removes, consumer, process
  <2>2. HomeOK' /\ CoverOK' /\ StandInOK' /\ ReloadOK' /\ DeliveredOK'
    BY <2>1, RemovesWhole
  <2>3. /\ maint'.step = maint.step /\ maint'.base = maint.base /\ maint'.victims = maint.victims
        /\ DOMAIN segs' = DOMAIN segs
    BY <2>1, RemovesFacts DEF ConservedInv, PlainTypeOK
  <2>4. NeighboursOK'
    BY <2>3 DEF WholeInv, NeighboursOK
  <2> QED BY <2>2, <2>4 DEF WholeInv
<1>2. ASSUME NEW deleted \in BOOLEAN, RemoveFails(deleted) PROVE WholeInv'
  <2>1. Removes(deleted) /\ (deleted => ~segs[Victim].dead) /\ maint' = Behind
    BY <1>2, VictimFile DEF RemoveFails, Removes, consumer, process
  <2>2. HomeOK' /\ CoverOK' /\ StandInOK' /\ ReloadOK' /\ DeliveredOK'
    BY <2>1, RemovesWhole
  <2>3. NeighboursOK'
    BY <2>1, OverOK DEF Over, NeighboursOK
  <2> QED BY <2>2, <2>3 DEF WholeInv
<1> QED BY <1>1, <1>2

LEMMA RemovalEndsWhole ==
  ASSUME ConservedInv, WholeInv, RemovalEnds
  PROVE  WholeInv'
<1>0. /\ up /\ maint.step \in {"retire", "clean"} /\ maint.left = {}
      /\ segs' = Without(segs, maint.victims) /\ maint' = Behind
      /\ UNCHANGED <<files, staged, nextOffset, offset, got, retired, torn, up>>
  BY DEF RemovalEnds, consumer, history, process
<1>s. /\ DOMAIN segs' = DOMAIN segs \ maint.victims
      /\ \A b \in DOMAIN segs' : segs'[b] = segs[b]
  BY <1>0 DEF Without
<1>d. \A v \in maint.victims : Held(v) \subseteq Lost
  <2>1. Done = maint.victims
    BY <1>0 DEF Done
  <2>2. Range(<<>>) = {}
    BY DEF Range
  <2> QED BY <2>1, <2>2, <1>0 DEF ConservedInv, VictimsOK, Held, Lost
<1>l. Lost' = Lost /\ DOMAIN Merged' = DOMAIN Merged
  BY <1>0 DEF Lost, Merged
<1>1. HomeOK'
  <2> SUFFICES ASSUME NEW r \in 0..(nextOffset - 1), r \notin Lost
               PROVE  \E b \in DOMAIN segs' : Floor(DOMAIN segs', r, b) /\ r \in Held(b)'
    BY <1>0, <1>l DEF HomeOK, Floor
  <2>1. PICK b \in DOMAIN segs : Floor(DOMAIN segs, r, b) /\ r \in Held(b)
    BY <1>0 DEF WholeInv, HomeOK
  <2>2. b \in DOMAIN segs' /\ r \in Held(b)'
    BY <2>1, <1>s, <1>d DEF Held
  <2>3. Floor(DOMAIN segs', r, b)
    BY <2>1, <2>2, <1>s DEF Floor
  <2> QED BY <2>2, <2>3
<1>2. CoverOK'
  BY <1>0, <1>l DEF WholeInv, CoverOK, Covers
<1>3. NeighboursOK'
  BY <1>0, OverOK DEF Over, NeighboursOK
<1>4. StandInOK'
  <2> SUFFICES ASSUME NEW b \in DOMAIN segs', b \notin DOMAIN files, NEW r \in Held(b)', r \notin Lost
               PROVE  \E a \in DOMAIN staged : Floor(DOMAIN Merged, b, a) /\ r \in Range(staged[a].recs)
    BY <1>0, <1>l DEF StandInOK, Floor
  <2>1. b \in DOMAIN segs /\ r \in Held(b)
    BY <1>s DEF Held
  <2> QED BY <2>1 DEF WholeInv, StandInOK
<1>5. ReloadOK' /\ DeliveredOK'
  BY <1>0, <1>l DEF ReloadOK, DeliveredOK, WholeInv
<1> QED BY <1>1, <1>2, <1>3, <1>4, <1>5 DEF WholeInv

LEMMA MergeSegmentsWhole ==
  ASSUME ConservedInv, ConservedInv', WholeInv, NEW c \in 0..nextOffset, c >= cutoff.merge,
         MergeSegments(c), ~crossed'
  PROVE  WholeInv'
<1>0. /\ up /\ UNCHANGED <<files, segs, nextOffset, offset, got, retired, torn, up>>
  BY MergeFacts
<1>l. Lost' = Lost /\ \A b \in DOMAIN segs : Held(b)' = Held(b)
  BY <1>0 DEF Lost, Held
<1>1. CASE maint'.step \in {"idle", "clean"} /\ UNCHANGED staged
  <2>1. UNCHANGED core
    BY <1>0, <1>1 DEF core
  <2>2. HomeOK' /\ CoverOK' /\ StandInOK' /\ ReloadOK'
    BY <2>1, WholeSame DEF WholeInv
  <2>3. NeighboursOK' /\ DeliveredOK'
    BY <1>0, <1>1, <1>l DEF NeighboursOK, DeliveredOK, WholeInv
  <2> QED BY <2>2, <2>3 DEF WholeInv
<1>2. CASE /\ maint'.step = "write" /\ maint'.left = maint'.victims
           /\ crossed' = (crossed \/ Crosses(maint'.victims))
           /\ DOMAIN staged' = DOMAIN staged \cup {maint'.base}
           /\ \A b \in DOMAIN staged : staged'[b] = staged[b]
           /\ maint'.base \notin DOMAIN staged => staged'[maint'.base].recs = <<>>
  <2>1. HomeOK'
    BY <1>0, <1>l DEF WholeInv, HomeOK
  <2>2. CoverOK'
    <3>1. \A b \in DOMAIN files : Covers(b, files[b].recs)'
      BY <1>0, <1>l DEF WholeInv, CoverOK, Covers
    <3>2. \A b \in DOMAIN staged' : Covers(b, staged[b].recs)'
      <4> TAKE b \in DOMAIN staged'
      <4>1. CASE b \in DOMAIN staged
        <5>0. PICK q : q = staged[b].recs
          OBVIOUS
        <5>1. Covers(b, q) /\ staged'[b].recs = q
          BY <5>0, <4>1, <1>2 DEF WholeInv, CoverOK
        <5> QED BY <5>1, <1>l DEF Covers
      <4>2. CASE b \notin DOMAIN staged
        <5>1. staged'[b].recs = <<>>
          BY <4>2, <1>2
        <5> QED BY <5>1 DEF Covers
      <4> QED BY <4>1, <4>2
    <3> QED BY <3>1, <3>2, <1>0 DEF CoverOK
  <2>3. NeighboursOK'
    <3> SUFFICES ASSUME NEW v \in maint'.victims, NEW x \in DOMAIN segs,
                        maint'.base <= x, x <= v, x \notin maint'.victims
                 PROVE  FALSE
      BY <1>0 DEF NeighboursOK
    <3>1. maint'.base \in maint'.victims
      BY <1>2 DEF ConservedInv, StagedOK
    <3>2. maint'.base # x /\ x # v
      BY <3>1
    <3>3. maint'.base \in Nat /\ x \in Nat /\ v \in Nat
      BY <3>1, MaintenanceAssumption DEF ConservedInv, PlainTypeOK, Bases
    <3>4. Crosses(maint'.victims)
      BY <3>1, <3>2, <3>3 DEF Crosses
    <3> QED BY <3>4, <1>2
  <2>4. StandInOK'
    <3>1. Done' = {}
      BY <1>2 DEF Done
    <3>2. \A b \in DOMAIN segs' \ DOMAIN files' : Held(b)' \subseteq Lost'
      BY <3>1, <1>2 DEF ConservedInv, GoneOK, Lost
    <3> QED BY <3>2 DEF StandInOK
  <2>5. ReloadOK' /\ DeliveredOK'
    BY <1>0, <1>l DEF ReloadOK, DeliveredOK, WholeInv
  <2> QED BY <2>1, <2>2, <2>3, <2>4, <2>5 DEF WholeInv
<1> QED BY <1>1, <1>2, MergeFacts

(* A record that is staged is behind all that come before it. *)
LEMMA WriteStagedWhole ==
  ASSUME ConservedInv, ReadableOK, WholeInv, WriteStaged
  PROVE  WholeInv'
<1>b. PICK base : base = maint.base
  OBVIOUS
<1>0. /\ up /\ maint.step = "write" /\ maint'.step = "write" /\ maint'.base = base
      /\ maint'.victims = maint.victims /\ maint'.left = maint.left
      /\ UNCHANGED <<files, segs, nextOffset, offset, got, retired, torn, up>>
      /\ base \in DOMAIN staged /\ DOMAIN staged' = DOMAIN staged
      /\ \A b \in DOMAIN staged : b # base => staged'[b] = staged[b]
      /\ \E v \in maint.victims : \E k \in DOMAIN segs[v].recs :
           /\ v \in DOMAIN segs
           /\ \A q \in maint.rest : Ahead(<<v, k>>, q)
           /\ staged'[base].recs = Append(staged[base].recs, segs[v].recs[k])
  BY <1>b, WriteStagedFacts
<1>v. PICK v \in maint.victims : \E k \in DOMAIN segs[v].recs :
           /\ v \in DOMAIN segs
           /\ \A q \in maint.rest : Ahead(<<v, k>>, q)
           /\ staged'[base].recs = Append(staged[base].recs, segs[v].recs[k])
  BY <1>0
<1>1. PICK k \in DOMAIN segs[v].recs :
           /\ v \in DOMAIN segs
           /\ \A q \in maint.rest : Ahead(<<v, k>>, q)
           /\ staged'[base].recs = Append(staged[base].recs, segs[v].recs[k])
  BY <1>v
<1>x. PICK x : x = segs[v].recs[k]
  OBVIOUS
<1>q. PICK q \in Seq(Records) : q = staged[base].recs
  BY <1>0 DEF ConservedInv, PlainTypeOK, File
<1>2. /\ segs[v].recs \in Seq(Records) /\ x \in Held(v) /\ x \in 0..(nextOffset - 1) /\ x \in Records
  <2>1. segs[v].recs \in Seq(Records)
    BY <1>1 DEF ConservedInv, PlainTypeOK, Segment
  <2>2. x \in Held(v)
    BY <1>x DEF Held, Range
  <2>3. x \in 0..(nextOffset - 1)
    BY <2>2, <1>1 DEF ConservedInv, BelowOK
  <2>4. x \in Records
    BY <2>1, <2>2, RangeOfSeq DEF Held
  <2> QED BY <2>1, <2>2, <2>3, <2>4
<1>n. /\ \A y \in DOMAIN segs : y \in Nat
      /\ nextOffset \in Nat /\ base \in Nat
  BY <1>0, Naturals
<1>s. /\ staged'[base].recs = Append(q, x)
      /\ DOMAIN Append(q, x) = 1..(Len(q) + 1) /\ Len(q) \in Nat /\ DOMAIN q = 1..Len(q)
      /\ Append(q, x)[Len(q) + 1] = x /\ \A j \in 1..Len(q) : Append(q, x)[j] = q[j]
  BY <1>1, <1>x, <1>q, <1>2
<1>l. Lost' = Lost /\ \A b \in DOMAIN segs : Held(b)' = Held(b)
  BY <1>0 DEF Lost, Held
<1>m. /\ base \in maint.victims /\ \A y \in maint.victims : base <= y
      /\ \A p \in Places(maint.victims) \ maint.rest : Rec(p) \in Range(q)
  BY <1>0, <1>b, <1>q DEF ConservedInv, StagedOK
<1>3. HomeOK'
  BY <1>0, <1>l DEF WholeInv, HomeOK
<1>4. \A r \in base..x : r \in Lost \/ r = x \/ r \in Range(q)
  <2> SUFFICES ASSUME NEW r \in base..x, r \notin Lost, r # x PROVE r \in Range(q)
    OBVIOUS
  <2>1. r \in 0..(nextOffset - 1) /\ r < x /\ base <= r
    BY <1>2, <1>n
  <2>2. PICK h \in DOMAIN segs : Floor(DOMAIN segs, r, h) /\ r \in Held(h)
    BY <2>1, <1>0 DEF WholeInv, HomeOK
  <2>3. base \in DOMAIN segs /\ base <= h
    BY <2>1, <2>2, <1>m DEF Floor, ConservedInv, VictimsOK
  <2>4. CASE h < v
    <3>1. h \in maint.victims
      BY <2>3, <2>4, <1>0, <1>1, <1>b, <1>n DEF WholeInv, NeighboursOK
    <3>2. PICK i \in DOMAIN segs[h].recs : segs[h].recs[i] = r
      BY <2>2 DEF Held, Range
    <3>3. <<h, i>> \in Places(maint.victims)
      BY <3>1, <3>2, InPlaces
    <3>4. <<h, i>> \notin maint.rest
      <4>1. ~Ahead(<<v, k>>, <<h, i>>)
        BY <2>4, <1>1, <1>n DEF Ahead
      <4> QED BY <4>1, <1>1
    <3>5. Rec(<<h, i>>) = r
      BY <3>2 DEF Rec
    <3> QED BY <3>3, <3>4, <3>5, <1>m
  <2>5. CASE v <= h
    <3>1. v <= r
      BY <2>1, <2>2, <2>5, <1>1, <1>n DEF Floor
    <3>2. Covers(v, segs[v].recs)
      <4>1. v \in DOMAIN files
        <5>1. segs[v].recs # <<>>
          BY <1>2, RangeOfSeq DEF Held
        <5> QED BY <5>1, <1>0, <1>1 DEF ReadableOK
      <4>2. files[v].recs = segs[v].recs
        BY <4>1, <1>1, <1>0 DEF ConservedInv, MemoryOK
      <4>3. Covers(v, files[v].recs)
        BY <4>1 DEF WholeInv, CoverOK
      <4> QED BY <4>2, <4>3
    <3>3. r \in v..segs[v].recs[k]
      BY <3>1, <2>1, <1>x, <1>1, <1>n, <1>2
    <3>4. PICK j \in DOMAIN segs[v].recs : j <= k /\ segs[v].recs[j] = r
      BY <3>2, <3>3, <1>1 DEF Covers
    <3>5. <<v, j>> \in Places(maint.victims) /\ Rec(<<v, j>>) = r
      BY <3>4, InPlaces DEF Rec
    <3>6. <<v, j>> \notin maint.rest
      <4>1. j # k /\ j \in Nat /\ k \in Nat
        BY <3>4, <1>x, <1>2
      <4>2. ~Ahead(<<v, k>>, <<v, j>>)
        BY <4>1, <3>4, <1>1, <1>n DEF Ahead
      <4> QED BY <4>2, <1>1
    <3> QED BY <3>5, <3>6, <1>m
  <2> QED BY <2>4, <2>5, <1>1, <1>n
<1>5. CoverOK'
  <2>1. \A b \in DOMAIN files : Covers(b, files[b].recs)'
    BY <1>0, <1>l DEF WholeInv, CoverOK, Covers
  <2>2. \A b \in DOMAIN staged' : Covers(b, staged[b].recs)'
    <3> TAKE b \in DOMAIN staged'
    <3>0. PICK s : s = staged[b].recs
      OBVIOUS
    <3>1. Covers(b, s)
      BY <3>0, <1>0 DEF WholeInv, CoverOK
    <3>2. CASE b # base
      <4>1. staged'[b].recs = s
        BY <3>0, <3>2, <1>0
      <4> QED BY <3>1, <4>1, <1>l DEF Covers
    <3>3. CASE b = base
      <4>a. PICK a : a = Append(q, x)
        OBVIOUS
      <4>s. /\ DOMAIN a = 1..(Len(q) + 1) /\ Len(q) \in Nat /\ DOMAIN q = 1..Len(q)
            /\ a[Len(q) + 1] = x /\ \A j \in 1..Len(q) : a[j] = q[j]
        BY <4>a, <1>s
      <4>0. Covers(b, q)
        BY <3>0, <3>1, <3>3, <1>q
      <4>1. ASSUME NEW i \in DOMAIN a, NEW r \in b..a[i], r \notin Lost
            PROVE  \E j \in DOMAIN a : j <= i /\ a[j] = r
        <5>1. CASE i \in 1..Len(q)
          <6>1. i \in DOMAIN q /\ r \in b..q[i]
            BY <4>1, <5>1, <4>s
          <6>2. PICK j \in DOMAIN q : j <= i /\ q[j] = r
            BY <4>0, <4>1, <6>1 DEF Covers
          <6> QED BY <6>2, <4>s
        <5>2. CASE i = Len(q) + 1
          <6>1. r \in base..x
            BY <4>1, <5>2, <4>s, <3>3
          <6>2. CASE r = x
            BY <6>2, <5>2, <4>s
          <6>3. CASE r \in Range(q)
            <7>1. PICK j \in DOMAIN q : q[j] = r
              BY <6>3 DEF Range
            <7>2. j \in DOMAIN a /\ j <= i /\ a[j] = r
              BY <7>1, <5>2, <4>s
            <7> QED BY <7>2
          <6> QED BY <6>1, <6>2, <6>3, <4>1, <1>4
        <5> QED BY <4>1, <5>1, <5>2, <4>s
      <4>2. Covers(b, a)
        BY <4>1 DEF Covers
      <4>3. staged'[b].recs = a
        BY <4>a, <3>3, <1>s
      <4> QED BY <4>2, <4>3, <1>l DEF Covers
    <3> QED BY <3>2, <3>3
  <2> QED BY <2>1, <2>2, <1>0 DEF CoverOK
<1>6. NeighboursOK'
  BY <1>0, <1>b DEF WholeInv, NeighboursOK
<1>7. StandInOK'
  <2> SUFFICES ASSUME NEW b \in DOMAIN segs, b \notin DOMAIN files, NEW r \in Held(b), r \notin Lost
               PROVE  \E a \in DOMAIN staged : Floor(DOMAIN Merged', b, a) /\ r \in Range(staged'[a].recs)
    BY <1>0, <1>l DEF StandInOK, Floor
  <2>1. PICK a \in DOMAIN staged : Floor(DOMAIN Merged, b, a) /\ r \in Range(staged[a].recs)
    BY DEF WholeInv, StandInOK
  <2>2. DOMAIN Merged' = DOMAIN Merged
    BY <1>0 DEF Merged
  <2>3. r \in Range(staged'[a].recs)
    <3>1. CASE a # base
      BY <2>1, <3>1, <1>0
    <3>2. CASE a = base
      <4>1. r \in Range(q)
        BY <2>1, <3>2, <1>q
      <4>2. Range(Append(q, x)) = Range(q) \cup {x}
        BY <1>2, RangeOfAppend
      <4> QED BY <4>1, <4>2, <3>2, <1>s
    <3> QED BY <3>1, <3>2
  <2> QED BY <2>1, <2>2, <2>3 DEF Floor
<1>8. ReloadOK' /\ DeliveredOK'
  BY <1>0, <1>l DEF ReloadOK, DeliveredOK, WholeInv
<1> QED BY <1>3, <1>5, <1>6, <1>7, <1>8 DEF WholeInv

LEMMA StagingFailsWhole ==
  ASSUME ConservedInv, WholeInv, StagingFails
  PROVE  WholeInv'
<1>0. /\ up /\ maint.step = "write" /\ maint' = Idle /\ DOMAIN staged' = {}
      /\ UNCHANGED <<files, segs, nextOffset, offset, got, retired, torn, up>>
  BY DEF StagingFails, log, consumer, history, process, NoFiles
<1>l. Lost' = Lost /\ \A b \in DOMAIN segs : Held(b)' = Held(b)
  BY <1>0 DEF Lost, Held
<1>1. HomeOK' /\ NeighboursOK' /\ ReloadOK' /\ DeliveredOK'
  BY <1>0, <1>l DEF WholeInv, HomeOK, NeighboursOK, ReloadOK, DeliveredOK, Idle
<1>2. CoverOK'
  BY <1>0, <1>l DEF WholeInv, CoverOK, Covers
<1>3. StandInOK'
  <2>1. Done = {}
    BY <1>0 DEF ConservedInv, VictimsOK, Done
  <2>2. \A b \in DOMAIN segs \ DOMAIN files : Held(b) \subseteq Lost
    BY <2>1, <1>0 DEF ConservedInv, GoneOK, Lost
  <2> QED BY <2>2, <1>0, <1>l DEF StandInOK
<1> QED BY <1>1, <1>2, <1>3 DEF WholeInv

LEMMA SwapWhole ==
  ASSUME ConservedInv, WholeInv, Swap
  PROVE  WholeInv'
<1>b. PICK base : base = maint.base
  OBVIOUS
<1>0. /\ up /\ maint.step = "drop" /\ maint' = Idle /\ staged' = NoFiles
      /\ UNCHANGED <<nextOffset, offset, got, retired, torn, up>>
      /\ base \in maint.victims /\ base \in DOMAIN staged
      /\ staged[base] \in File
  BY <1>b, SwapFacts
<1>f. /\ DOMAIN files' = DOMAIN files \cup {base} /\ files'[base] = staged[base]
      /\ \A b \in DOMAIN files : b # base => files'[b] = files[b]
  BY <1>b, SwapFacts
<1>s. /\ DOMAIN segs' = (DOMAIN segs \ maint.victims) \cup {base}
      /\ segs'[base] = Opened(staged[base])
      /\ \A b \in DOMAIN segs \ maint.victims : segs'[b] = segs[b]
  BY <1>b, SwapFacts
<1>v. /\ \A v \in maint.victims : v \in DOMAIN segs
      /\ \A b \in DOMAIN segs \ maint.victims : b \in DOMAIN files \/ Held(b) \subseteq retired
      /\ \A v \in maint.victims : base <= v
  <2>1. \A v \in maint.victims : base <= v
    BY <1>0, <1>b DEF ConservedInv, StagedOK
  <2> QED BY <2>1, SwapFacts
<1>n. /\ \A x \in DOMAIN segs : x \in Nat
      /\ DOMAIN staged' = {}
  BY <1>0, Naturals DEF NoFiles
<1>l. Lost' = Lost
  BY <1>0 DEF Lost
<1>h. /\ Held(base)' = Range(staged[base].recs)
      /\ \A b \in DOMAIN segs \ maint.victims : Held(b)' = Held(b)
  <2>1. segs'[base].recs = staged[base].recs
    BY <1>0, <1>s, OpenedOK
  <2> QED BY <2>1, <1>s DEF Held
<1>1. HomeOK'
  <2> SUFFICES ASSUME NEW r \in 0..(nextOffset - 1), r \notin Lost
               PROVE  \E b \in DOMAIN segs' : Floor(DOMAIN segs', r, b) /\ r \in Held(b)'
    BY <1>0, <1>l DEF HomeOK, Floor
  <2>1. PICK b \in DOMAIN segs : Floor(DOMAIN segs, r, b) /\ r \in Held(b)
    BY <1>0 DEF WholeInv, HomeOK
  <2>2. CASE b \notin maint.victims
    <3>1. b \in DOMAIN segs' /\ r \in Held(b)'
      BY <2>1, <2>2, <1>s, <1>h
    <3>2. Floor(DOMAIN segs', r, b)
      BY <2>1, <3>1, <1>s, <1>0, <1>v DEF Floor
    <3> QED BY <3>1, <3>2
  <2>3. CASE b \in maint.victims
    <3>1. base \in DOMAIN segs' /\ r \in Held(base)'
      <4>1. r \in Range(staged[base].recs)
        BY <2>1, <2>3, <1>0, <1>b, StagedHolds
      <4> QED BY <4>1, <1>s, <1>h
    <3>2. \A x \in DOMAIN segs' : x <= r => x <= base
      <4> SUFFICES ASSUME NEW x \in DOMAIN segs', x <= r, ~(x <= base) PROVE FALSE
        OBVIOUS
      <4>1. x \in DOMAIN segs \ maint.victims /\ base \in DOMAIN segs
        BY <1>s, <1>n, <1>v, <1>0
      <4>2. x <= b /\ base <= x
        BY <4>1, <2>1, <1>n DEF Floor
      <4> QED BY <4>1, <4>2, <2>3, <1>0, <1>b DEF WholeInv, NeighboursOK
    <3>3. base <= r
      BY <2>1, <2>3, <1>v, <1>n, <1>0 DEF Floor
    <3>4. Floor(DOMAIN segs', r, base)
      BY <3>1, <3>2, <3>3 DEF Floor
    <3> QED BY <3>1, <3>4
  <2> QED BY <2>2, <2>3
<1>2. CoverOK'
  <2>1. \A b \in DOMAIN files' : Covers(b, files[b].recs)'
    <3> TAKE b \in DOMAIN files'
    <3>0. PICK q : q = files'[b].recs
      OBVIOUS
    <3>1. Covers(b, q)
      <4>1. CASE b = base
        BY <3>0, <4>1, <1>f, <1>0 DEF WholeInv, CoverOK
      <4>2. CASE b # base
        BY <3>0, <4>2, <1>f DEF WholeInv, CoverOK
      <4> QED BY <4>1, <4>2
    <3> QED BY <3>0, <3>1, <1>l DEF Covers
  <2> QED BY <2>1, <1>n DEF CoverOK
<1>3. NeighboursOK' /\ ReloadOK' /\ DeliveredOK'
  BY <1>0, <1>l DEF NeighboursOK, Idle, ReloadOK, DeliveredOK, WholeInv
<1>4. StandInOK'
  <2>1. \A b \in DOMAIN segs' \ DOMAIN files' : Held(b)' \subseteq Lost'
    BY <1>s, <1>f, <1>v, <1>h, <1>l DEF Lost
  <2> QED BY <2>1 DEF StandInOK
<1> QED BY <1>1, <1>2, <1>3, <1>4 DEF WholeInv

(* Wherever the process dies, the next one finds every record where findSegment *)
(* will look for it.                                                         *)
LEMMA CrashWhole ==
  ASSUME ConservedInv, LeftoverOK, WholeInv, Crash
  PROVE  WholeInv'
<1>0. /\ up /\ maint' = Idle /\ DOMAIN segs' = {} /\ up' = FALSE
      /\ UNCHANGED <<files, staged, nextOffset, offset, got, retired, torn>>
  BY DEF Crash, consumer, history
<1>l. Lost' = Lost /\ Merged' = Merged /\ TornBy' = TornBy
  BY <1>0 DEF Lost, Merged, TornBy
<1>n. /\ \A x \in DOMAIN segs : x \in Nat
      /\ nextOffset \in Nat
  BY Naturals
<1>m. /\ DOMAIN Merged = DOMAIN files \cup DOMAIN staged
      /\ \A b \in DOMAIN Merged : Merged[b] = IF b \in DOMAIN staged THEN staged[b] ELSE files[b]
  BY DomainOfMerged
<1>d. DOMAIN Merged \subseteq DOMAIN segs
  BY <1>0, <1>m DEF LeftoverOK, ConservedInv, MemoryOK
<1>1. HomeOK' /\ NeighboursOK' /\ StandInOK' /\ DeliveredOK'
  BY <1>0, <1>l DEF HomeOK, NeighboursOK, StandInOK, Idle, DeliveredOK, WholeInv
<1>2. CoverOK'
  BY <1>0, <1>l DEF WholeInv, CoverOK, Covers
<1>3. ReloadOK'
  <2> SUFFICES ASSUME NEW r \in 0..(nextOffset - 1), r \notin Lost
               PROVE  \E b \in DOMAIN Merged : /\ Floor(DOMAIN Merged, r, b)
                                               /\ r \in Range(Merged[b].recs) \cup TornBy
    BY <1>0, <1>l DEF ReloadOK, Floor
  <2>1. PICK h \in DOMAIN segs : Floor(DOMAIN segs, r, h) /\ r \in Held(h)
    BY <1>0 DEF WholeInv, HomeOK
  <2>2. CASE h \in DOMAIN files
    <3>1. Floor(DOMAIN Merged, r, h)
      BY <2>1, <2>2, <1>m, <1>d DEF Floor
    <3>2. r \in Range(files[h].recs)
      BY <2>1, <2>2, <1>0 DEF ConservedInv, MemoryOK, Held
    <3>3. r \in Range(Merged[h].recs) \cup TornBy
      <4>1. CASE h \in DOMAIN staged
        <5>1. r \in Range(staged[h].recs) \/ r \in TornBy
          BY <4>1, <2>2, <3>2 DEF TornBy
        <5>2. Merged[h] = staged[h]
          BY <4>1, <1>m
        <5> QED BY <5>1, <5>2
      <4>2. CASE h \notin DOMAIN staged
        <5>1. Merged[h] = files[h]
          BY <4>2, <2>2, <1>m
        <5> QED BY <5>1, <3>2
      <4> QED BY <4>1, <4>2
    <3> QED BY <2>2, <3>1, <3>3, <1>m
  <2>3. CASE h \notin DOMAIN files
    <3>1. PICK a \in DOMAIN staged : Floor(DOMAIN Merged, h, a) /\ r \in Range(staged[a].recs)
      BY <2>1, <2>3 DEF WholeInv, StandInOK
    <3>2. a \in DOMAIN Merged /\ Merged[a] = staged[a]
      BY <3>1, <1>m
    <3>3. Floor(DOMAIN Merged, r, a)
      <4>1. a <= h /\ h <= r /\ a \in Nat /\ h \in Nat
        BY <2>1, <3>1, <3>2, <1>d, <1>n DEF Floor
      <4>2. \A x \in DOMAIN Merged : x <= r => x <= a
        BY <2>1, <3>1, <1>d DEF Floor
      <4> QED BY <4>1, <4>2, <3>2 DEF Floor
    <3> QED BY <3>1, <3>2, <3>3
  <2> QED BY <2>2, <2>3
<1> QED BY <1>1, <1>2, <1>3 DEF WholeInv

LEMMA RecoverWhole ==
  ASSUME ConservedInv, WholeInv, Recover
  PROVE  WholeInv'
<1>0. /\ ~up /\ up' = TRUE /\ maint' = Idle /\ staged' = NoFiles /\ nextOffset' = nextOffset
      /\ files' = Merged /\ torn' = torn \cup TornBy
      /\ UNCHANGED <<offset, got, retired>>
      /\ DOMAIN segs' = DOMAIN Merged
      /\ \A b \in DOMAIN Merged : segs'[b].recs = Merged[b].recs
  BY RecoverFacts
<1>l. Lost' = Lost \cup TornBy
  BY <1>0 DEF Lost
<1>m. /\ DOMAIN Merged = DOMAIN files \cup DOMAIN staged
      /\ \A b \in DOMAIN Merged : Merged[b] = IF b \in DOMAIN staged THEN staged[b] ELSE files[b]
  BY DomainOfMerged
<1>h. \A b \in DOMAIN Merged : Held(b)' = Range(Merged[b].recs)
  BY <1>0 DEF Held
<1>1. HomeOK'
  <2> SUFFICES ASSUME NEW r \in 0..(nextOffset - 1), r \notin Lost'
               PROVE  \E b \in DOMAIN segs' : Floor(DOMAIN segs', r, b) /\ r \in Held(b)'
    BY <1>0 DEF HomeOK, Floor
  <2>1. PICK b \in DOMAIN Merged : /\ Floor(DOMAIN Merged, r, b)
                                   /\ r \in Range(Merged[b].recs) \cup TornBy
    BY <1>0, <1>l DEF WholeInv, ReloadOK
  <2> QED BY <2>1, <1>0, <1>l, <1>h
<1>2. CoverOK'
  <2>1. \A b \in DOMAIN files' : Covers(b, files[b].recs)'
    <3> TAKE b \in DOMAIN files'
    <3>0. PICK q : q = Merged[b].recs
      OBVIOUS
    <3>1. Covers(b, q)
      <4>1. CASE b \in DOMAIN staged
        BY <3>0, <4>1, <1>m DEF WholeInv, CoverOK
      <4>2. CASE b \notin DOMAIN staged
        BY <3>0, <4>2, <1>0, <1>m DEF WholeInv, CoverOK
      <4> QED BY <4>1, <4>2
    <3>2. files'[b].recs = q
      BY <3>0, <1>0
    <3> QED BY <3>1, <3>2, <1>l DEF Covers
  <2> QED BY <2>1, <1>0 DEF CoverOK, NoFiles
<1>3. NeighboursOK' /\ StandInOK' /\ ReloadOK' /\ DeliveredOK'
  BY <1>0, <1>l DEF NeighboursOK, StandInOK, ReloadOK, DeliveredOK, WholeInv, Idle
<1> QED BY <1>1, <1>2, <1>3 DEF WholeInv

-----------------------------------------------------------------------------
(* A poll. *)

(* Where a segment is read, its records come in such an order that none is    *)
(* behind a later one for the first time.                                    *)
LEMMA BatchCovers ==
  ASSUME ConservedInv, WholeInv, up, ~segs[SegmentOf(offset)].dead
  PROVE  \A i \in DOMAIN Batch : \A r \in offset..Batch[i] :
           r \in Lost \/ \E j \in DOMAIN Batch : j <= i /\ Batch[j] = r
<1>n. offset \in Nat /\ nextOffset \in Nat /\ \A x \in DOMAIN segs : x \in Nat
  BY Naturals
<1>s. PICK s : s = SegmentOf(offset)
  OBVIOUS
<1>1. /\ s \in DOMAIN segs
      /\ \/ Floor(DOMAIN segs, offset, s)
         \/ \A b \in DOMAIN segs : offset < b
  BY <1>n, <1>s, SegmentOfFloor
<1>2. s \in DOMAIN files /\ Batch = files[s].recs
  BY <1>1, <1>s DEF ConservedInv, MemoryOK, Batch
<1>3. Covers(s, Batch)
  BY <1>2 DEF WholeInv, CoverOK
<1> SUFFICES ASSUME NEW i \in DOMAIN Batch, NEW r \in offset..Batch[i], r \notin Lost
             PROVE  \E j \in DOMAIN Batch : j <= i /\ Batch[j] = r
  OBVIOUS
<1>4. Batch[i] \in 0..(nextOffset - 1)
  BY BatchType
<1>5. r \in 0..(nextOffset - 1) /\ offset <= r /\ r <= Batch[i]
  BY <1>4, <1>n
<1>6. s <= r
  <2>1. CASE Floor(DOMAIN segs, offset, s)
    BY <2>1, <1>1, <1>5, <1>n DEF Floor
  <2>2. CASE \A b \in DOMAIN segs : offset < b
    <3>1. PICK h \in DOMAIN segs : Floor(DOMAIN segs, r, h)
      BY <1>5 DEF WholeInv, HomeOK
    <3>2. s <= h
      <4>1. SegmentOf(offset) = Min(DOMAIN segs)
        <5>1. {b \in DOMAIN segs : b <= offset} = {}
          BY <2>2, <1>n
        <5> QED BY <5>1 DEF SegmentOf
      <4>2. DOMAIN segs \in SUBSET Nat /\ DOMAIN segs # {}
        BY <1>n, <1>1
      <4>3. \A x \in DOMAIN segs : Min(DOMAIN segs) <= x
        BY <4>2, MinOf
      <4> QED BY <4>1, <4>3, <1>s
    <3> QED BY <3>1, <3>2, <1>1, <1>5, <1>n DEF Floor
  <2> QED BY <2>1, <2>2, <1>1
<1>7. r \in s..Batch[i]
  BY <1>5, <1>6, <1>4, <1>1, <1>n
<1> QED BY <1>3, <1>7 DEF Covers

(* A record that a poll comes to is returned, where it stands first. *)
LEMMA FirstIsFresh ==
  ASSUME ConservedInv, WholeInv, up, ~segs[SegmentOf(offset)].dead,
         NEW i \in Read, Batch[i] \notin Lost, \A j \in DOMAIN Batch : Batch[j] = Batch[i] => i <= j
  PROVE  i \in Fresh
<1>n. offset \in Nat /\ nextOffset \in Nat
  BY Naturals
<1>1. i \in DOMAIN Batch /\ offset <= Batch[i]
  BY DEF Read
<1>2. /\ DOMAIN Batch = 1..Len(Batch) /\ Len(Batch) \in Nat
      /\ \A j \in DOMAIN Batch : Batch[j] \in 0..(nextOffset - 1)
  BY BatchType
<1> DEFINE S == {j \in Read : j < i}
<1>3. S \in SUBSET Read
  OBVIOUS
<1>4. CASE S = {}
  <2>1. OffsetAfter(S) = offset
    BY <1>3, <1>4, OffsetAfterOf
  <2> QED BY <2>1, <1>1 DEF Fresh
<1>5. CASE S # {}
  <2>1. PICK m \in S : OffsetAfter(S) = Batch[m] + 1
    <3> HIDE DEF S
    <3> QED BY <1>3, <1>5, OffsetAfterOf
  <2>2. m \in DOMAIN Batch /\ m < i
    BY <2>1 DEF Read
  <2>3. Batch[m] < Batch[i]
    <3> SUFFICES ASSUME Batch[i] <= Batch[m] PROVE FALSE
      BY <2>2, <1>1, <1>2
    <3>1. Batch[i] \in offset..Batch[m]
      BY <2>2, <1>1, <1>2, <1>n
    <3>2. PICK j \in DOMAIN Batch : j <= m /\ Batch[j] = Batch[i]
      BY <3>1, <2>2, BatchCovers
    <3> QED BY <3>2, <2>2, <1>1, <1>2
  <2>4. Batch[i] >= OffsetAfter(S)
    BY <2>1, <2>2, <2>3, <1>1, <1>2
  <2> QED BY <2>4 DEF Fresh
<1> QED BY <1>4, <1>5

LEMMA FirstPlace ==
  ASSUME ConservedInv, up, NEW j \in DOMAIN Batch
  PROVE  \E i \in DOMAIN Batch : /\ Batch[i] = Batch[j] /\ i <= j
                                 /\ \A k \in DOMAIN Batch : Batch[k] = Batch[i] => i <= k
<1> DEFINE T == {i \in DOMAIN Batch : Batch[i] = Batch[j]}
<1>1. DOMAIN Batch = 1..Len(Batch) /\ Len(Batch) \in Nat
  BY BatchType
<1>2. T \in SUBSET Nat /\ j \in T
  BY <1>1
<1>3. PICK i \in T : \A t \in T : i <= t
  <2> HIDE DEF T
  <2> QED BY <1>2, LeastNat
<1> QED BY <1>2, <1>3

LEMMA FiniteBatch ==
  ASSUME ConservedInv, up, NEW S \in SUBSET (DOMAIN Batch)
  PROVE  IsFiniteSet(S) /\ Cardinality(S) \in Nat
<1>1. DOMAIN Batch = 1..Len(Batch) /\ Len(Batch) \in Nat
  BY BatchType
<1>2. IsFiniteSet(1..Len(Batch))
  BY <1>1, FS_Interval
<1> QED BY <1>1, <1>2, FS_Subset, FS_CardinalityType

LEMMA PollWhole ==
  ASSUME ConservedInv, WholeInv, Poll
  PROVE  WholeInv'
<1>0. /\ up /\ UNCHANGED core /\ UNCHANGED maint
      /\ ~segs[SegmentOf(offset)].dead /\ Polled # {}
      /\ offset' = OffsetAfter(Visited)
      /\ got' = [r \in Records |-> got[r] + Cardinality({i \in Polled : Batch[i] = r})]
  BY DEF Poll, Free, core, log, history, process
<1>1. HomeOK' /\ CoverOK' /\ StandInOK' /\ ReloadOK'
  BY <1>0, WholeSame DEF WholeInv
<1>2. NeighboursOK'
  BY <1>0 DEF WholeInv, NeighboursOK, core
<1>l. Lost' = Lost
  BY <1>0 DEF Lost, core
<1>n. offset \in Nat /\ nextOffset \in 0..MaxRecords /\ MaxRecords \in Nat /\ MaxPoll \in Nat
  BY Naturals, MaintenanceAssumption DEF ConservedInv, PlainTypeOK
<1>b. /\ DOMAIN Batch = 1..Len(Batch) /\ Len(Batch) \in Nat
      /\ \A j \in DOMAIN Batch : Batch[j] \in 0..(nextOffset - 1)
  BY <1>0, BatchType
<1>v. Visited \in SUBSET Read /\ Visited # {} /\ Read \in SUBSET (DOMAIN Batch)
  BY <1>0 DEF Polled, Visited, Read
<1>3. PICK m \in Visited : (\A x \in Visited : x <= m) /\ offset' = Batch[m] + 1
  BY <1>0, <1>v, OffsetAfterOf
<1>4. m \in DOMAIN Batch /\ Batch[m] >= offset
  BY <1>v DEF Read
<1>c. \A r \in Records : Cardinality({i \in Polled : Batch[i] = r}) \in Nat
  <2> TAKE r \in Records
  <2>1. {i \in Polled : Batch[i] = r} \in SUBSET (DOMAIN Batch)
    BY <1>v DEF Polled
  <2> QED BY <2>1, <1>0, FiniteBatch
<1>g. got \in [Records -> Nat]
  BY DEF ConservedInv, PlainTypeOK
(* Before a record that is visited, every one that is read is visited. *)
<1>5. \A i \in Read : i <= m => i \in Visited
  <2> SUFFICES ASSUME NEW i \in Read, i <= m
               PROVE  Cardinality({j \in Fresh : j < i}) < MaxPoll
    BY DEF Visited
  <2>1. i \in Nat /\ m \in Nat /\ \A j \in Fresh : j \in Nat
    BY <1>b, <1>v, <1>4 DEF Fresh
  <2>2. {j \in Fresh : j < i} \subseteq {j \in Fresh : j < m}
    BY <2>1
  <2>3. {j \in Fresh : j < m} \in SUBSET (DOMAIN Batch) /\ {j \in Fresh : j < i} \in SUBSET (DOMAIN Batch)
    BY <1>v DEF Fresh
  <2>4. /\ IsFiniteSet({j \in Fresh : j < m})
        /\ Cardinality({j \in Fresh : j < m}) \in Nat
        /\ Cardinality({j \in Fresh : j < i}) \in Nat
    BY <2>3, <1>0, FiniteBatch
  <2>5. Cardinality({j \in Fresh : j < i}) <= Cardinality({j \in Fresh : j < m})
    BY <2>2, <2>4, FS_Subset
  <2>6. Cardinality({j \in Fresh : j < m}) < MaxPoll
    BY DEF Visited
  <2> QED BY <2>4, <2>5, <2>6, <1>n
<1>6. DeliveredOK'
  <2> SUFFICES ASSUME NEW r \in 0..(offset' - 1), r \notin Lost PROVE got'[r] > 0
    BY <1>l DEF DeliveredOK
  <2>1. r \in Nat /\ r <= Batch[m] /\ r \in Records
    BY <1>3, <1>4, <1>b, <1>n DEF Records
  <2>2. got'[r] = got[r] + Cardinality({i \in Polled : Batch[i] = r}) /\ got[r] \in Nat
    BY <2>1, <1>0, <1>g
  <2>3. CASE r < offset
    <3>1. got[r] > 0
      BY <2>1, <2>3, <1>n DEF WholeInv, DeliveredOK
    <3> QED BY <3>1, <2>1, <2>2, <1>c
  <2>4. CASE offset <= r
    <3>1. r \in offset..Batch[m]
      BY <2>1, <2>4, <1>4, <1>b, <1>n
    <3>2. PICK j \in DOMAIN Batch : j <= m /\ Batch[j] = r
      BY <3>1, <1>0, <1>4, BatchCovers
    <3>3. PICK i \in DOMAIN Batch : /\ Batch[i] = Batch[j] /\ i <= j
                                    /\ \A k \in DOMAIN Batch : Batch[k] = Batch[i] => i <= k
      BY <1>0, FirstPlace
    <3>4. i \in Read /\ i <= m
      BY <3>2, <3>3, <2>4, <1>4, <1>b DEF Read
    <3>5. i \in Fresh
      BY <3>2, <3>3, <3>4, <1>0, FirstIsFresh
    <3>6. i \in Polled
      BY <3>4, <3>5, <1>5 DEF Polled
    <3> DEFINE S == {k \in Polled : Batch[k] = r}
    <3>7. S \in SUBSET (DOMAIN Batch) /\ i \in S
      BY <3>2, <3>3, <3>6, <1>v DEF Polled
    <3>8. Cardinality(S) \in Nat /\ Cardinality(S) # 0
      <4> HIDE DEF S
      <4>1. IsFiniteSet(S) /\ Cardinality(S) \in Nat
        BY <3>7, <1>0, FiniteBatch
      <4> QED BY <4>1, <3>7, FS_EmptySet
    <3> QED BY <3>8, <2>2
  <2> QED BY <2>1, <2>3, <2>4, <1>n
<1> QED BY <1>1, <1>2, <1>6 DEF WholeInv

LEMMA InitWhole == Init => LeftoverOK /\ ReadableOK /\ WholeInv
<1> SUFFICES ASSUME Init PROVE LeftoverOK /\ ReadableOK /\ WholeInv
  OBVIOUS
<1>1. /\ nextOffset = 0 /\ offset = 0 /\ DOMAIN staged = {} /\ maint.step = "idle" /\ up
      /\ DOMAIN segs = {0} /\ DOMAIN files = {0} /\ files[0].recs = <<>>
  BY DEF Init, Idle, NoFiles
<1>2. LeftoverOK /\ ReadableOK
  BY <1>1 DEF LeftoverOK, ReadableOK
<1>3. WholeInv
  BY <1>1 DEF WholeInv, HomeOK, CoverOK, Covers, NeighboursOK, StandInOK, ReloadOK, DeliveredOK
<1> QED BY <1>2, <1>3

LEMMA PollInvKept ==
  ASSUME ConservedInv, ConservedInv', PollInv, [PlainNext]_vars
  PROVE  PollInv'
<1> USE DEF history
<1>1. LeftoverOK /\ ReadableOK /\ (~crossed => WholeInv)
  BY DEF PollInv
<1>2. LeftoverOK' /\ ReadableOK'
  BY <1>1, LeftoverKept
<1>3. ASSUME ~crossed' PROVE WholeInv'
  <2>1. crossed \in BOOLEAN
    BY DEF ConservedInv, PlainTypeOK
  <2>2. ASSUME NEW old \in BOOLEAN, Write(old) PROVE WholeInv'
    <3>1. ~crossed
      BY <1>3, <2>2 DEF Write
    <3> QED BY <3>1, <1>1, <2>2, WriteWhole
  <2>3. CASE Poll
    <3>1. ~crossed
      BY <1>3, <2>3 DEF Poll
    <3> QED BY <3>1, <1>1, <2>3, PollWhole
  <2>4. ASSUME NEW c \in cutoff.retire..nextOffset, EnforceRetention(c) PROVE WholeInv'
    <3>1. ~crossed /\ UNCHANGED core /\ maint'.step = "retire" /\ UNCHANGED <<offset, got>>
      BY <1>3, <2>4 DEF EnforceRetention, log, consumer, process, core, Removal, Idle
    <3>2. HomeOK' /\ CoverOK' /\ StandInOK' /\ ReloadOK'
      BY <3>1, <1>1, WholeSame DEF WholeInv
    <3>3. NeighboursOK' /\ DeliveredOK'
      BY <3>1, <1>1 DEF NeighboursOK, DeliveredOK, WholeInv, core, Lost
    <3> QED BY <3>2, <3>3 DEF WholeInv
  <2>5. CASE RemoveNext \/ \E deleted \in BOOLEAN : RemoveFails(deleted)
    <3>1. ~crossed
      BY <1>3, <2>5 DEF RemoveNext, RemoveFails
    <3> QED BY <3>1, <1>1, <2>5, RemovalsWhole
  <2>6. CASE RemovalEnds
    <3>1. ~crossed
      BY <1>3, <2>6 DEF RemovalEnds
    <3> QED BY <3>1, <1>1, <2>6, RemovalEndsWhole
  <2>7. ASSUME NEW c \in 0..nextOffset, c >= cutoff.merge, MergeSegments(c) PROVE WholeInv'
    <3>1. ~crossed
      BY <1>3, <2>7, MergeFacts
    <3> QED BY <3>1, <1>1, <1>3, <2>7, MergeSegmentsWhole
  <2>8. CASE WriteStaged
    <3>1. ~crossed
      BY <1>3, <2>8, WriteStagedFacts
    <3> QED BY <3>1, <1>1, <2>8, WriteStagedWhole
  <2>9. CASE StagingFails
    <3>1. ~crossed
      BY <1>3, <2>9 DEF StagingFails
    <3> QED BY <3>1, <1>1, <2>9, StagingFailsWhole
  <2>10. CASE CloseStaged
    <3>1. ~crossed /\ UNCHANGED core /\ UNCHANGED <<offset, got>>
          /\ maint.step = "write" /\ maint'.base = maint.base /\ maint'.victims = maint.victims
      BY <1>3, <2>10 DEF CloseStaged, Complete, log, consumer, process, core,
                         ConservedInv, PlainTypeOK
    <3>2. HomeOK' /\ CoverOK' /\ StandInOK' /\ ReloadOK'
      BY <3>1, <1>1, WholeSame DEF WholeInv
    <3>3. NeighboursOK' /\ DeliveredOK'
      BY <3>1, <1>1 DEF NeighboursOK, DeliveredOK, WholeInv, core, Lost
    <3> QED BY <3>2, <3>3 DEF WholeInv
  <2>11. CASE Swap
    <3>1. ~crossed
      BY <1>3, <2>11 DEF Swap
    <3> QED BY <3>1, <1>1, <2>11, SwapWhole
  <2>12. CASE Crash
    <3>1. ~crossed
      BY <1>3, <2>12 DEF Crash
    <3> QED BY <3>1, <1>1, <2>12, CrashWhole
  <2>13. CASE Recover
    <3>1. ~crossed
      BY <1>3, <2>13, RecoverFacts
    <3> QED BY <3>1, <1>1, <2>13, RecoverWhole
  <2>14. CASE UNCHANGED vars
    <3>1. ~crossed /\ UNCHANGED core /\ UNCHANGED <<maint, offset, got>>
      BY <1>3, <2>14 DEF vars, core
    <3>2. HomeOK' /\ CoverOK' /\ StandInOK' /\ ReloadOK'
      BY <3>1, <1>1, WholeSame DEF WholeInv
    <3>3. NeighboursOK' /\ DeliveredOK'
      BY <3>1, <1>1 DEF NeighboursOK, DeliveredOK, WholeInv, core, Lost
    <3> QED BY <3>2, <3>3 DEF WholeInv
  <2> QED BY <2>2, <2>3, <2>4, <2>5, <2>6, <2>7, <2>8, <2>9, <2>10, <2>11, <2>12, <2>13, <2>14
          DEF PlainNext
<1> QED BY <1>2, <1>3 DEF PollInv

(* As long as merges take neighbours and no two segments share a file, the   *)
(* segment in which a record is looked for has it, before and after a removal *)
(* that fails, a merge, a crash or a recovery (commit_log.go:189).           *)
THEOREM PollInvariant == Spec => [](shared \/ PollInv)
<1>1. Init => PollInv
  BY InitWhole DEF PollInv
<1>2. ConservedInv /\ ConservedInv' /\ PollInv /\ [PlainNext]_vars => PollInv'
  BY PollInvKept
<1>3. /\ shared \/ ConservedInv
      /\ (shared \/ ConservedInv)'
      /\ shared \/ PollInv
      /\ [Next]_vars
      => (shared \/ PollInv)'
  BY <1>2, StepsArePlain, SharedStays
<1> QED BY <1>1, <1>3, ConservedInvariant, PTL DEF Spec

(* While no merge has crossed a segment it left, the next record is found by  *)
(* a poll and stands first in what it returns, whatever was merged, removed   *)
(* or reloaded, unless it is gone or its segment was left closed.             *)
THEOREM PollFindsTheNext == Spec => []PollFindsNext
<1>1. ASSUME ConservedInv, PollInv PROVE PollFindsNext
  <2> SUFFICES ASSUME up, ~crossed, offset < nextOffset, offset \notin Lost,
                      ~segs[SegmentOf(offset)].dead
               PROVE  \E i \in Polled : Batch[i] = offset /\ \A j \in Polled : i <= j
    BY DEF PollFindsNext, Free
  <2>w. WholeInv
    BY <1>1 DEF PollInv
  <2>n. offset \in Nat /\ nextOffset \in Nat /\ offset \in 0..(nextOffset - 1) /\ MaxPoll \in Nat \ {0}
    BY <1>1, Naturals, MaintenanceAssumption
  <2>b. /\ DOMAIN Batch = 1..Len(Batch) /\ Len(Batch) \in Nat
        /\ \A j \in DOMAIN Batch : Batch[j] \in 0..(nextOffset - 1)
    BY <1>1, BatchType
  <2>1. PICK h \in DOMAIN segs : Floor(DOMAIN segs, offset, h) /\ offset \in Held(h)
    BY <2>n, <2>w DEF WholeInv, HomeOK
  <2>2. h = SegmentOf(offset)
    <3>s. PICK s : s = SegmentOf(offset)
      OBVIOUS
    <3>1. /\ s \in DOMAIN segs
          /\ \/ Floor(DOMAIN segs, offset, s)
             \/ \A b \in DOMAIN segs : offset < b
      BY <3>s, <1>1, <2>n, SegmentOfFloor
    <3>2. \A x \in DOMAIN segs : x \in Nat
      BY <1>1, Naturals
    <3>3. h = s
      BY <3>1, <3>2, <2>1, <2>n DEF Floor
    <3> QED BY <3>3, <3>s
  <2>3. PICK k \in DOMAIN Batch : Batch[k] = offset
    BY <2>1, <2>2 DEF Held, Range, Batch
  <2>4. PICK i \in DOMAIN Batch : /\ Batch[i] = offset
                                  /\ \A j \in DOMAIN Batch : Batch[j] = Batch[i] => i <= j
    BY <2>3, <1>1, FirstPlace
  <2>5. \A j \in Read : i <= j
    <3> SUFFICES ASSUME NEW j \in Read, j < i PROVE FALSE
      BY <2>b DEF Read
    <3>1. j \in DOMAIN Batch /\ offset <= Batch[j]
      BY DEF Read
    <3>2. offset \in offset..Batch[j]
      BY <3>1, <2>b, <2>n
    <3>3. PICK x \in DOMAIN Batch : x <= j /\ Batch[x] = offset
      BY <3>1, <3>2, <1>1, <2>w, BatchCovers
    <3> QED BY <3>3, <3>1, <2>4, <2>b
  <2>6. i \in Read
    BY <2>4, <2>n DEF Read
  <2>7. i \in Fresh
    BY <2>4, <2>6, <1>1, <2>w, FirstIsFresh
  <2>8. i \in Visited
    <3>1. {j \in Fresh : j < i} = {}
      BY <2>5, <2>b DEF Fresh, Read
    <3>2. Cardinality({j \in Fresh : j < i}) = 0
      BY <3>1, FS_EmptySet
    <3> QED BY <3>2, <2>6, <2>n DEF Visited
  <2>9. \A j \in Polled : i <= j
    BY <2>5 DEF Polled, Fresh
  <2> QED BY <2>4, <2>7, <2>8, <2>9 DEF Polled
<1>2. shared => PollFindsNext
  BY DEF PollFindsNext
<1> QED BY <1>1, <1>2, ConservedInvariant, PollInvariant, PTL

(* While no merge has crossed a segment it left, no poll moves the offset past *)
(* a record that is stored and was never delivered (consumer.go:99).         *)
THEOREM PollsSkipNothing == Spec => PollSkipsNothing
<1>1. ASSUME ConservedInv, ConservedInv', PollInv', [PlainNext]_vars PROVE [~crossed => PassesDelivered]_vars
  <2> SUFFICES ASSUME ~crossed, offset' # offset
               PROVE  \A r \in 0..(offset' - 1) : got'[r] > 0 \/ r \in Lost
    BY DEF PassesDelivered
  <2>1. Poll
    <3> USE DEF consumer
    <3>1. ASSUME NEW c, MergeSegments(c) \/ EnforceRetention(c) PROVE offset' = offset
      BY <3>1 DEF MergeSegments, EnforceRetention
    <3>2. ASSUME NEW old \in BOOLEAN, Write(old) PROVE offset' = offset
      BY <3>2 DEF Write
    <3>3. ASSUME NEW deleted, RemoveFails(deleted) PROVE offset' = offset
      BY <3>3 DEF RemoveFails
    <3>4. CASE RemoveNext \/ RemovalEnds \/ WriteStaged \/ StagingFails \/ CloseStaged \/ Swap
      BY <3>4 DEF RemoveNext, RemovalEnds, WriteStaged, StagingFails, CloseStaged, Swap
    <3>5. CASE Crash \/ Recover \/ UNCHANGED vars
      BY <3>5 DEF Crash, Recover, vars
    <3> QED BY <1>1, <3>1, <3>2, <3>3, <3>4, <3>5 DEF PlainNext
  <2>2. ~crossed' /\ Lost' = Lost
    BY <2>1 DEF Poll, history, Lost
  <2>3. DeliveredOK'
    BY <1>1, <2>2 DEF PollInv, WholeInv
  <2> QED BY <2>2, <2>3 DEF DeliveredOK
<1>2. /\ shared \/ ConservedInv
      /\ (shared \/ ConservedInv)'
      /\ (shared \/ PollInv)'
      /\ [Next]_vars
      => [~crossed /\ ~shared => PassesDelivered]_vars
  <2>1. ASSUME shared \/ ConservedInv, (shared \/ ConservedInv)', (shared \/ PollInv)', [Next]_vars,
               ~(UNCHANGED vars), ~crossed, ~shared
        PROVE  PassesDelivered
    <3>1. CASE shared'
      <4>1. WriteBesideTwin
        BY <2>1, <3>1, SharedOnlyThere
      <4> QED BY <4>1 DEF WriteBesideTwin, PassesDelivered, consumer
    <3>2. CASE ~shared'
      BY <2>1, <3>2, <1>1, StepsArePlain
    <3> QED BY <3>1, <3>2
  <2> QED BY <2>1
<1> QED BY <1>2, ConservedInvariant, PollInvariant, PTL DEF Spec, PollSkipsNothing

-----------------------------------------------------------------------------
(* The order of what is read, as long as merges take neighbours and recovery  *)
(* finds nothing twice.                                                      *)

(* A record at the end of a sequence. *)
LEMMA AppendOrder ==
  ASSUME NEW q \in Seq(Records), NEW x \in Records
  PROVE  /\ Append(q, x) \in Seq(Records) /\ Range(Append(q, x)) = Range(q) \cup {x}
         /\ Sorted(q) /\ (\A z \in Range(q) : z < x) => Sorted(Append(q, x))
         /\ Twice(q) \/ x \in Range(q) => Twice(Append(q, x))
<1>1. Append(q, x) \in Seq(Records) /\ Range(Append(q, x)) = Range(q) \cup {x}
  BY RangeOfAppend
<1>2. PICK a : a = Append(q, x)
  OBVIOUS
<1>3. /\ Len(q) \in Nat /\ DOMAIN q = 1..Len(q) /\ DOMAIN a = 1..(Len(q) + 1)
      /\ a[Len(q) + 1] = x /\ \A i \in 1..Len(q) : a[i] = q[i]
  BY <1>2
<1>4. \A i \in 1..Len(q) : q[i] \in Range(q) /\ q[i] \in Nat
  <2>1. \A i \in 1..Len(q) : q[i] \in Records
    BY <1>3
  <2>2. Records \subseteq Nat
    BY MaintenanceAssumption DEF Records
  <2> QED BY <2>1, <2>2, <1>3 DEF Range
<1>5. ASSUME Sorted(q), \A z \in Range(q) : z < x PROVE Sorted(a)
  <2> SUFFICES ASSUME NEW i \in DOMAIN a, NEW j \in DOMAIN a, i < j PROVE a[i] < a[j]
    BY DEF Sorted
  <2>1. i \in 1..Len(q)
    BY <1>3
  <2>2. CASE j \in 1..Len(q)
    BY <2>1, <2>2, <1>3, <1>5 DEF Sorted
  <2>3. CASE j = Len(q) + 1
    BY <2>1, <2>3, <1>3, <1>4, <1>5
  <2> QED BY <2>2, <2>3, <1>3
<1>6. ASSUME Twice(q) PROVE Twice(a)
  <2>1. PICK i, j \in DOMAIN q : i # j /\ q[i] = q[j]
    BY <1>6 DEF Twice
  <2>2. i \in DOMAIN a /\ j \in DOMAIN a /\ a[i] = a[j]
    BY <2>1, <1>3
  <2> QED BY <2>1, <2>2 DEF Twice
<1>7. ASSUME x \in Range(q) PROVE Twice(a)
  <2>1. PICK i \in DOMAIN q : q[i] = x
    BY <1>7 DEF Range
  <2>2. i \in DOMAIN a /\ Len(q) + 1 \in DOMAIN a /\ i # Len(q) + 1 /\ a[i] = a[Len(q) + 1]
    BY <2>1, <1>3
  <2> QED BY <2>2 DEF Twice
<1> QED BY <1>1, <1>2, <1>5, <1>6, <1>7

(* Files and staged files hold records that were written; the segment of a    *)
(* file holds what the file does.                                            *)
LEMMA WhatFilesHold ==
  ASSUME ConservedInv
  PROVE  /\ \A b \in DOMAIN files : /\ files[b].recs \in Seq(Records)
                                    /\ \A z \in Range(files[b].recs) : z \in Nat /\ z < nextOffset
         /\ \A b \in DOMAIN staged : /\ staged[b].recs \in Seq(Records)
                                     /\ \A z \in Range(staged[b].recs) : z \in Nat /\ z < nextOffset
         /\ up => \A b \in DOMAIN files : b \in DOMAIN segs /\ Held(b) = Range(files[b].recs)
         /\ nextOffset \in Nat
<1>1. /\ \A b \in DOMAIN files : files[b].recs \in Seq(Records)
      /\ \A b \in DOMAIN staged : staged[b].recs \in Seq(Records)
  BY DEF ConservedInv, PlainTypeOK, File
<1>n. nextOffset \in Nat /\ \A z \in 0..(nextOffset - 1) : z \in Nat /\ z < nextOffset
  BY Naturals
<1>2. \A b \in DOMAIN files : \A z \in Range(files[b].recs) : z \in Nat /\ z < nextOffset
  BY <1>n DEF ConservedInv, Accounted, Contents
<1>3. \A b \in DOMAIN staged : \A z \in Range(staged[b].recs) : z \in Nat /\ z < nextOffset
  BY <1>n DEF ConservedInv, Accounted, Contents
<1>4. up => \A b \in DOMAIN files : b \in DOMAIN segs /\ Held(b) = Range(files[b].recs)
  BY DEF ConservedInv, MemoryOK, Held
<1> QED BY <1>1, <1>2, <1>3, <1>4, <1>n

(* The two flags stay once they are set. *)
LEMMA FlagsStay ==
  ASSUME ConservedInv, [PlainNext]_vars, ~crossed', ~doubled'
  PROVE  ~crossed /\ ~doubled
<1> USE DEF history
<1>1. ASSUME NEW old \in BOOLEAN, Write(old) PROVE ~crossed /\ ~doubled
  BY <1>1 DEF Write
<1>2. CASE Poll \/ UNCHANGED vars
  BY <1>2 DEF Poll, vars
<1>3. ASSUME NEW c, EnforceRetention(c) PROVE ~crossed /\ ~doubled
  BY <1>3 DEF EnforceRetention
<1>4. CASE RemoveNext \/ \E deleted \in BOOLEAN : RemoveFails(deleted)
  BY <1>4 DEF RemoveNext, RemoveFails
<1>5. CASE RemovalEnds
  BY <1>5 DEF RemovalEnds
<1>6. ASSUME NEW c \in 0..nextOffset, c >= cutoff.merge, MergeSegments(c) PROVE ~crossed /\ ~doubled
  BY <1>6, MergeFacts
<1>7. CASE WriteStaged \/ StagingFails \/ CloseStaged \/ Swap
  BY <1>7 DEF WriteStaged, StagingFails, CloseStaged, Swap
<1>8. CASE Crash
  BY <1>8 DEF Crash
<1>9. CASE Recover
  BY <1>9 DEF Recover
<1> QED BY <1>1, <1>2, <1>3, <1>4, <1>5, <1>6, <1>7, <1>8, <1>9 DEF PlainNext

(* Steps that leave the directory. *)
LEMMA OrderedSame ==
  ASSUME UNCHANGED <<files, staged, retired, offset, got>>
  PROVE  /\ FilesOrdered => FilesOrdered'
         /\ StagedBetween => StagedBetween'
         /\ StagedOrdered => StagedOrdered'
         /\ OnceOK => OnceOK'
<1>1. FilesOrdered => FilesOrdered'
  BY DEF FilesOrdered
<1>2. StagedBetween => StagedBetween'
  BY DEF StagedBetween
<1>3. StagedOrdered => StagedOrdered'
  BY DEF StagedOrdered
<1> QED BY <1>1, <1>2, <1>3 DEF OnceOK

(* What is written is above all that is there. *)
LEMMA WriteOrdered ==
  ASSUME ConservedInv, OrderInv, NEW old \in BOOLEAN, Write(old)
  PROVE  StagedFromOK' /\ (Ordered => Ordered')
<1>0. /\ up /\ maint.step \in {"idle", "between"}
      /\ UNCHANGED <<staged, maint, offset, got, retired, up>>
      /\ \E base \in Bases : \E recs \in Seq(Records) : Puts(base, recs)
      /\ nextOffset \in Records
  BY WriteFacts
<1>1. PICK base \in Bases, recs \in Seq(Records) : Puts(base, recs)
  BY <1>0
<1>w. /\ \A b \in DOMAIN files : /\ files[b].recs \in Seq(Records)
                                 /\ \A z \in Range(files[b].recs) : z \in Nat /\ z < nextOffset
      /\ \A b \in DOMAIN staged : \A z \in Range(staged[b].recs) : z \in Nat /\ z < nextOffset
      /\ \A b \in DOMAIN files : b \in DOMAIN segs /\ Held(b) = Range(files[b].recs)
      /\ nextOffset \in Nat /\ base \in Nat /\ \A x \in DOMAIN segs : x \in Nat
      /\ \A x \in DOMAIN staged : x \in Nat
  BY <1>0, WhatFilesHold, Naturals, MaintenanceAssumption DEF Bases
<1>s. /\ \A b \in DOMAIN segs : b <= base
      /\ \A b \in DOMAIN staged : b < base
      /\ DOMAIN segs' = DOMAIN segs \cup {base} /\ segs'[base].recs = recs
      /\ \A b \in DOMAIN segs : b # base => segs'[b] = segs[b]
      /\ DOMAIN files' = DOMAIN files \cup {base} /\ files'[base].recs = recs
      /\ \A b \in DOMAIN files : b # base => files'[b] = files[b]
      /\ Range(recs) = (IF base \in DOMAIN segs THEN Held(base) ELSE {}) \cup {nextOffset}
  BY <1>1 DEF Puts
<1>a. base \in DOMAIN segs =>
        base \in DOMAIN files /\ files[base].recs = segs[base].recs
        /\ recs = Append(files[base].recs, nextOffset)
  <2>1. Active \in DOMAIN files
    BY <1>0, TopIsActive
  <2>2. base \in DOMAIN segs => base = Active /\ recs = Append(segs[base].recs, nextOffset)
    BY <1>1 DEF Puts
  <2> QED BY <2>1, <2>2, <1>0 DEF ConservedInv, MemoryOK
<1>h. \A b \in DOMAIN segs : b \in DOMAIN segs' /\ Held(b) \subseteq Held(b)'
  <2> TAKE b \in DOMAIN segs
  <2>1. CASE b = base
    BY <2>1, <1>s DEF Held
  <2>2. CASE b # base
    BY <2>2, <1>s DEF Held
  <2> QED BY <2>1, <2>2, <1>s
<1>2. StagedFromOK'
  BY <1>0, <1>h DEF OrderInv, StagedFromOK
<1>3. ASSUME Ordered PROVE Ordered'
  <2>1. \A y \in Range(recs) : y = nextOffset \/ (base \in DOMAIN files /\ y \in Range(files[base].recs))
    BY <1>s, <1>a, <1>w
  <2>2. Sorted(recs)
    <3>1. CASE base \in DOMAIN segs
      <4>q. PICK q : q = files[base].recs
        OBVIOUS
      <4>1. Sorted(q)
        BY <4>q, <3>1, <1>a, <1>3 DEF Ordered, FilesOrdered
      <4>2. q \in Seq(Records) /\ \A z \in Range(q) : z < nextOffset
        BY <4>q, <3>1, <1>a, <1>w
      <4>3. recs = Append(q, nextOffset)
        BY <4>q, <3>1, <1>a
      <4> QED BY <4>1, <4>2, <4>3, <1>0, AppendOrder
    <3>2. CASE base \notin DOMAIN segs
      <4>1. recs = <<nextOffset>>
        BY <3>2, <1>1, <1>0, TopIsActive DEF Puts
      <4> QED BY <4>1 DEF Sorted
    <3> QED BY <3>1, <3>2
  <2>3. FilesOrdered'
    <3>1. \A b \in DOMAIN files' : Sorted(files'[b].recs)
      BY <2>2, <1>s, <1>3 DEF Ordered, FilesOrdered
    <3>2. ASSUME NEW a \in DOMAIN files', NEW b \in DOMAIN files', a < b,
                 NEW x \in Range(files'[a].recs), NEW y \in Range(files'[b].recs)
          PROVE  x < y
      <4>1. a \in DOMAIN files /\ a # base /\ x \in Range(files[a].recs)
        BY <3>2, <1>s, <1>w
      <4>2. CASE y = nextOffset
        BY <4>1, <4>2, <1>w
      <4>3. CASE b \in DOMAIN files /\ y \in Range(files[b].recs)
        BY <4>1, <4>3, <3>2, <1>3 DEF Ordered, FilesOrdered
      <4> QED BY <4>2, <4>3, <2>1, <1>s
    <3> QED BY <3>1, <3>2 DEF FilesOrdered
  <2>4. StagedBetween'
    <3> SUFFICES ASSUME NEW a \in DOMAIN staged, NEW b \in DOMAIN files',
                        NEW x \in Range(staged[a].recs), NEW y \in Range(files'[b].recs)
                 PROVE  IF b < a THEN y < x ELSE x < y \/ y \in Range(staged[a].recs)
      BY <1>0 DEF StagedBetween
    <3>1. CASE b \in DOMAIN files /\ y \in Range(files[b].recs)
      BY <3>1, <1>3 DEF Ordered, StagedBetween
    <3>2. CASE b = base /\ y = nextOffset
      <4>1. a < base /\ a \in Nat /\ base \in Nat
        BY <1>s, <1>w
      <4>2. x < nextOffset
        BY <1>w
      <4> QED BY <4>1, <4>2, <3>2
    <3> QED BY <3>1, <3>2, <2>1, <1>s
  <2>5. StagedOrdered' /\ MergeOrdered' /\ OnceOK'
    BY <1>0, <1>3 DEF Ordered, StagedOrdered, MergeOrdered, OnceOK
  <2> QED BY <2>3, <2>4, <2>5 DEF Ordered
<1> QED BY <1>2, <1>3

(* Less is left in order. *)
LEMMA RemovesOrdered ==
  ASSUME ConservedInv, OrderInv, NEW deleted \in BOOLEAN, Removes(deleted)
  PROVE  /\ StagedFromOK'
         /\ Ordered => FilesOrdered' /\ StagedBetween' /\ StagedOrdered' /\ OnceOK'
<1>0. /\ UNCHANGED <<staged, offset, got, up>> /\ up
      /\ DOMAIN segs' = DOMAIN segs /\ retired \subseteq retired'
      /\ \A b \in DOMAIN segs : segs'[b].recs = segs[b].recs
      /\ \A b \in DOMAIN files' : b \in DOMAIN files /\ files'[b] = files[b]
  BY RemovesFacts
<1>1. StagedFromOK'
  <2>1. \A b \in DOMAIN segs : Held(b)' = Held(b)
    BY <1>0 DEF Held
  <2> QED BY <2>1, <1>0 DEF OrderInv, StagedFromOK
<1>2. FilesOrdered => FilesOrdered'
  BY <1>0 DEF FilesOrdered
<1>3. StagedBetween => StagedBetween'
  BY <1>0 DEF StagedBetween
<1>4. StagedOrdered => StagedOrdered'
  BY <1>0 DEF StagedOrdered
<1> QED BY <1>0, <1>1, <1>2, <1>3, <1>4 DEF Ordered, OnceOK

LEMMA RemoveNextOrdered ==
  ASSUME ConservedInv, OrderInv, RemoveNext
  PROVE  StagedFromOK' /\ (Ordered => Ordered')
<1>v. PICK v : v = Victim
  OBVIOUS
<1>0. Removes(TRUE) /\ ~segs[v].dead /\ maint' = [maint EXCEPT !.left = @ \ {v}]
  BY <1>v, VictimFile DEF RemoveNext, Removes, consumer, process
<1>1. /\ maint'.step = maint.step /\ maint'.base = maint.base /\ maint'.rest = maint.rest
      /\ maint'.victims = maint.victims /\ maint'.left = maint.left \ {v}
  BY <1>0 DEF ConservedInv, PlainTypeOK
<1>2. /\ v \in maint.left /\ v \in DOMAIN segs /\ UNCHANGED staged /\ DOMAIN segs' = DOMAIN segs
      /\ \A b \in DOMAIN segs : segs'[b].recs = segs[b].recs /\ (segs[b].dead => segs'[b].dead)
      /\ \A b \in DOMAIN files' : b \in DOMAIN files /\ files'[b] = files[b]
      /\ maint.step \in {"retire", "clean", "drop"}
  BY <1>0, <1>v, RemovesFacts
<1>3. Done' \subseteq Done \cup {v}
  BY <1>1 DEF Done
<1>4. ASSUME MergeOrdered PROVE MergeOrdered'
  <2> SUFFICES ASSUME maint.step = "drop"
               PROVE  \/ segs'[maint.base].dead /\ maint.base \notin Done'
                      \/ /\ Sorted(staged[maint.base].recs)
                         /\ \A z \in Range(staged[maint.base].recs) :
                              /\ \A p \in maint.rest : z < Rec(p)'
                              /\ \A b \in DOMAIN files' \ maint.victims : maint.base < b =>
                                   \A y \in Range(files'[b].recs) : z < y
    BY <1>1, <1>2 DEF MergeOrdered
  <2>1. /\ maint.base \in DOMAIN segs /\ maint.rest = {}
    BY DEF ConservedInv, StagedOK, VictimsOK
  <2>2. CASE segs[maint.base].dead /\ maint.base \notin Done
    BY <2>1, <2>2, <1>0, <1>2, <1>3
  <2>3. CASE /\ Sorted(staged[maint.base].recs)
             /\ \A z \in Range(staged[maint.base].recs) :
                  \A b \in DOMAIN files \ maint.victims : maint.base < b =>
                       \A y \in Range(files[b].recs) : z < y
    BY <2>1, <2>3, <1>2
  <2> QED BY <2>2, <2>3, <1>4 DEF MergeOrdered
<1> QED BY <1>0, <1>4, RemovesOrdered DEF Ordered

LEMMA RemoveFailsOrdered ==
  ASSUME ConservedInv, OrderInv, NEW deleted \in BOOLEAN, RemoveFails(deleted)
  PROVE  StagedFromOK' /\ (Ordered => Ordered')
<1>1. Removes(deleted) /\ maint' = Behind
  BY VictimFile DEF RemoveFails, Removes, consumer, process
<1>2. MergeOrdered'
  BY <1>1 DEF MergeOrdered, Behind, Idle
<1> QED BY <1>1, <1>2, RemovesOrdered DEF Ordered

LEMMA RemovalEndsOrdered ==
  ASSUME ConservedInv, OrderInv, RemovalEnds
  PROVE  StagedFromOK' /\ (Ordered => Ordered')
<1>0. /\ up /\ maint.step \in {"retire", "clean"} /\ maint.left = {}
      /\ segs' = Without(segs, maint.victims) /\ maint' = Behind
      /\ UNCHANGED <<files, staged, offset, got, retired, up>>
  BY DEF RemovalEnds, consumer, history, process
<1>1. /\ DOMAIN segs' = DOMAIN segs \ maint.victims
      /\ \A b \in DOMAIN segs' : Held(b)' = Held(b)
  BY <1>0 DEF Without, Held
<1>2. \A v \in maint.victims : Held(v) \subseteq retired
  <2>1. Done = maint.victims
    BY <1>0 DEF Done
  <2>2. Range(<<>>) = {}
    BY DEF Range
  <2> QED BY <2>1, <2>2, <1>0 DEF ConservedInv, VictimsOK, Held
<1>3. StagedFromOK'
  <2> SUFFICES ASSUME NEW a \in DOMAIN staged, NEW y \in Range(staged[a].recs), y \notin retired
               PROVE  \E b \in DOMAIN segs' : a <= b /\ y \in Held(b)'
    BY <1>0 DEF StagedFromOK
  <2>1. PICK b \in DOMAIN segs : a <= b /\ y \in Held(b)
    BY <1>0 DEF OrderInv, StagedFromOK
  <2>2. b \notin maint.victims
    BY <2>1, <1>2
  <2> QED BY <2>1, <2>2, <1>1
<1>4. MergeOrdered'
  BY <1>0 DEF MergeOrdered, Behind, Idle
<1> QED BY <1>0, <1>3, <1>4, OrderedSame DEF Ordered

(* A staged file is begun empty; one that is written on stands for a segment  *)
(* that is closed, so that the merge cannot end.                             *)
LEMMA MergeSegmentsOrdered ==
  ASSUME ConservedInv, LeftoverOK, OrderInv,
         NEW c \in 0..nextOffset, c >= cutoff.merge, MergeSegments(c)
  PROVE  StagedFromOK' /\ (Ordered => Ordered')
<1>0. up /\ maint.step = "between" /\ UNCHANGED <<files, segs, offset, got, retired, up>>
  BY MergeFacts
<1>h. \A b \in DOMAIN segs : Held(b)' = Held(b)
  BY <1>0 DEF Held
<1>1. CASE maint'.step \in {"idle", "clean"} /\ UNCHANGED staged
  <2>1. StagedFromOK' /\ MergeOrdered'
    BY <1>0, <1>h, <1>1 DEF OrderInv, StagedFromOK, MergeOrdered
  <2> QED BY <2>1, <1>0, <1>1, OrderedSame DEF Ordered
<1>2. CASE /\ maint'.step = "write" /\ maint'.left = maint'.victims
           /\ DOMAIN staged' = DOMAIN staged \cup {maint'.base}
           /\ \A b \in DOMAIN staged : staged'[b] = staged[b]
           /\ maint'.base \notin DOMAIN staged => staged'[maint'.base].recs = <<>>
  <2>b. PICK base : base = maint'.base
    OBVIOUS
  <2>e. Range(<<>>) = {} /\ Sorted(<<>>)
    BY DEF Range, Sorted
  <2>1. \A a \in DOMAIN staged' : \/ a \in DOMAIN staged /\ staged'[a] = staged[a]
                                  \/ Range(staged'[a].recs) = {} /\ Sorted(staged'[a].recs)
    BY <1>2, <2>e
  <2>2. StagedFromOK'
    BY <2>1, <1>0, <1>h DEF OrderInv, StagedFromOK
  <2>3. ASSUME Ordered PROVE Ordered'
    <3>1. FilesOrdered' /\ OnceOK'
      BY <2>3, <1>0 DEF Ordered, FilesOrdered, OnceOK
    <3>2. StagedBetween'
      <4>1. StagedBetween
        BY <2>3 DEF Ordered
      <4> SUFFICES ASSUME NEW a \in DOMAIN staged', NEW b \in DOMAIN files,
                          NEW x \in Range(staged'[a].recs), NEW y \in Range(files[b].recs)
                   PROVE  IF b < a THEN y < x ELSE x < y \/ y \in Range(staged'[a].recs)
        BY <1>0 DEF StagedBetween
      <4>2. a \in DOMAIN staged /\ staged'[a] = staged[a]
        BY <2>1
      <4>3. x \in Range(staged[a].recs)
        BY <4>2
      <4>4. IF b < a THEN y < x ELSE x < y \/ y \in Range(staged[a].recs)
        BY <4>1, <4>2, <4>3 DEF StagedBetween
      <4> QED BY <4>2, <4>4
    <3>3. StagedOrdered'
      BY <2>1, <2>3, <1>0 DEF Ordered, StagedOrdered
    <3>4. MergeOrdered'
      <4>1. CASE base \in DOMAIN staged
        <5>1. segs[base].dead
          BY <4>1, <1>0 DEF LeftoverOK
        <5>2. Done' = {}
          BY <1>2 DEF Done
        <5> QED BY <5>1, <5>2, <2>b, <1>0 DEF MergeOrdered
      <4>2. CASE base \notin DOMAIN staged
        <5>1. staged'[maint'.base].recs = <<>>
          BY <4>2, <2>b, <1>2
        <5>2. Sorted(staged'[maint'.base].recs) /\ Range(staged'[maint'.base].recs) = {}
          BY <5>1, <2>e
        <5> QED BY <5>2 DEF MergeOrdered
      <4> QED BY <4>1, <4>2
    <3> QED BY <3>1, <3>2, <3>3, <3>4 DEF Ordered
  <2> QED BY <2>2, <2>3
<1> QED BY <1>1, <1>2, MergeFacts

(* The record that is staged next lies ahead of what is not staged yet. *)
LEMMA WriteStagedAhead ==
  ASSUME ConservedInv, ReadableOK, WholeInv, FilesOrdered, up, maint.step = "write",
         NEW v \in maint.victims, NEW k \in DOMAIN segs[v].recs,
         \A p \in maint.rest : Ahead(<<v, k>>, p)
  PROVE  /\ v \in DOMAIN files /\ files[v].recs = segs[v].recs
         /\ segs[v].recs[k] \in Range(files[v].recs) /\ maint.base <= v
         /\ \A b \in DOMAIN files : \A y \in Range(files[b].recs) :
              IF b < maint.base THEN y < segs[v].recs[k]
              ELSE \/ segs[v].recs[k] < y
                   \/ y = segs[v].recs[k] \/ y \in Range(staged[maint.base].recs)
<1>x. PICK x : x = segs[v].recs[k]
  OBVIOUS
<1>b. PICK base : base = maint.base
  OBVIOUS
<1>q. PICK q : q = staged[base].recs
  OBVIOUS
<1>1. segs[v].recs # <<>>
  OBVIOUS
<1>2. v \in DOMAIN files /\ v \in DOMAIN segs
  BY <1>1 DEF ReadableOK, ConservedInv, VictimsOK
<1>3. files[v].recs = segs[v].recs
  BY <1>2 DEF ConservedInv, MemoryOK
<1>4. x \in Range(files[v].recs)
  BY <1>3, <1>x DEF Range
<1>5. base <= v
  BY <1>b DEF ConservedInv, StagedOK
<1>n. base \in Nat /\ v \in Nat /\ \A b \in DOMAIN files : b \in Nat
  BY <1>b, Naturals DEF ConservedInv, StagedOK
<1>6. ASSUME NEW b \in DOMAIN files, NEW y \in Range(files[b].recs)
      PROVE  IF b < base THEN y < x ELSE x < y \/ y = x \/ y \in Range(q)
  <2>1. CASE b < v /\ b < base
    BY <2>1, <1>2, <1>4, <1>6 DEF FilesOrdered
  <2>2. CASE v < b
    BY <2>2, <1>2, <1>4, <1>5, <1>6, <1>n DEF FilesOrdered
  <2>3. CASE b = v \/ (base <= b /\ b < v)
    <3>1. b \in maint.victims /\ b \in DOMAIN segs /\ files[b].recs = segs[b].recs
      <4>1. b \in DOMAIN segs /\ files[b].recs = segs[b].recs
        BY <1>6 DEF ConservedInv, MemoryOK
      <4>2. b \in maint.victims
        BY <4>1, <2>3, <1>b, <1>n DEF WholeInv, NeighboursOK
      <4> QED BY <4>1, <4>2
    <3>2. PICK j \in DOMAIN segs[b].recs : segs[b].recs[j] = y
      BY <3>1 DEF Range
    <3>3. segs[b].recs \in Seq(Records) /\ segs[v].recs \in Seq(Records)
      BY <3>1, <1>2 DEF ConservedInv, PlainTypeOK, Segment
    <3>4. j \in Nat /\ k \in Nat
      BY <3>3
    <3>5. CASE b = v /\ k < j
      <4>1. Sorted(files[v].recs)
        BY <1>2 DEF FilesOrdered
      <4>2. x < y
        BY <4>1, <3>5, <3>2, <1>3, <1>x DEF Sorted
      <4> QED BY <4>2, <3>5, <1>5, <1>n
    <3>6. CASE b = v /\ k = j
      BY <3>6, <3>2, <1>x, <1>5, <1>n
    <3>7. CASE b < v \/ (b = v /\ j < k)
      <4>1. <<b, j>> \in Places(maint.victims)
        BY <3>1, InPlaces
      <4>2. <<b, j>> \notin maint.rest
        <5> SUFFICES ASSUME <<b, j>> \in maint.rest PROVE FALSE
          OBVIOUS
        <5>1. Ahead(<<v, k>>, <<b, j>>)
          OBVIOUS
        <5>2. v < b \/ (v = b /\ k <= j)
          BY <5>1 DEF Ahead
        <5> QED BY <5>2, <3>4, <3>7, <1>n, <1>6
      <4>3. Rec(<<b, j>>) \in Range(q)
        BY <4>1, <4>2, <1>b, <1>q DEF ConservedInv, StagedOK
      <4>4. Rec(<<b, j>>) = y
        BY <3>2 DEF Rec
      <4> QED BY <4>3, <4>4, <2>3, <1>5, <1>n
    <3> QED BY <3>4, <3>5, <3>6, <3>7, <2>3, <1>n, <1>6
  <2> QED BY <2>1, <2>2, <2>3, <1>5, <1>n, <1>6
<1> QED BY <1>x, <1>b, <1>q, <1>2, <1>3, <1>4, <1>5, <1>6

LEMMA WriteStagedOrdered ==
  ASSUME ConservedInv, ReadableOK, OrderInv, WriteStaged
  PROVE  StagedFromOK' /\ (WholeInv /\ Ordered => Ordered')
<1>b. PICK base : base = maint.base
  OBVIOUS
<1>0. /\ up /\ maint.step = "write" /\ maint'.step = "write" /\ maint'.base = base
      /\ maint'.victims = maint.victims /\ maint'.left = maint.left
      /\ UNCHANGED <<files, segs, offset, got, retired, up>>
      /\ base \in DOMAIN staged /\ DOMAIN staged' = DOMAIN staged
      /\ \A b \in DOMAIN staged : b # base => staged'[b] = staged[b]
  BY <1>b, WriteStagedFacts
<1>1. PICK v \in maint.victims : \E k \in DOMAIN segs[v].recs :
        /\ v \in DOMAIN segs
        /\ <<v, k>> \in maint.rest /\ maint'.rest = maint.rest \ {<<v, k>>}
        /\ \A p \in maint.rest : Ahead(<<v, k>>, p)
        /\ staged'[base].recs = Append(staged[base].recs, segs[v].recs[k])
  BY <1>b, WriteStagedFacts
<1>2. PICK k \in DOMAIN segs[v].recs :
        /\ v \in DOMAIN segs
        /\ <<v, k>> \in maint.rest /\ maint'.rest = maint.rest \ {<<v, k>>}
        /\ \A p \in maint.rest : Ahead(<<v, k>>, p)
        /\ staged'[base].recs = Append(staged[base].recs, segs[v].recs[k])
  BY <1>1
<1>x. PICK x : x = segs[v].recs[k]
  OBVIOUS
<1>q. PICK q : q = staged[base].recs
  OBVIOUS
<1>n. /\ base \in Nat /\ v \in Nat /\ base <= v
      /\ \A b \in DOMAIN segs : b \in Nat
      /\ \A b \in DOMAIN files : b \in Nat
      /\ \A b \in DOMAIN staged : b \in Nat
  BY <1>0, <1>b, Naturals DEF ConservedInv, StagedOK
<1>3. /\ q \in Seq(Records) /\ x \in Records /\ x \in Held(v)
      /\ staged'[base].recs = Append(q, x)
  <2>1. segs[v].recs \in Seq(Records)
    BY <1>2 DEF ConservedInv, PlainTypeOK, Segment
  <2>2. q \in Seq(Records)
    BY <1>0, <1>q, WhatFilesHold
  <2> QED BY <2>1, <2>2, <1>2, <1>x, <1>q DEF Held, Range
<1>4. /\ Range(staged'[base].recs) = Range(q) \cup {x}
      /\ Sorted(q) /\ (\A z \in Range(q) : z < x) => Sorted(staged'[base].recs)
      /\ Twice(q) \/ x \in Range(q) => Twice(staged'[base].recs)
  BY <1>3, AppendOrder
<1>h. \A b \in DOMAIN segs : Held(b)' = Held(b)
  BY <1>0 DEF Held
<1>5. StagedFromOK'
  <2> SUFFICES ASSUME NEW a \in DOMAIN staged, NEW y \in Range(staged'[a].recs), y \notin retired
               PROVE  \E b \in DOMAIN segs : a <= b /\ y \in Held(b)
    BY <1>0, <1>h DEF StagedFromOK
  <2>1. CASE a = base /\ y = x
    BY <2>1, <1>2, <1>3, <1>n
  <2>2. CASE y \in Range(staged[a].recs)
    BY <2>2, <1>0 DEF OrderInv, StagedFromOK
  <2> QED BY <2>1, <2>2, <1>0, <1>4, <1>q
<1>6. ASSUME WholeInv, Ordered PROVE Ordered'
  <2>o. FilesOrdered /\ StagedBetween /\ StagedOrdered /\ MergeOrdered /\ OnceOK
    BY <1>6 DEF Ordered
  <2>a. /\ v \in DOMAIN files /\ files[v].recs = segs[v].recs /\ x \in Range(files[v].recs)
        /\ \A b \in DOMAIN files : \A y \in Range(files[b].recs) :
             IF b < base THEN y < x ELSE x < y \/ y = x \/ y \in Range(q)
    BY <2>o, <1>0, <1>2, <1>6, <1>x, <1>b, <1>q, WriteStagedAhead
  <2>1. FilesOrdered' /\ OnceOK'
    BY <2>o, <1>0 DEF FilesOrdered, OnceOK
  <2>2. StagedBetween'
    <3> SUFFICES ASSUME NEW a \in DOMAIN staged, NEW b \in DOMAIN files,
                        NEW z \in Range(staged'[a].recs), NEW y \in Range(files[b].recs)
                 PROVE  IF b < a THEN y < z ELSE z < y \/ y \in Range(staged'[a].recs)
      BY <1>0 DEF StagedBetween
    <3>1. CASE z \in Range(staged[a].recs)
      <4>1. IF b < a THEN y < z ELSE z < y \/ y \in Range(staged[a].recs)
        BY <3>1, <2>o DEF StagedBetween
      <4>2. Range(staged[a].recs) \subseteq Range(staged'[a].recs)
        BY <1>0, <1>4, <1>q
      <4> QED BY <4>1, <4>2
    <3>2. CASE a = base /\ z = x
      BY <3>2, <2>a, <1>4
    <3> QED BY <3>1, <3>2, <1>0, <1>4, <1>q
  <2>3. StagedOrdered'
    <3>1. \A a \in DOMAIN staged : Sorted(staged'[a].recs) \/ Twice(staged'[a].recs)
      <4>1. Sorted(q) \/ Twice(q)
        BY <2>o, <1>0, <1>q DEF StagedOrdered
      <4>2. \A z \in Range(q) : z < x \/ x \in Range(q)
        BY <2>o, <2>a, <1>0, <1>q, <1>n DEF StagedBetween
      <4>3. Sorted(staged'[base].recs) \/ Twice(staged'[base].recs)
        BY <4>1, <4>2, <1>4
      <4> QED BY <4>3, <2>o, <1>0 DEF StagedOrdered
    <3>2. ASSUME NEW a \in DOMAIN staged, NEW b \in DOMAIN staged, a < b,
                 NEW z \in Range(staged'[a].recs), NEW y \in Range(staged'[b].recs)
          PROVE  z < y \/ y \in Range(staged'[a].recs) \/ y \in retired
      <4>1. Range(staged[a].recs) \subseteq Range(staged'[a].recs)
        BY <1>0, <1>4, <1>q
      <4>2. CASE z \in Range(staged[a].recs) /\ y \in Range(staged[b].recs)
        <5>1. z < y \/ y \in Range(staged[a].recs) \/ y \in retired
          BY <4>2, <3>2, <2>o DEF StagedOrdered
        <5> QED BY <5>1, <4>1
      <4>3. CASE b = base /\ y = x /\ z \in Range(staged[a].recs)
        <5>1. z < x \/ x \in Range(staged[a].recs)
          BY <4>3, <3>2, <2>o, <2>a, <1>n DEF StagedBetween
        <5> QED BY <5>1, <4>1, <4>3
      <4>4. CASE a = base /\ z = x /\ b # base
        <5>1. y \in Range(staged[b].recs)
          BY <4>4, <1>0
        <5>2. y \in retired \/ \E c \in DOMAIN segs : b <= c /\ y \in Held(c)
          BY <5>1, <1>0 DEF OrderInv, StagedFromOK
        <5>3. ASSUME NEW c \in DOMAIN segs, b <= c, y \in Held(c), y \notin retired
              PROVE  x < y \/ y \in Range(staged'[base].recs)
          <6>1. Done = {}
            BY <1>0 DEF ConservedInv, VictimsOK, Done
          <6>2. c \in DOMAIN files
            BY <6>1, <5>3, <1>0 DEF ConservedInv, GoneOK
          <6>3. y \in Range(files[c].recs)
            BY <6>2, <5>3, <1>0, WhatFilesHold
          <6>4. ~(c < base)
            BY <5>3, <4>4, <3>2, <1>n
          <6> QED BY <6>2, <6>3, <6>4, <2>a, <1>4
        <5> QED BY <5>2, <5>3, <4>4
      <4> QED BY <4>2, <4>3, <4>4, <3>2, <1>0, <1>4, <1>q, <1>n
    <3> QED BY <3>1, <3>2, <1>0 DEF StagedOrdered
  <2>4. MergeOrdered'
    <3>1. CASE segs[base].dead /\ base \notin Done
      BY <3>1, <1>0 DEF MergeOrdered, Done
    <3>2. CASE /\ Sorted(q)
               /\ \A z \in Range(q) :
                    /\ \A p \in maint.rest : z < Rec(p)
                    /\ \A b \in DOMAIN files \ maint.victims : base < b =>
                         \A y \in Range(files[b].recs) : z < y
      <4>1. Rec(<<v, k>>) = x
        BY <1>x DEF Rec
      <4>2. Sorted(staged'[base].recs)
        BY <4>1, <3>2, <1>2, <1>4
      <4>3. ASSUME NEW p \in maint'.rest PROVE x < Rec(p)
        <5>1. p \in maint.rest /\ p # <<v, k>> /\ Ahead(<<v, k>>, p)
          BY <1>2, <4>3
        <5>2. p \in Places(maint.victims)
          BY <5>1, <1>0 DEF ConservedInv, StagedOK
        <5>3. PICK b \in maint.victims : \E j \in DOMAIN segs[b].recs : p = <<b, j>>
          BY <5>2, InPlaces
        <5>4. PICK j \in DOMAIN segs[b].recs : p = <<b, j>>
          BY <5>3
        <5>5. b \in DOMAIN segs /\ b \in DOMAIN files /\ files[b].recs = segs[b].recs
          <6>1. segs[b].recs # <<>>
            BY <5>4
          <6>2. b \in DOMAIN files /\ b \in DOMAIN segs
            BY <6>1, <1>0 DEF ReadableOK, ConservedInv, VictimsOK
          <6> QED BY <6>2, <1>0 DEF ConservedInv, MemoryOK
        <5>6. segs[b].recs \in Seq(Records) /\ segs[v].recs \in Seq(Records)
          BY <5>5, <1>2 DEF ConservedInv, PlainTypeOK, Segment
        <5>7. v < b \/ (v = b /\ k <= j /\ j # k)
          BY <5>1, <5>4 DEF Ahead
        <5>8. Rec(p) = files[b].recs[j] /\ Rec(p) \in Range(files[b].recs)
          BY <5>4, <5>5 DEF Rec, Range
        <5>9. CASE v < b
          BY <5>9, <5>5, <5>8, <2>o, <2>a DEF FilesOrdered
        <5>10. CASE v = b /\ k <= j /\ j # k
          <6>1. k < j /\ Sorted(files[b].recs)
            BY <5>10, <5>5, <5>6, <2>o DEF FilesOrdered
          <6> QED BY <6>1, <5>10, <5>5, <5>8, <1>x DEF Sorted
        <5> QED BY <5>7, <5>9, <5>10
      <4>4. ASSUME NEW b \in DOMAIN files \ maint.victims, base < b, NEW y \in Range(files[b].recs)
            PROVE  x < y
        <5>1. v < b
          <6>1. b \in DOMAIN segs
            BY <4>4, <1>0, WhatFilesHold
          <6> QED BY <6>1, <4>4, <1>n, <1>0, <1>b, <1>6 DEF WholeInv, NeighboursOK
        <5> QED BY <5>1, <4>4, <2>o, <2>a DEF FilesOrdered
      <4>5. \A p : Rec(p)' = Rec(p)
        BY <1>0 DEF Rec
      <4>6. ASSUME NEW z \in Range(staged'[base].recs)
            PROVE  /\ \A p \in maint'.rest : z < Rec(p)
                   /\ \A b \in DOMAIN files \ maint.victims : base < b =>
                         \A y \in Range(files[b].recs) : z < y
        <5>1. CASE z = x
          BY <5>1, <4>3, <4>4
        <5>2. CASE z \in Range(q)
          BY <5>2, <3>2, <1>2
        <5> QED BY <5>1, <5>2, <4>6, <1>4
      <4> QED BY <4>2, <4>5, <4>6, <1>0 DEF MergeOrdered
    <3> QED BY <3>1, <3>2, <2>o, <1>0, <1>b, <1>q DEF MergeOrdered
  <2> QED BY <2>1, <2>2, <2>3, <2>4 DEF Ordered
<1> QED BY <1>5, <1>6

LEMMA StagingFailsOrdered ==
  ASSUME OrderInv, StagingFails
  PROVE  StagedFromOK' /\ (Ordered => Ordered')
<1>0. /\ maint' = Idle /\ DOMAIN staged' = {}
      /\ UNCHANGED <<files, offset, got>>
  BY DEF StagingFails, log, consumer, history, process, NoFiles
<1>1. StagedFromOK' /\ StagedBetween' /\ StagedOrdered' /\ MergeOrdered'
  BY <1>0 DEF StagedFromOK, StagedBetween, StagedOrdered, MergeOrdered, Idle
<1>2. FilesOrdered => FilesOrdered'
  BY <1>0 DEF FilesOrdered
<1>3. OnceOK => OnceOK'
  BY <1>0 DEF OnceOK
<1> QED BY <1>1, <1>2, <1>3 DEF Ordered

LEMMA CloseStagedOrdered ==
  ASSUME ConservedInv, OrderInv, CloseStaged
  PROVE  StagedFromOK' /\ (Ordered => Ordered')
<1>0. /\ maint.step = "write" /\ maint'.base = maint.base /\ maint'.victims = maint.victims
      /\ maint'.left = maint.left /\ maint'.rest = maint.rest
      /\ UNCHANGED <<files, staged, segs, retired, offset, got, up>>
  BY DEF CloseStaged, Complete, log, consumer, history, process, ConservedInv, PlainTypeOK
<1>1. StagedFromOK'
  BY <1>0 DEF OrderInv, StagedFromOK, Held
<1>2. MergeOrdered => MergeOrdered'
  BY <1>0 DEF MergeOrdered, Done, Rec
<1> QED BY <1>0, <1>1, <1>2, OrderedSame DEF Ordered

(* The staged file takes its place between the files. *)
LEMMA SwapOrdered ==
  ASSUME ConservedInv, OrderInv, Swap
  PROVE  StagedFromOK' /\ (Ordered => Ordered')
<1>b. PICK base : base = maint.base
  OBVIOUS
<1>j. PICK file : file = staged[base]
  OBVIOUS
<1>0. /\ up /\ maint.step = "drop" /\ maint' = Idle /\ staged' = NoFiles
      /\ UNCHANGED <<offset, got>>
      /\ Done = maint.victims /\ base \in maint.victims /\ base \in DOMAIN staged
  BY <1>b, <1>j, SwapFacts
<1>f. /\ DOMAIN files' = DOMAIN files \cup {base} /\ files'[base] = file
      /\ \A b \in DOMAIN files : b # base => files'[b] = files[b]
      /\ \A v \in maint.victims : v \notin DOMAIN files
  BY <1>b, <1>j, SwapFacts
<1>n. base \in Nat /\ \A b \in DOMAIN files : b \in Nat
  BY <1>0, Naturals
<1>1. StagedFromOK' /\ StagedBetween' /\ StagedOrdered' /\ MergeOrdered'
  BY <1>0 DEF StagedFromOK, StagedBetween, StagedOrdered, MergeOrdered, NoFiles, Idle
<1>2. ASSUME Ordered PROVE FilesOrdered'
  <2>o. FilesOrdered /\ StagedBetween /\ MergeOrdered
    BY <1>2 DEF Ordered
  <2>m. /\ Sorted(file.recs)
        /\ \A z \in Range(file.recs) : \A b \in DOMAIN files : base < b =>
             \A y \in Range(files[b].recs) : z < y
    BY <2>o, <1>0, <1>b, <1>j, <1>f DEF MergeOrdered
  <2>1. \A b \in DOMAIN files' : Sorted(files'[b].recs)
    BY <2>o, <2>m, <1>f DEF FilesOrdered
  <2>2. ASSUME NEW a \in DOMAIN files', NEW b \in DOMAIN files', a < b,
               NEW x \in Range(files'[a].recs), NEW y \in Range(files'[b].recs)
        PROVE  x < y
    <3>1. CASE a = base
      <4>1. b \in DOMAIN files /\ files'[b] = files[b] /\ x \in Range(file.recs)
        BY <3>1, <2>2, <1>f, <1>n
      <4> QED BY <4>1, <3>1, <2>2, <2>m
    <3>2. CASE b = base
      <4>1. a \in DOMAIN files /\ files'[a] = files[a] /\ y \in Range(staged[base].recs)
        BY <3>2, <2>2, <1>f, <1>n, <1>j
      <4>2. x \in Range(files[a].recs) /\ a < base
        BY <4>1, <3>2, <2>2
      <4> QED BY <4>1, <4>2, <2>o, <1>0 DEF StagedBetween
    <3>3. CASE a # base /\ b # base
      <4>1. /\ a \in DOMAIN files /\ x \in Range(files[a].recs)
            /\ b \in DOMAIN files /\ y \in Range(files[b].recs)
        BY <3>3, <2>2, <1>f
      <4> QED BY <4>1, <2>2, <2>o DEF FilesOrdered
    <3> QED BY <3>1, <3>2, <3>3
  <2> QED BY <2>1, <2>2 DEF FilesOrdered
<1>3. OnceOK => OnceOK'
  BY <1>0 DEF OnceOK
<1> QED BY <1>1, <1>2, <1>3 DEF Ordered

LEMMA CrashOrdered ==
  ASSUME OrderInv, Crash
  PROVE  StagedFromOK' /\ (Ordered => Ordered')
<1>0. /\ ~up' /\ maint' = Idle /\ UNCHANGED <<files, staged, retired, offset, got>>
  BY DEF Crash, consumer, history
<1>1. StagedFromOK' /\ MergeOrdered'
  BY <1>0 DEF StagedFromOK, MergeOrdered, Idle
<1> QED BY <1>0, <1>1, OrderedSame DEF Ordered

(* Where nothing is found twice, what is staged fits between the files. *)
LEMMA RecoverOrdered ==
  ASSUME ConservedInv, OrderInv, Recover
  PROVE  StagedFromOK' /\ (~doubled' /\ Ordered => Ordered')
<1>0. /\ maint' = Idle /\ DOMAIN staged' = {} /\ files' = Merged
      /\ UNCHANGED <<offset, got>>
  BY RecoverFacts DEF NoFiles
<1>1. StagedFromOK' /\ StagedBetween' /\ StagedOrdered' /\ MergeOrdered'
  BY <1>0 DEF StagedFromOK, StagedBetween, StagedOrdered, MergeOrdered, Idle
<1>2. ASSUME ~doubled', Ordered PROVE FilesOrdered'
  <2>o. FilesOrdered /\ StagedBetween /\ StagedOrdered
    BY <1>2 DEF Ordered
  <2>s. Single(Merged) /\ Contents(Merged) \cap retired = {}
    BY <1>2 DEF Recover
  <2>m. /\ DOMAIN Merged = DOMAIN files \cup DOMAIN staged
        /\ \A b \in DOMAIN Merged : Merged[b] = IF b \in DOMAIN staged THEN staged[b] ELSE files[b]
    BY DomainOfMerged
  <2>1. ASSUME NEW a \in DOMAIN Merged, NEW b \in DOMAIN Merged, a # b,
               NEW y \in Range(Merged[b].recs)
        PROVE  y \notin Range(Merged[a].recs) /\ y \notin retired
    <3>1. y \notin retired
      BY <2>1, <2>s, InContents
    <3>2. ASSUME y \in Range(Merged[a].recs) PROVE FALSE
      <4>1. PICK i \in DOMAIN Merged[a].recs : Merged[a].recs[i] = y
        BY <3>2 DEF Range
      <4>2. PICK j \in DOMAIN Merged[b].recs : Merged[b].recs[j] = y
        BY <2>1 DEF Range
      <4> QED BY <4>1, <4>2, <2>1, <2>s DEF Single
    <3> QED BY <3>1, <3>2
  <2>2. ASSUME NEW b \in DOMAIN Merged PROVE Sorted(Merged[b].recs)
    <3>1. CASE b \in DOMAIN staged
      <4>1. ~Twice(Merged[b].recs)
        BY <2>s DEF Single, Twice
      <4> QED BY <4>1, <3>1, <2>m, <2>o DEF StagedOrdered
    <3>2. CASE b \notin DOMAIN staged
      BY <3>2, <2>m, <2>o DEF FilesOrdered
    <3> QED BY <3>1, <3>2
  <2>3. ASSUME NEW a \in DOMAIN Merged, NEW b \in DOMAIN Merged, a < b,
               NEW x \in Range(Merged[a].recs), NEW y \in Range(Merged[b].recs)
        PROVE  x < y
    <3>n. a \in Nat /\ b \in Nat
      BY <2>m, Naturals
    <3>1. y \notin Range(Merged[a].recs) /\ y \notin retired
      BY <3>n, <2>1, <2>3
    <3>2. CASE a \in DOMAIN staged /\ b \in DOMAIN staged
      BY <3>1, <3>2, <2>3, <2>m, <2>o DEF StagedOrdered
    <3>3. CASE a \in DOMAIN staged /\ b \notin DOMAIN staged
      <4>1. x \in Range(staged[a].recs) /\ y \notin Range(staged[a].recs)
        BY <3>1, <3>3, <2>3, <2>m
      <4>2. b \in DOMAIN files /\ y \in Range(files[b].recs)
        BY <3>3, <2>3, <2>m
      <4> QED BY <4>1, <4>2, <3>3, <3>n, <2>3, <2>o DEF StagedBetween
    <3>4. CASE a \notin DOMAIN staged /\ b \in DOMAIN staged
      <4>1. a \in DOMAIN files /\ x \in Range(files[a].recs) /\ y \in Range(staged[b].recs)
        BY <3>4, <2>3, <2>m
      <4> QED BY <4>1, <3>4, <2>3, <2>o DEF StagedBetween
    <3>5. CASE a \notin DOMAIN staged /\ b \notin DOMAIN staged
      <4>1. /\ a \in DOMAIN files /\ x \in Range(files[a].recs)
            /\ b \in DOMAIN files /\ y \in Range(files[b].recs)
        BY <3>5, <2>3, <2>m
      <4> QED BY <4>1, <2>3, <2>o DEF FilesOrdered
    <3> QED BY <3>2, <3>3, <3>4, <3>5
  <2> QED BY <2>2, <2>3, <1>0 DEF FilesOrdered
<1>3. OnceOK => OnceOK'
  BY <1>0 DEF OnceOK
<1> QED BY <1>1, <1>2, <1>3 DEF Ordered

(* A poll returns each record of its batch at most once, and none that is     *)
(* below its offset or not below the next one.                               *)
LEMMA PollOrdered ==
  ASSUME ConservedInv, OrderInv, Poll
  PROVE  StagedFromOK' /\ (Ordered => Ordered')
<1>0. /\ up /\ ~segs[SegmentOf(offset)].dead /\ Polled # {}
      /\ offset' = OffsetAfter(Visited)
      /\ got' = [r \in Records |-> got[r] + Cardinality({i \in Polled : Batch[i] = r})]
      /\ UNCHANGED <<files, staged, segs, maint, retired, up>>
  BY DEF Poll, Free, log, history, process
<1>1. StagedFromOK'
  BY <1>0 DEF OrderInv, StagedFromOK, Held
<1>2. ASSUME Ordered PROVE Ordered'
  <2>1. FilesOrdered' /\ StagedBetween' /\ StagedOrdered' /\ MergeOrdered'
    BY <1>0, <1>2 DEF Ordered, FilesOrdered, StagedBetween, StagedOrdered, MergeOrdered, Done, Rec
  <2>b. /\ DOMAIN Batch = 1..Len(Batch) /\ Len(Batch) \in Nat
        /\ \A j \in DOMAIN Batch : Batch[j] \in Nat
    BY <1>0, BatchType
  <2>2. Sorted(Batch)
    <3>s. PICK s : s = SegmentOf(offset)
      OBVIOUS
    <3>1. s \in DOMAIN segs
      BY <3>s, <1>0, Naturals, SegmentOfFloor
    <3>2. s \in DOMAIN files /\ Batch = files[s].recs
      BY <3>1, <3>s, <1>0 DEF ConservedInv, MemoryOK, Batch
    <3> QED BY <3>2, <1>2 DEF Ordered, FilesOrdered
  <2>v. Visited \in SUBSET Read /\ Visited # {} /\ Polled \subseteq Visited
        /\ Read \in SUBSET (DOMAIN Batch)
    BY <1>0 DEF Polled, Visited, Read
  <2>3. PICK m \in Visited : (\A i \in Visited : i <= m) /\ offset' = Batch[m] + 1
    BY <1>0, <2>v, OffsetAfterOf
  <2>4. \A i \in Polled : /\ i \in DOMAIN Batch /\ offset <= Batch[i] /\ Batch[i] < offset'
    <3> TAKE i \in Polled
    <3>1. i \in DOMAIN Batch /\ m \in DOMAIN Batch /\ i <= m /\ offset <= Batch[i]
      BY <2>v, <2>3, <2>b, Naturals DEF Read
    <3>2. Batch[i] <= Batch[m]
      <4>1. i = m \/ i < m
        BY <3>1, <2>b
      <4> QED BY <4>1, <3>1, <2>2, <2>b DEF Sorted
    <3> QED BY <3>1, <3>2, <2>3, <2>b
  <2>5. offset \in Nat /\ offset' \in Nat /\ offset <= offset'
    <3>1. m \in DOMAIN Batch /\ offset <= Batch[m]
      BY <2>v, <2>3, <2>b, Naturals DEF Read
    <3> QED BY <3>1, <2>3, <2>b, Naturals
  <2>6. ASSUME NEW r \in Records PROVE got'[r] <= 1 /\ (r >= offset' => got'[r] = 0)
    <3> DEFINE S == {i \in Polled : Batch[i] = r}
    <3>1. got'[r] = got[r] + Cardinality(S) /\ got[r] \in Nat /\ r \in Nat
      <4>1. got'[r] = got[r] + Cardinality(S)
        BY <1>0
      <4> HIDE DEF S
      <4>2. got[r] \in Nat /\ r \in Nat
        BY MaintenanceAssumption DEF ConservedInv, PlainTypeOK, Records
      <4> QED BY <4>1, <4>2
    <3>2. \A i \in S : offset <= r /\ r < offset'
      BY <2>4
    <3>3. \A i, j \in S : i = j
      <4> SUFFICES ASSUME NEW i \in S, NEW j \in S PROVE i = j
        OBVIOUS
      <4>1. i \in DOMAIN Batch /\ j \in DOMAIN Batch /\ Batch[i] = Batch[j]
        BY <2>4
      <4>2. i \in Nat /\ j \in Nat /\ Batch[i] \in Nat
        BY <4>1, <2>b
      <4>3. ~(i < j) /\ ~(j < i)
        BY <4>1, <4>2, <2>2 DEF Sorted
      <4> QED BY <4>2, <4>3
    <3> HIDE DEF S
    <3>4. got[r] <= 1 /\ (r >= offset => got[r] = 0)
      BY <1>2 DEF Ordered, OnceOK
    <3>5. CASE S = {}
      <4>1. Cardinality(S) = 0
        BY <3>5, FS_EmptySet
      <4> QED BY <4>1, <3>1, <3>4, <2>5
    <3>6. CASE S # {}
      <4>1. PICK i : S = {i}
        BY <3>3, <3>6
      <4>2. Cardinality(S) = 1
        BY <4>1, FS_Singleton
      <4>3. offset <= r /\ r < offset'
        BY <4>1, <3>2
      <4> QED BY <4>2, <4>3, <3>1, <3>4, <2>5
    <3> QED BY <3>5, <3>6
  <2>7. OnceOK'
    BY <2>6 DEF OnceOK
  <2> QED BY <2>1, <2>7 DEF Ordered
<1> QED BY <1>1, <1>2

LEMMA OrderInvKept ==
  ASSUME ConservedInv, PollInv, OrderInv, [PlainNext]_vars
  PROVE  OrderInv'
<1>o. StagedFromOK /\ LeftoverOK /\ ReadableOK
  BY DEF OrderInv, PollInv
<1> DEFINE Kept == StagedFromOK' /\ (~crossed' /\ ~doubled' /\ WholeInv /\ Ordered => Ordered')
<1>1. Kept
  <2>1. ASSUME NEW old \in BOOLEAN, Write(old) PROVE Kept
    BY <2>1, WriteOrdered
  <2>2. CASE Poll
    BY <2>2, PollOrdered
  <2>3. ASSUME NEW c \in cutoff.retire..nextOffset, EnforceRetention(c) PROVE Kept
    <3>1. /\ UNCHANGED <<files, staged, segs, retired, offset, got, up>>
          /\ maint'.step = "retire"
      BY <2>3 DEF EnforceRetention, log, consumer, history, process, Removal, Idle
    <3>2. StagedFromOK' /\ MergeOrdered'
      BY <3>1, <1>o DEF StagedFromOK, Held, MergeOrdered
    <3> QED BY <3>1, <3>2, OrderedSame DEF Ordered
  <2>4. CASE RemoveNext
    BY <2>4, RemoveNextOrdered
  <2>5. ASSUME NEW deleted \in BOOLEAN, RemoveFails(deleted) PROVE Kept
    BY <2>5, RemoveFailsOrdered
  <2>6. CASE RemovalEnds
    BY <2>6, RemovalEndsOrdered
  <2>7. ASSUME NEW c \in 0..nextOffset, c >= cutoff.merge, MergeSegments(c) PROVE Kept
    BY <2>7, <1>o, MergeSegmentsOrdered
  <2>8. CASE WriteStaged
    BY <2>8, <1>o, WriteStagedOrdered
  <2>9. CASE StagingFails
    BY <2>9, StagingFailsOrdered
  <2>10. CASE CloseStaged
    BY <2>10, CloseStagedOrdered
  <2>11. CASE Swap
    BY <2>11, SwapOrdered
  <2>12. CASE Crash
    BY <2>12, CrashOrdered
  <2>13. CASE Recover
    BY <2>13, RecoverOrdered
  <2>14. CASE UNCHANGED vars
    <3>1. UNCHANGED <<files, staged, segs, maint, retired, offset, got, up>>
      BY <2>14 DEF vars
    <3>2. StagedFromOK' /\ (MergeOrdered => MergeOrdered')
      BY <3>1, <1>o DEF StagedFromOK, Held, MergeOrdered, Done, Rec
    <3> QED BY <3>1, <3>2, OrderedSame DEF Ordered
  <2> QED BY <2>1, <2>2, <2>3, <2>4, <2>5, <2>6, <2>7, <2>8, <2>9, <2>10, <2>11, <2>12, <2>13,
             <2>14 DEF PlainNext
<1>2. ASSUME ~crossed', ~doubled' PROVE WholeInv /\ Ordered
  <2>1. ~crossed /\ ~doubled
    BY <1>2, FlagsStay
  <2> QED BY <2>1 DEF PollInv, OrderInv
<1> QED BY <1>1, <1>2 DEF OrderInv

(* Files, and the staged files of a merge, stay in the order of the records   *)
(* until a merge crosses a segment that it leaves or recovery finds a record  *)
(* again, and a staged file holds only what its segments held (merge.go:45). *)
THEOREM OrderInvariant == Spec => [](shared \/ OrderInv)
<1>1. Init => OrderInv
  <2> SUFFICES ASSUME Init PROVE OrderInv
    OBVIOUS
  <2>1. /\ DOMAIN files = {0} /\ files[0].recs = <<>> /\ DOMAIN staged = {} /\ maint = Idle
        /\ got = [r \in Records |-> 0]
    BY DEF Init, NoFiles
  <2>2. Range(<<>>) = {} /\ Sorted(<<>>)
    BY DEF Range, Sorted
  <2>3. FilesOrdered
    BY <2>1, <2>2 DEF FilesOrdered
  <2>4. StagedFromOK /\ StagedBetween /\ StagedOrdered /\ MergeOrdered
    BY <2>1 DEF StagedFromOK, StagedBetween, StagedOrdered, MergeOrdered, Idle
  <2>5. OnceOK
    BY <2>1 DEF OnceOK
  <2> QED BY <2>3, <2>4, <2>5 DEF OrderInv, Ordered
<1>2. ConservedInv /\ PollInv /\ OrderInv /\ [PlainNext]_vars => OrderInv'
  BY OrderInvKept
<1>3. /\ shared \/ ConservedInv
      /\ shared \/ PollInv
      /\ shared \/ OrderInv
      /\ [Next]_vars
      => (shared \/ OrderInv)'
  BY <1>2, StepsArePlain, SharedStays
<1> QED BY <1>1, <1>3, ConservedInvariant, PollInvariant, PTL DEF Spec

(* A record is delivered twice only after a merge crossed a segment that it   *)
(* left, or a recovery that found a record twice or one again that retention  *)
(* had deleted.                                                              *)
THEOREM RecordsComeOnce == Spec => []DeliveredOnce
<1>1. ASSUME ConservedInv, OrderInv PROVE DeliveredOnce
  <2> SUFFICES ASSUME NEW r \in Records, got[r] > 1, ~crossed, ~doubled PROVE FALSE
    BY DEF DeliveredOnce
  <2>1. got[r] <= 1
    BY <1>1 DEF OrderInv, Ordered, OnceOK
  <2>2. got[r] \in Nat
    BY <1>1 DEF ConservedInv, PlainTypeOK
  <2> QED BY <2>1, <2>2
<1>2. shared => DeliveredOnce
  BY DEF DeliveredOnce
<1> QED BY <1>1, <1>2, ConservedInvariant, OrderInvariant, PTL

-----------------------------------------------------------------------------
(* The types, also where two segments share a file. *)

Keys == Bases \cup {Twin}
FilesType == DOMAIN files \subseteq Bases /\ files \in [DOMAIN files -> File]
StagedType == DOMAIN staged \subseteq Bases /\ staged \in [DOMAIN staged -> File]
SegsType == DOMAIN segs \subseteq Keys /\ segs \in [DOMAIN segs -> Segment]
MaintType ==
  maint \in [step : {"idle", "between", "retire", "clean", "write", "drop"},
             victims : SUBSET Keys, left : SUBSET Keys,
             base : Bases, rest : SUBSET (Keys \X Nat)]
CountsType ==
  /\ nextOffset \in 0..MaxRecords /\ offset \in 0..MaxRecords
  /\ cutoff \in [retire : Nat, merge : Nat]
  /\ got \in [Records -> Nat]
  /\ retired \subseteq Records /\ torn \subseteq Records
  /\ doubled \in BOOLEAN /\ crossed \in BOOLEAN /\ shared \in BOOLEAN /\ up \in BOOLEAN
  /\ crashes \in Nat /\ fails \in Nat

(* What a step works on is there: a list with the active segment in it, the   *)
(* victims below that segment, the staged file of a merge.                   *)
ListOK == up => DOMAIN segs # {}
WorkOK ==
  /\ maint.left \subseteq maint.victims
  /\ \A v \in maint.victims : v \in DOMAIN segs /\ \E a \in DOMAIN segs : v < a
  /\ maint.step \in {"write", "drop"} => maint.base \in DOMAIN staged
  /\ maint.step = "write" => maint.rest \subseteq Places(maint.victims)
  /\ maint.step \in {"idle", "between"} => maint.victims = {}

TypeInv == FilesType /\ StagedType /\ SegsType /\ MaintType /\ CountsType /\ ListOK /\ WorkOK

LEMMA TypeInvTypes == TypeInv => TypeOK
BY DEF TypeInv, TypeOK, FilesType, StagedType, SegsType, MaintType, CountsType, Keys

LEMMA MaxOfKeys ==
  ASSUME NEW S \in SUBSET Keys, S # {}
  PROVE  Max(S) \in S /\ \A x \in S : x <= Max(S)
<1> USE MaintenanceAssumption DEF Keys, Bases, Twin
<1>1. CASE S \cap (0..MaxRecords) = {}
  <2>1. S = {-1}
    BY <1>1
  <2> QED BY <2>1 DEF Max
<1>2. CASE S \cap (0..MaxRecords) # {}
  <2>1. PICK T : T = S \cap (0..MaxRecords)
    OBVIOUS
  <2>2. Max(T) \in T /\ \A x \in T : x <= Max(T)
    BY <2>1, <1>2, MaxOf
  <2>3. \A x \in S : x \in T \/ x = -1
    BY <2>1
  <2>4. Max(T) \in S /\ Max(T) \in Nat /\ \A x \in S : Max(T) >= x
    BY <2>1, <2>2, <2>3
  <2> QED BY <2>4 DEF Max
<1> QED BY <1>1, <1>2

LEMMA MinOfKeys ==
  ASSUME NEW S \in SUBSET Keys, S # {}
  PROVE  Min(S) \in S /\ \A x \in S : Min(S) <= x
<1> USE MaintenanceAssumption DEF Keys, Bases, Twin
<1>1. CASE -1 \in S
  <2>1. \A x \in S : -1 <= x
    OBVIOUS
  <2> QED BY <2>1, <1>1 DEF Min
<1>2. CASE -1 \notin S
  <2>1. S \in SUBSET Nat
    BY <1>2
  <2> QED BY <2>1, MinOf
<1> QED BY <1>1, <1>2

LEMMA FileOfKey ==
  ASSUME NEW b \in Keys
  PROVE  FileOf(b) \in Bases
BY MaintenanceAssumption DEF FileOf, Keys, Bases, Twin

(* Where nothing is under way there is nothing to be kept. *)
LEMMA WorkFree ==
  ASSUME TypeInv, maint.step \in {"idle", "between"}, UNCHANGED maint
  PROVE  WorkOK'
BY DEF TypeInv, WorkOK

LEMMA WorkOver ==
  ASSUME Over(maint')
  PROVE  WorkOK'
BY DEF Over, WorkOK

LEMMA OverType ==
  ASSUME maint' = Idle \/ maint' = Behind
  PROVE  MaintType' /\ Over(maint')
BY MaintenanceAssumption DEF MaintType, Behind, Idle, Over, Keys, Bases

LEMMA InitTypes == Init => TypeInv
<1> SUFFICES ASSUME Init PROVE TypeInv
  OBVIOUS
<1> USE MaintenanceAssumption
<1>1. FilesType /\ StagedType /\ SegsType
  BY DEF Init, FilesType, StagedType, SegsType, Bases, Keys, File, Segment, NewSegment, NoFiles
<1>2. MaintType /\ CountsType
  BY DEF Init, MaintType, CountsType, Idle, Keys, Bases
<1>3. ListOK /\ WorkOK
  BY DEF Init, ListOK, WorkOK, Idle
<1> QED BY <1>1, <1>2, <1>3 DEF TypeInv

LEMMA ActiveType ==
  ASSUME TypeInv, up
  PROVE  /\ Active \in DOMAIN segs /\ \A b \in DOMAIN segs : b <= Active
         /\ segs[Active] \in Segment /\ segs[Active].recs \in Seq(Records)
<1>1. Active \in DOMAIN segs /\ \A b \in DOMAIN segs : b <= Active
  BY MaxOfKeys DEF TypeInv, SegsType, ListOK, Active
<1>2. segs[Active] \in Segment
  BY <1>1 DEF TypeInv, SegsType
<1> QED BY <1>1, <1>2 DEF Segment

LEMMA SegsWith ==
  ASSUME NEW g, DOMAIN g \subseteq Keys, g \in [DOMAIN g -> Segment],
         NEW b \in Keys, NEW x \in Segment, segs' = With(g, b, x)
  PROVE  SegsType' /\ DOMAIN segs' = DOMAIN g \cup {b}
<1>1. segs' = [a \in DOMAIN g \cup {b} |-> IF a = b THEN x ELSE g[a]]
  BY DEF With
<1>2. ASSUME NEW a \in DOMAIN g \cup {b} PROVE (IF a = b THEN x ELSE g[a]) \in Segment
  <2>1. CASE a = b
    BY <2>1
  <2>2. CASE a # b
    BY <2>2
  <2> QED BY <2>1, <2>2
<1>3. DOMAIN segs' = DOMAIN g \cup {b} /\ DOMAIN segs' \subseteq Keys
  BY <1>1
<1> HIDE DEF Segment
<1>4. segs' \in [DOMAIN segs' -> Segment]
  BY <1>1, <1>2, <1>3
<1> QED BY <1>3, <1>4 DEF SegsType

LEMMA FilesWith ==
  ASSUME FilesType, NEW b \in Bases, NEW x \in File, files' = With(files, b, x)
  PROVE  FilesType' /\ DOMAIN files' = DOMAIN files \cup {b}
<1>1. files' = [a \in DOMAIN files \cup {b} |-> IF a = b THEN x ELSE files[a]]
  BY DEF With
<1>2. ASSUME NEW a \in DOMAIN files \cup {b} PROVE (IF a = b THEN x ELSE files[a]) \in File
  BY DEF FilesType
<1>3. DOMAIN files' = DOMAIN files \cup {b} /\ DOMAIN files' \subseteq Bases
  BY <1>1 DEF FilesType
<1>4. files' \in [DOMAIN files' -> File]
  BY <1>1, <1>2, <1>3
<1> QED BY <1>3, <1>4 DEF FilesType

LEMMA StagedWith ==
  ASSUME StagedType, NEW b \in Bases, NEW x \in File, staged' = With(staged, b, x)
  PROVE  StagedType' /\ DOMAIN staged' = DOMAIN staged \cup {b}
<1>1. staged' = [a \in DOMAIN staged \cup {b} |-> IF a = b THEN x ELSE staged[a]]
  BY DEF With
<1>2. ASSUME NEW a \in DOMAIN staged \cup {b} PROVE (IF a = b THEN x ELSE staged[a]) \in File
  BY DEF StagedType
<1>3. DOMAIN staged' = DOMAIN staged \cup {b} /\ DOMAIN staged' \subseteq Bases
  BY <1>1 DEF StagedType
<1>4. staged' \in [DOMAIN staged' -> File]
  BY <1>1, <1>2, <1>3
<1> QED BY <1>3, <1>4 DEF StagedType

LEMMA FilesWithout ==
  ASSUME FilesType, NEW S, files' = Without(files, S)
  PROVE  FilesType'
BY DEF Without, FilesType

LEMMA SegsWithout ==
  ASSUME SegsType, NEW S
  PROVE  /\ DOMAIN Without(segs, S) = DOMAIN segs \ S
         /\ DOMAIN Without(segs, S) \subseteq Keys
         /\ Without(segs, S) \in [DOMAIN Without(segs, S) -> Segment]
BY DEF Without, SegsType

LEMMA OpenedType ==
  ASSUME TypeInv, NEW file \in File
  PROVE  Opened(file) \in Segment
BY MaintenanceAssumption DEF Opened, Segment, File, TypeInv, CountsType

(* A write puts a record into the active segment or a new one. *)
LEMMA WriteTypes ==
  ASSUME TypeInv, NEW old \in BOOLEAN, Write(old)
  PROVE  TypeInv'
<1>1. /\ up /\ nextOffset < MaxRecords /\ nextOffset' = nextOffset + 1
      /\ UNCHANGED <<staged, maint, cutoff, offset, got, retired, torn, doubled, crossed, shared,
                     up, crashes, fails>>
  BY DEF Write, Free, consumer, history, process
<1>2. nextOffset \in Nat /\ nextOffset \in Records /\ nextOffset \in Bases
  BY <1>1, MaintenanceAssumption DEF TypeInv, CountsType, Records, Bases
<1>a. PICK act : act = Active
  OBVIOUS
<1>3. act \in DOMAIN segs /\ segs[act] \in Segment /\ act \in Keys
  BY <1>1, <1>a, ActiveType DEF TypeInv, SegsType
<1>b. PICK base : base = IF Rolls(old) THEN nextOffset ELSE act
  OBVIOUS
<1>s. PICK seg : seg = IF Rolls(old) THEN NewSegment(nextOffset) ELSE segs[act]
  OBVIOUS
<1>r. PICK recs : recs = Append(seg.recs, nextOffset)
  OBVIOUS
<1>4. /\ segs' = With(segs, base, [seg EXCEPT !.recs = recs])
      /\ files' = IF Rolls(old) \/ base \in DOMAIN files
                  THEN With(files, base, [recs |-> recs, time |-> nextOffset + 1])
                  ELSE files
  BY <1>a, <1>b, <1>s, <1>r DEF Write
<1>5. seg \in Segment /\ recs \in Seq(Records)
  <2>1. NewSegment(nextOffset) \in Segment
    BY <1>2 DEF NewSegment, Segment
  <2>2. seg \in Segment
    BY <2>1, <1>3, <1>s
  <2>3. seg.recs \in Seq(Records)
    BY <2>2 DEF Segment
  <2> QED BY <2>2, <2>3, <1>2, <1>r, RangeOfAppend
<1>6. /\ [seg EXCEPT !.recs = recs] \in Segment
      /\ [recs |-> recs, time |-> nextOffset + 1] \in File
      /\ [seg EXCEPT !.recs = recs].recs = recs
  BY <1>2, <1>5 DEF Segment, File
<1>7. base \in Keys /\ (Rolls(old) \/ base \in DOMAIN files => base \in Bases)
  BY <1>2, <1>3, <1>b DEF Keys, TypeInv, FilesType
<1>8. SegsType' /\ DOMAIN segs' = DOMAIN segs \cup {base}
  <2>1. DOMAIN segs \subseteq Keys /\ segs \in [DOMAIN segs -> Segment]
    BY DEF TypeInv, SegsType
  <2> QED BY <2>1, <1>4, <1>6, <1>7, SegsWith
<1>9. FilesType'
  <2>1. FilesType
    BY DEF TypeInv
  <2>2. CASE Rolls(old) \/ base \in DOMAIN files
    BY <2>1, <2>2, <1>4, <1>6, <1>7, FilesWith
  <2>3. CASE ~(Rolls(old) \/ base \in DOMAIN files)
    BY <2>1, <2>3, <1>4 DEF FilesType
  <2> QED BY <2>2, <2>3
<1>10. StagedType' /\ MaintType' /\ CountsType'
  BY <1>1, <1>2, MaintenanceAssumption DEF TypeInv, StagedType, MaintType, CountsType
<1>11. ListOK'
  BY <1>8, <1>3 DEF ListOK
<1>12. WorkOK'
  <2>1. maint.step \in {"idle", "between"}
    BY DEF Write, Free
  <2> QED BY <2>1, <1>1, WorkFree
<1> QED BY <1>8, <1>9, <1>10, <1>11, <1>12 DEF TypeInv

(* The roll of an empty segment. *)
LEMMA TwinTypes == TypeInv /\ WriteBesideTwin => TypeInv'
<1> SUFFICES ASSUME TypeInv, WriteBesideTwin PROVE TypeInv'
  OBVIOUS
<1>1. /\ up /\ nextOffset < MaxRecords /\ nextOffset' = nextOffset + 1
      /\ Active = nextOffset /\ shared' = TRUE /\ fails' = fails + 1
      /\ maint.step \in {"idle", "between"}
      /\ UNCHANGED <<staged, maint, cutoff, offset, got, retired, torn, doubled, crossed,
                     up, crashes>>
  BY DEF WriteBesideTwin, Free, consumer, process
<1>2. nextOffset \in Nat /\ nextOffset \in Records /\ nextOffset \in Bases
  BY <1>1, MaintenanceAssumption DEF TypeInv, CountsType, Records, Bases
<1>3. segs[Active] \in Segment /\ Twin \in Keys /\ nextOffset \in Keys
  BY <1>1, <1>2, ActiveType DEF Keys
<1>x. PICK x : x = [NewSegment(nextOffset) EXCEPT !.recs = <<nextOffset>>]
  OBVIOUS
<1>4. x \in Segment /\ [recs |-> <<nextOffset>>, time |-> nextOffset + 1] \in File
  <2>1. <<nextOffset>> \in Seq(Records)
    BY <1>2
  <2>2. x = [recs |-> <<nextOffset>>, created |-> nextOffset, dead |-> FALSE]
    BY <1>x DEF NewSegment
  <2>3. x \in Segment
    BY <2>1, <2>2, <1>2 DEF Segment
  <2>4. [recs |-> <<nextOffset>>, time |-> nextOffset + 1] \in File
    BY <2>1, <1>2 DEF File
  <2> QED BY <2>3, <2>4
<1>t. PICK t : t = With(segs, Twin, segs[Active])
  OBVIOUS
<1>5. /\ segs' = With(t, nextOffset, x)
      /\ files' = With(files, nextOffset, [recs |-> <<nextOffset>>, time |-> nextOffset + 1])
  BY <1>1, <1>x, <1>t DEF WriteBesideTwin
<1>6. DOMAIN t \subseteq Keys /\ t \in [DOMAIN t -> Segment]
  <2>1. t = [a \in DOMAIN segs \cup {Twin} |-> IF a = Twin THEN segs[Active] ELSE segs[a]]
    BY <1>t DEF With
  <2>2. DOMAIN segs \subseteq Keys /\ segs \in [DOMAIN segs -> Segment]
    BY DEF TypeInv, SegsType
  <2> QED BY <2>1, <2>2, <1>3
<1>7. SegsType' /\ ListOK'
  <2>1. SegsType' /\ DOMAIN segs' = DOMAIN t \cup {nextOffset}
    BY <1>3, <1>4, <1>5, <1>6, SegsWith
  <2> QED BY <2>1 DEF ListOK
<1>8. FilesType'
  BY <1>2, <1>4, <1>5, FilesWith DEF TypeInv
<1>9. StagedType' /\ MaintType' /\ CountsType'
  BY <1>1, <1>2, MaintenanceAssumption DEF TypeInv, StagedType, MaintType, CountsType
<1> QED BY <1>1, <1>7, <1>8, <1>9, WorkFree DEF TypeInv

LEMMA BatchTypes ==
  ASSUME TypeInv, up
  PROVE  Batch \in Seq(Records) /\ Len(Batch) \in Nat /\ DOMAIN Batch = 1..Len(Batch)
<1> DEFINE below == {b \in DOMAIN segs : b <= offset}
<1>1. SegmentOf(offset) \in DOMAIN segs
  <2>1. DOMAIN segs \subseteq Keys /\ DOMAIN segs # {} /\ below \subseteq DOMAIN segs
    BY DEF TypeInv, SegsType, ListOK
  <2>2. CASE below = {}
    <3>1. Min(DOMAIN segs) \in DOMAIN segs
      BY <2>1, MinOfKeys
    <3> QED BY <3>1, <2>2 DEF SegmentOf
  <2>3. CASE below # {}
    <3>1. below \in SUBSET Keys
      BY <2>1
    <3> HIDE DEF below
    <3>2. Max(below) \in below
      BY <3>1, <2>3, MaxOfKeys
    <3>3. Max(below) \in DOMAIN segs
      BY <3>2, <2>1
    <3> USE DEF below
    <3> QED BY <3>3, <2>3 DEF SegmentOf
  <2> QED BY <2>2, <2>3
<1>2. segs[SegmentOf(offset)] \in Segment
  BY <1>1 DEF TypeInv, SegsType
<1> QED BY <1>2 DEF Segment, Batch

LEMMA PollTypes == TypeInv /\ Poll => TypeInv'
<1> SUFFICES ASSUME TypeInv, Poll PROVE TypeInv'
  OBVIOUS
<1>1. /\ up /\ maint.step \in {"idle", "between"} /\ Polled # {}
      /\ offset' = OffsetAfter(Visited)
      /\ got' = [r \in Records |-> got[r] + Cardinality({i \in Polled : Batch[i] = r})]
      /\ UNCHANGED <<files, staged, segs, nextOffset, maint, cutoff, retired, torn, doubled,
                     crossed, shared, up, crashes, fails>>
  BY DEF Poll, Free, log, history, process
<1>b. Batch \in Seq(Records) /\ Len(Batch) \in Nat /\ DOMAIN Batch = 1..Len(Batch)
  BY <1>1, BatchTypes
<1>v. Visited \subseteq 1..Len(Batch) /\ Polled \subseteq 1..Len(Batch)
  BY <1>b DEF Polled, Visited, Read
<1>2. offset' \in 0..MaxRecords
  <2>1. Visited # {} /\ Visited \subseteq 0..Len(Batch)
    BY <1>1, <1>v, <1>b DEF Polled
  <2>2. Max(Visited) \in Visited
    BY <2>1, <1>b, MaxOf
  <2>3. Batch[Max(Visited)] \in Records
    <3>1. PICK m : m = Max(Visited)
      OBVIOUS
    <3>2. m \in 1..Len(Batch)
      BY <3>1, <2>2, <1>v
    <3>3. PICK s : s = Batch
      OBVIOUS
    <3>4. s[m] \in Records
      BY <3>2, <3>3, <1>b
    <3> QED BY <3>1, <3>3, <3>4
  <2>4. offset' = Batch[Max(Visited)] + 1
    BY <2>1, <1>1 DEF OffsetAfter
  <2> QED BY <2>3, <2>4, MaintenanceAssumption DEF Records
<1>3. got' \in [Records -> Nat]
  <2> DEFINE n(r) == Cardinality({i \in Polled : Batch[i] = r})
  <2>1. ASSUME NEW r \in Records PROVE n(r) \in Nat
    <3>1. {i \in Polled : Batch[i] = r} \subseteq 1..Len(Batch)
      BY <1>v
    <3>2. IsFiniteSet(1..Len(Batch))
      BY <1>b, FS_Interval
    <3> HIDE DEF Polled
    <3> QED BY <3>1, <3>2, FS_Subset, FS_CardinalityType
  <2>2. got' = [r \in Records |-> got[r] + n(r)]
    BY <1>1
  <2>3. \A r \in Records : got[r] \in Nat
    BY DEF TypeInv, CountsType
  <2> HIDE DEF n
  <2> QED BY <2>1, <2>2, <2>3
<1>4. FilesType' /\ StagedType' /\ SegsType' /\ MaintType' /\ ListOK'
  BY <1>1 DEF TypeInv, FilesType, StagedType, SegsType, MaintType, ListOK
<1>5. CountsType'
  BY <1>1, <1>2, <1>3 DEF TypeInv, CountsType
<1> QED BY <1>1, <1>4, <1>5, WorkFree DEF TypeInv

LEMMA EnforceRetentionTypes ==
  ASSUME TypeInv, NEW c \in cutoff.retire..nextOffset, EnforceRetention(c)
  PROVE  TypeInv'
<1>1. /\ up /\ cutoff' = [cutoff EXCEPT !.retire = c]
      /\ maint' = Removal("retire", Victims(c))
      /\ UNCHANGED <<files, staged, segs, nextOffset, offset, got, retired, torn, doubled,
                     crossed, shared, up, crashes, fails>>
  BY DEF EnforceRetention, log, consumer, history, process
<1>c. c \in Nat
  BY DEF TypeInv, CountsType
<1>2. \A v \in Victims(c) : v \in DOMAIN segs /\ v < Active
  <2>1. \A v \in Victims(c) : v \in DOMAIN segs /\ v # Active
    BY DEF Victims
  <2>2. \A v \in DOMAIN segs : v \in Int
    BY MaintenanceAssumption DEF TypeInv, SegsType, Keys, Bases, Twin
  <2> QED BY <2>1, <2>2, <1>1, ActiveType
<1>w. PICK vs : vs = Victims(c)
  OBVIOUS
<1>3. maint' = [step |-> "retire", victims |-> vs, left |-> vs, base |-> 0, rest |-> {}]
  BY <1>1, <1>w DEF Removal, Idle
<1>4. vs \in SUBSET Keys /\ 0 \in Bases /\ \A v \in vs : v \in DOMAIN segs /\ v < Active
  BY <1>2, <1>w, MaintenanceAssumption DEF TypeInv, SegsType, Bases
<1>5. MaintType'
  BY <1>3, <1>4 DEF MaintType
<1>6. WorkOK'
  <2>1. Active \in DOMAIN segs
    BY <1>1, ActiveType
  <2> QED BY <2>1, <1>1, <1>3, <1>4 DEF WorkOK
<1>7. FilesType' /\ StagedType' /\ SegsType' /\ ListOK' /\ CountsType'
  BY <1>1, <1>c DEF TypeInv, FilesType, StagedType, SegsType, ListOK, CountsType
<1> QED BY <1>5, <1>6, <1>7 DEF TypeInv

LEMMA RetiredType ==
  ASSUME TypeInv, NEW b \in Keys
  PROVE  Retired(b) \subseteq Records
<1>1. CASE maint.step = "retire" /\ FileOf(b) \in DOMAIN files
  <2>1. files[FileOf(b)].recs \in Seq(Records)
    BY <1>1 DEF TypeInv, FilesType, File
  <2>2. Range(files[FileOf(b)].recs) \subseteq Records
    BY <2>1, RangeOfSeq
  <2> QED BY <1>1, <2>2 DEF TypeInv, CountsType, Retired
<1>2. CASE ~(maint.step = "retire" /\ FileOf(b) \in DOMAIN files)
  BY <1>2 DEF TypeInv, CountsType, Retired
<1> QED BY <1>1, <1>2

LEMMA KilledType ==
  ASSUME TypeInv, maint.left # {}
  PROVE  /\ Victim \in maint.left /\ Victim \in DOMAIN segs /\ Victim \in Keys
         /\ DOMAIN Killed(Victim) = DOMAIN segs
         /\ Killed(Victim) \in [DOMAIN segs -> Segment]
<1>1. maint.left \in SUBSET Keys /\ maint.left \subseteq DOMAIN segs
  BY DEF TypeInv, MaintType, WorkOK
<1>2. Victim \in maint.left
  BY <1>1, MinOfKeys DEF Victim
<1>3. PICK v : v = Victim
  OBVIOUS
<1>4. segs \in [DOMAIN segs -> Segment] /\ v \in DOMAIN segs
  BY <1>1, <1>2, <1>3 DEF TypeInv, SegsType
<1>5. [segs[v] EXCEPT !.dead = TRUE] \in Segment
  BY <1>4 DEF Segment
<1>6. [segs EXCEPT ![v].dead = TRUE] \in [DOMAIN segs -> Segment]
  BY <1>4, <1>5
<1> QED BY <1>1, <1>2, <1>3, <1>4, <1>6 DEF Killed

LEMMA RemoveNextTypes == TypeInv /\ RemoveNext => TypeInv'
<1> SUFFICES ASSUME TypeInv, RemoveNext PROVE TypeInv'
  OBVIOUS
<1>1. /\ up /\ maint.left # {} /\ maint.step \in {"retire", "clean", "drop"}
      /\ segs' = Killed(Victim) /\ files' = Without(files, {FileOf(Victim)})
      /\ retired' = Retired(Victim)
      /\ maint' = [maint EXCEPT !.left = maint.left \ {Victim}]
      /\ UNCHANGED <<staged, nextOffset, cutoff, offset, got, torn, doubled, crossed, shared,
                     up, crashes, fails>>
  BY DEF RemoveNext, Removing, consumer, process
<1>k. PICK killed : killed = Killed(Victim)
  OBVIOUS
<1>2. killed \in [DOMAIN segs -> Segment] /\ DOMAIN killed = DOMAIN segs /\ Victim \in Keys
  BY <1>1, <1>k, KilledType
<1>3. SegsType' /\ ListOK' /\ DOMAIN segs' = DOMAIN segs
  BY <1>1, <1>2, <1>k DEF TypeInv, SegsType, ListOK
<1>4. FilesType'
  BY <1>1, FilesWithout DEF TypeInv
<1>5. StagedType' /\ CountsType'
  BY <1>1, <1>2, RetiredType DEF TypeInv, StagedType, CountsType
<1>6. /\ maint'.step = maint.step /\ maint'.victims = maint.victims
      /\ maint'.left = maint.left \ {Victim} /\ maint'.base = maint.base
  BY <1>1 DEF TypeInv, MaintType
<1>7. MaintType'
  BY <1>1 DEF TypeInv, MaintType
<1>8. WorkOK'
  BY <1>1, <1>3, <1>6 DEF TypeInv, WorkOK
<1> QED BY <1>3, <1>4, <1>5, <1>7, <1>8 DEF TypeInv

LEMMA RemoveFailsTypes ==
  ASSUME TypeInv, NEW deleted \in BOOLEAN, RemoveFails(deleted)
  PROVE  TypeInv'
<1>1. /\ up /\ maint.left # {}
      /\ segs' = Killed(Victim)
      /\ files' = (IF deleted THEN Without(files, {FileOf(Victim)}) ELSE files)
      /\ retired' = (IF deleted THEN Retired(Victim) ELSE retired)
      /\ maint' = Behind /\ fails' \in {fails, fails + 1}
      /\ UNCHANGED <<staged, nextOffset, cutoff, offset, got, torn, doubled, crossed, shared,
                     up, crashes>>
  BY DEF RemoveFails, Removing, consumer, process
<1>k. PICK killed : killed = Killed(Victim)
  OBVIOUS
<1>2. killed \in [DOMAIN segs -> Segment] /\ DOMAIN killed = DOMAIN segs /\ Victim \in Keys
  BY <1>1, <1>k, KilledType
<1>3. SegsType' /\ ListOK'
  BY <1>1, <1>2, <1>k DEF TypeInv, SegsType, ListOK
<1>4. FilesType'
  <2>1. CASE deleted
    BY <1>1, <2>1, FilesWithout DEF TypeInv
  <2>2. CASE ~deleted
    BY <1>1, <2>2 DEF TypeInv, FilesType
  <2> QED BY <2>1, <2>2
<1>5. retired' \subseteq Records
  <2>1. Retired(Victim) \subseteq Records /\ retired \subseteq Records
    BY <1>2, RetiredType DEF TypeInv, CountsType
  <2> QED BY <1>1, <2>1
<1>6. StagedType' /\ CountsType'
  BY <1>1, <1>5 DEF TypeInv, StagedType, CountsType
<1>7. MaintType' /\ WorkOK'
  BY <1>1, OverType, WorkOver
<1> QED BY <1>3, <1>4, <1>6, <1>7 DEF TypeInv

LEMMA RemovalEndsTypes == TypeInv /\ RemovalEnds => TypeInv'
<1> SUFFICES ASSUME TypeInv, RemovalEnds PROVE TypeInv'
  OBVIOUS
<1>1. /\ up /\ segs' = Without(segs, maint.victims) /\ maint' = Behind
      /\ UNCHANGED <<files, staged, nextOffset, cutoff, offset, got, retired, torn, doubled,
                     crossed, shared, up, crashes, fails>>
  BY DEF RemovalEnds, consumer, history, process
<1>k. PICK rest : rest = Without(segs, maint.victims)
  OBVIOUS
<1>2. DOMAIN rest = DOMAIN segs \ maint.victims /\ DOMAIN rest \subseteq Keys
      /\ rest \in [DOMAIN rest -> Segment]
  BY <1>k, SegsWithout DEF TypeInv
<1>3. SegsType'
  BY <1>1, <1>2, <1>k DEF SegsType
<1>4. DOMAIN segs' # {}
  <2>1. Active \in DOMAIN segs /\ \A b \in DOMAIN segs : b <= Active
    BY <1>1, ActiveType
  <2>2. \A b \in DOMAIN segs : b \in Int
    BY MaintenanceAssumption DEF TypeInv, SegsType, Keys, Bases, Twin
  <2>3. Active \notin maint.victims
    BY <2>1, <2>2 DEF TypeInv, WorkOK
  <2> QED BY <1>1, <1>2, <1>k, <2>1, <2>3
<1>5. FilesType' /\ StagedType' /\ CountsType' /\ ListOK'
  BY <1>1, <1>4 DEF TypeInv, FilesType, StagedType, CountsType, ListOK
<1>6. MaintType' /\ WorkOK'
  BY <1>1, OverType, WorkOver
<1> QED BY <1>3, <1>5, <1>6 DEF TypeInv

LEMMA PlacesType ==
  ASSUME TypeInv, NEW some \in SUBSET DOMAIN segs
  PROVE  Places(some) \subseteq Keys \X Nat
<1> SUFFICES ASSUME NEW p \in Places(some) PROVE p \in Keys \X Nat
  OBVIOUS
<1>1. PICK b \in some : \E i \in DOMAIN segs[b].recs : p = <<b, i>>
  BY InPlaces
<1>2. PICK i \in DOMAIN segs[b].recs : p = <<b, i>>
  BY <1>1
<1>3. segs[b].recs \in Seq(Records) /\ b \in Keys
  BY DEF TypeInv, SegsType, Segment
<1>4. i \in Nat
  BY <1>2, <1>3
<1> QED BY <1>2, <1>3, <1>4

LEMMA MergeSegmentsTypes ==
  ASSUME TypeInv, NEW c \in 0..nextOffset, MergeSegments(c)
  PROVE  TypeInv'
<1> DEFINE base == FileOf(Min(Candidates(c)))
           clean == Removal("clean", Candidates(c))
           write == [Removal("write", Candidates(c))
                       EXCEPT !.base = base, !.rest = Places(Candidates(c))]
           new == [recs |-> <<>>, time |-> nextOffset]
<1>1. /\ up /\ cutoff' = [cutoff EXCEPT !.merge = c]
      /\ UNCHANGED <<files, segs, nextOffset, offset, got, retired, torn, doubled, shared,
                     up, crashes, fails>>
      /\ \/ maint' = Idle /\ UNCHANGED <<staged, crossed>>
         \/ maint' = clean /\ UNCHANGED <<staged, crossed>>
         \/ /\ Places(Candidates(c)) # {}
            /\ maint' = write /\ crossed' = (crossed \/ Crosses(Candidates(c)))
            /\ staged' = IF base \in DOMAIN staged THEN staged ELSE With(staged, base, new)
  BY DEF MergeSegments, log, consumer, process
<1>c. c \in Nat /\ nextOffset \in Nat
  BY DEF TypeInv, CountsType
<1>2. FilesType' /\ SegsType' /\ ListOK'
  BY <1>1 DEF TypeInv, FilesType, SegsType, ListOK
<1>3. CountsType'
  BY <1>1, <1>c DEF TypeInv, CountsType, Crosses
<1>4. Candidates(c) \in SUBSET Keys /\ Candidates(c) \subseteq DOMAIN segs
  BY DEF TypeInv, SegsType, Candidates
<1>5. \A v \in Candidates(c) : v \in DOMAIN segs /\ \E a \in DOMAIN segs : v < a
  <2>1. Active \in DOMAIN segs /\ \A b \in DOMAIN segs : b <= Active
    BY <1>1, ActiveType
  <2>2. \A v \in DOMAIN segs : v \in Int
    BY MaintenanceAssumption DEF TypeInv, SegsType, Keys, Bases, Twin
  <2>3. \A v \in Candidates(c) : v \in DOMAIN segs /\ v # Active
    BY DEF Candidates
  <2> QED BY <2>1, <2>2, <2>3
<1>6. CASE maint' = Idle /\ UNCHANGED <<staged, crossed>>
  BY <1>2, <1>3, <1>6, OverType, WorkOver DEF TypeInv, StagedType
<1>7. CASE maint' = clean /\ UNCHANGED <<staged, crossed>>
  <2>1. maint' = [step |-> "clean", victims |-> Candidates(c), left |-> Candidates(c),
                  base |-> 0, rest |-> {}]
    BY <1>7 DEF Removal, Idle
  <2>2. 0 \in Bases
    BY MaintenanceAssumption DEF Bases
  <2> HIDE DEF clean
  <2>3. MaintType'
    BY <2>1, <2>2, <1>4 DEF MaintType
  <2>4. WorkOK'
    BY <2>1, <1>1, <1>5 DEF WorkOK
  <2> QED BY <1>2, <1>3, <1>7, <2>3, <2>4 DEF TypeInv, StagedType
<1>8. CASE /\ Places(Candidates(c)) # {} /\ maint' = write
           /\ staged' = IF base \in DOMAIN staged THEN staged ELSE With(staged, base, new)
  <2>1. maint' = [step |-> "write", victims |-> Candidates(c), left |-> Candidates(c),
                  base |-> base, rest |-> Places(Candidates(c))]
    BY <1>8 DEF Removal, Idle
  <2>2. base \in Bases
    <3>1. Candidates(c) # {}
      BY <1>8 DEF Places
    <3>2. Min(Candidates(c)) \in Keys
      BY <3>1, <1>4, MinOfKeys
    <3> QED BY <3>2, FileOfKey
  <2>3. new \in File
    <3>1. <<>> \in Seq(Records)
      OBVIOUS
    <3> QED BY <3>1, <1>c DEF File
  <2>4. Places(Candidates(c)) \in SUBSET (Keys \X Nat)
    BY <1>4, PlacesType
  <2>5. Places(Candidates(c))' = Places(Candidates(c))
    BY <1>1 DEF Places, Candidates, Active
  <2> HIDE DEF base, clean, write, new
  <2>6. StagedType' /\ base \in DOMAIN staged'
    <3>1. CASE base \in DOMAIN staged
      BY <3>1, <1>8 DEF TypeInv, StagedType
    <3>2. CASE base \notin DOMAIN staged
      BY <3>2, <1>8, <2>2, <2>3, StagedWith DEF TypeInv
    <3> QED BY <3>1, <3>2
  <2>7. MaintType'
    BY <2>1, <2>2, <2>4, <1>4 DEF MaintType
  <2>8. WorkOK'
    <3>1. Places(maint.victims)' = Places(Candidates(c))
      BY <2>1, <1>1 DEF Places
    <3> QED BY <2>1, <2>6, <3>1, <1>1, <1>5 DEF WorkOK
  <2> QED BY <1>2, <1>3, <2>6, <2>7, <2>8 DEF TypeInv
<1> QED BY <1>1, <1>6, <1>7, <1>8

LEMMA WriteStagedTypes == TypeInv /\ WriteStaged => TypeInv'
<1> SUFFICES ASSUME TypeInv, WriteStaged PROVE TypeInv'
  OBVIOUS
<1>1. PICK p \in maint.rest :
        /\ staged' = With(staged, maint.base,
                          [recs |-> Append(staged[maint.base].recs, segs[p[1]].recs[p[2]]),
                           time |-> nextOffset])
        /\ maint' = [maint EXCEPT !.rest = maint.rest \ {p}]
  BY DEF WriteStaged
<1>2. /\ up /\ maint.step = "write"
      /\ UNCHANGED <<files, segs, nextOffset, cutoff, offset, got, retired, torn, doubled,
                     crossed, shared, up, crashes, fails>>
  BY DEF WriteStaged, log, consumer, history, process
<1>3. segs[p[1]].recs[p[2]] \in Records
  <2>1. PICK b \in maint.victims : \E i \in DOMAIN segs[b].recs : p = <<b, i>>
    BY <1>2, InPlaces DEF TypeInv, WorkOK
  <2>2. PICK i \in DOMAIN segs[b].recs : p = <<b, i>>
    BY <2>1
  <2>3. b \in DOMAIN segs
    BY DEF TypeInv, WorkOK
  <2>4. PICK s : s = segs[b].recs
    OBVIOUS
  <2>5. s \in Seq(Records) /\ i \in DOMAIN s
    BY <2>2, <2>3, <2>4 DEF TypeInv, SegsType, Segment
  <2>6. s[i] \in Records
    BY <2>5
  <2> QED BY <2>2, <2>4, <2>6
<1>4. maint.base \in DOMAIN staged /\ maint.base \in Bases
  BY <1>2 DEF TypeInv, MaintType, WorkOK
<1>5. staged[maint.base].recs \in Seq(Records)
  BY <1>4 DEF TypeInv, StagedType, File
<1>6. [recs |-> Append(staged[maint.base].recs, segs[p[1]].recs[p[2]]), time |-> nextOffset]
        \in File
  <2>1. Append(staged[maint.base].recs, segs[p[1]].recs[p[2]]) \in Seq(Records)
    BY <1>3, <1>5, RangeOfAppend
  <2> QED BY <2>1 DEF File, TypeInv, CountsType
<1>7. StagedType' /\ maint.base \in DOMAIN staged'
  BY <1>1, <1>4, <1>6, StagedWith DEF TypeInv
<1>8. FilesType' /\ SegsType' /\ CountsType' /\ ListOK'
  BY <1>2 DEF TypeInv, FilesType, SegsType, CountsType, ListOK
<1>9. MaintType'
  BY <1>1 DEF TypeInv, MaintType
<1>10. WorkOK'
  <2>1. /\ maint'.step = "write" /\ maint'.victims = maint.victims /\ maint'.left = maint.left
        /\ maint'.base = maint.base /\ maint'.rest \subseteq maint.rest
    BY <1>1, <1>2 DEF TypeInv, MaintType
  <2>2. Places(maint.victims)' = Places(maint.victims)
    BY <2>1, <1>2 DEF Places
  <2> QED BY <2>1, <2>2, <1>2, <1>7 DEF TypeInv, WorkOK
<1> QED BY <1>7, <1>8, <1>9, <1>10 DEF TypeInv

LEMMA StagingFailsTypes == TypeInv /\ StagingFails => TypeInv'
<1> SUFFICES ASSUME TypeInv, StagingFails PROVE TypeInv'
  OBVIOUS
<1>1. /\ staged' = NoFiles /\ maint' = Idle /\ fails' = fails + 1
      /\ UNCHANGED <<files, segs, nextOffset, cutoff, offset, got, retired, torn, doubled,
                     crossed, shared, up, crashes>>
  BY DEF StagingFails, log, consumer, history, process
<1>2. FilesType' /\ SegsType' /\ CountsType' /\ ListOK'
  BY <1>1 DEF TypeInv, FilesType, SegsType, CountsType, ListOK
<1>3. StagedType'
  BY <1>1 DEF StagedType, NoFiles
<1>4. MaintType' /\ WorkOK'
  BY <1>1, OverType, WorkOver
<1> QED BY <1>2, <1>3, <1>4 DEF TypeInv

LEMMA CloseStagedTypes == TypeInv /\ CloseStaged => TypeInv'
<1> SUFFICES ASSUME TypeInv, CloseStaged PROVE TypeInv'
  OBVIOUS
<1>1. /\ maint.step = "write" /\ maint' = [maint EXCEPT !.step = "drop"]
      /\ UNCHANGED <<files, staged, segs, nextOffset, cutoff, offset, got, retired, torn,
                     doubled, crossed, shared, up, crashes, fails>>
  BY DEF CloseStaged, Complete, log, consumer, history, process
<1>2. FilesType' /\ StagedType' /\ SegsType' /\ CountsType' /\ ListOK'
  BY <1>1 DEF TypeInv, FilesType, StagedType, SegsType, CountsType, ListOK
<1>3. MaintType'
  BY <1>1 DEF TypeInv, MaintType
<1>4. /\ maint'.step = "drop" /\ maint'.victims = maint.victims /\ maint'.left = maint.left
      /\ maint'.base = maint.base
  BY <1>1 DEF TypeInv, MaintType
<1>5. WorkOK'
  BY <1>1, <1>4 DEF TypeInv, WorkOK
<1> QED BY <1>2, <1>3, <1>5 DEF TypeInv

LEMMA SwapTypes == TypeInv /\ Swap => TypeInv'
<1> SUFFICES ASSUME TypeInv, Swap PROVE TypeInv'
  OBVIOUS
<1>f. PICK file : file = staged[maint.base]
  OBVIOUS
<1>r. PICK rest : rest = Without(segs, maint.victims)
  OBVIOUS
<1>1. /\ maint.step = "drop" /\ maint' = Idle /\ staged' = NoFiles
      /\ files' = With(files, maint.base, file)
      /\ segs' = With(rest, maint.base, Opened(file))
      /\ UNCHANGED <<nextOffset, cutoff, offset, got, retired, torn, doubled, crossed, shared,
                     up, crashes, fails>>
  BY <1>f, <1>r DEF Swap, consumer, history, process
<1>2. file \in File /\ maint.base \in Bases /\ maint.base \in Keys
  BY <1>1, <1>f DEF TypeInv, StagedType, MaintType, WorkOK, Keys
<1>3. FilesType'
  BY <1>1, <1>2, FilesWith DEF TypeInv
<1>4. SegsType' /\ ListOK'
  <2>1. DOMAIN rest \subseteq Keys /\ rest \in [DOMAIN rest -> Segment]
    BY <1>r, SegsWithout DEF TypeInv
  <2>2. Opened(file) \in Segment
    BY <1>2, OpenedType
  <2>3. SegsType' /\ DOMAIN segs' = DOMAIN rest \cup {maint.base}
    BY <1>1, <1>2, <2>1, <2>2, SegsWith
  <2> QED BY <2>3 DEF ListOK
<1>5. StagedType' /\ CountsType'
  BY <1>1 DEF TypeInv, StagedType, CountsType, NoFiles
<1>6. MaintType' /\ WorkOK'
  BY <1>1, OverType, WorkOver
<1> QED BY <1>3, <1>4, <1>5, <1>6 DEF TypeInv

LEMMA CrashTypes == TypeInv /\ Crash => TypeInv'
<1> SUFFICES ASSUME TypeInv, Crash PROVE TypeInv'
  OBVIOUS
<1>1. /\ up' = FALSE /\ crashes' = crashes + 1 /\ maint' = Idle
      /\ segs' = [b \in {} |-> NewSegment(0)]
      /\ UNCHANGED <<files, staged, nextOffset, cutoff, offset, got, retired, torn, doubled,
                     crossed, shared, fails>>
  BY DEF Crash, consumer, history
<1>2. FilesType' /\ StagedType' /\ CountsType' /\ ListOK'
  <2>1. FilesType' /\ StagedType'
    BY <1>1 DEF TypeInv, FilesType, StagedType
  <2>2. up' \in BOOLEAN /\ crashes' \in Nat
    <3>1. crashes \in Nat
      BY DEF TypeInv, CountsType
    <3>2. up' \in BOOLEAN
      BY <1>1, Zenon
    <3> QED BY <1>1, <3>1, <3>2
  <2>3. CountsType'
    BY <1>1, <2>2 DEF TypeInv, CountsType
  <2>4. ListOK'
    BY <1>1 DEF ListOK
  <2> QED BY <2>1, <2>3, <2>4
<1>4. SegsType'
  <2>1. DOMAIN segs' = {}
    BY <1>1
  <2>2. segs' \in [{} -> Segment]
    BY <1>1
  <2> QED BY <2>1, <2>2 DEF SegsType
<1>3. MaintType' /\ WorkOK'
  BY <1>1, OverType, WorkOver
<1> QED BY <1>2, <1>3, <1>4 DEF TypeInv

(* Where the process is down there is nothing under way. *)
DownIsIdle == ~up => maint = Idle

LEMMA DownIsIdleKept == DownIsIdle /\ [Next]_vars => DownIsIdle'
<1> SUFFICES ASSUME DownIsIdle, [Next]_vars PROVE DownIsIdle'
  OBVIOUS
<1>1. CASE up' /\ [Next]_vars
  BY <1>1 DEF DownIsIdle
<1>2. CASE ~up'
  <2>1. CASE Crash
    BY <2>1 DEF Crash, DownIsIdle
  <2>2. CASE UNCHANGED vars
    BY <2>2 DEF vars, DownIsIdle
  <2>3. CASE Next /\ ~Crash
    <3>1. (up' = up /\ up) \/ up'
      BY <2>3 DEF Next, Write, WriteBesideTwin, Poll, EnforceRetention, RemoveNext, RemoveFails,
                  RemovalEnds, MergeSegments, WriteStaged, StagingFails, CloseStaged, Swap,
                  Recover, RecoverEmpty, Free, Removing, process
    <3> QED BY <3>1, <1>2
  <2> QED BY <2>1, <2>2, <2>3
<1> QED BY <1>1, <1>2

LEMMA NextOfType ==
  ASSUME NEW b \in Bases, NEW recs \in Seq(Records)
  PROVE  NextOf(b, recs) \in 0..MaxRecords
<1> DEFINE S == {b} \cup {r + 1 : r \in Range(recs)}
<1>1. Range(recs) \subseteq Records
  BY RangeOfSeq
<1>2. S \in SUBSET (0..MaxRecords) /\ S # {} /\ MaxRecords \in Nat
  BY <1>1, MaintenanceAssumption DEF Records, Bases
<1> HIDE DEF S
<1>3. Max(S) \in 0..MaxRecords
  BY <1>2, MaxOf
<1> USE DEF S
<1> QED BY <1>3 DEF NextOf

LEMMA RecoverTypes == TypeInv /\ DownIsIdle /\ Recover => TypeInv'
<1> SUFFICES ASSUME TypeInv, DownIsIdle, Recover PROVE TypeInv'
  OBVIOUS
<1>m. PICK dir : dir = Merged
  OBVIOUS
<1>l. PICK last : last = Max(DOMAIN dir)
  OBVIOUS
<1>1. /\ ~up /\ DOMAIN dir # {} /\ files' = dir /\ staged' = NoFiles
      /\ segs' = [b \in DOMAIN dir |-> Opened(dir[b])]
      /\ nextOffset' = NextOf(last, dir[last].recs)
      /\ torn' = torn \cup TornBy /\ up' = TRUE
      /\ doubled' = (doubled \/ ~Single(dir) \/ Contents(dir) \cap retired # {})
      /\ UNCHANGED <<maint, cutoff, offset, got, retired, crossed, shared, crashes, fails>>
  BY <1>m, <1>l DEF Recover
<1>2. DOMAIN dir \subseteq Bases /\ dir \in [DOMAIN dir -> File]
  <2>1. dir = [b \in DOMAIN files \cup DOMAIN staged |->
                 IF b \in DOMAIN staged THEN staged[b] ELSE files[b]]
    BY <1>m DEF Merged
  <2> QED BY <2>1 DEF TypeInv, FilesType, StagedType
<1>3. \A b \in DOMAIN dir : Opened(dir[b]) \in Segment
  BY <1>2, OpenedType
<1>4. FilesType' /\ StagedType'
  BY <1>1, <1>2 DEF FilesType, StagedType, NoFiles
<1>5. SegsType' /\ ListOK'
  BY <1>1, <1>2, <1>3 DEF SegsType, ListOK, Keys
<1>6. nextOffset' \in 0..MaxRecords
  <2>1. DOMAIN dir \in SUBSET (0..MaxRecords) /\ MaxRecords \in Nat
    BY <1>2, MaintenanceAssumption DEF Bases
  <2>2. last \in DOMAIN dir
    BY <1>1, <1>l, <2>1, MaxOf
  <2>3. dir[last].recs \in Seq(Records) /\ last \in Bases
    BY <1>2, <2>2 DEF File
  <2> QED BY <1>1, <2>3, NextOfType
<1>7. torn' \subseteq Records
  <2>1. ASSUME NEW b \in DOMAIN files PROVE Range(files[b].recs) \subseteq Records
    <3>1. files[b].recs \in Seq(Records)
      BY DEF TypeInv, FilesType, File
    <3> QED BY <3>1, RangeOfSeq
  <2>2. TornBy \subseteq Records
    BY <2>1 DEF TornBy
  <2> QED BY <1>1, <2>2 DEF TypeInv, CountsType
<1>8. doubled' \in BOOLEAN
  BY <1>1 DEF TypeInv, CountsType, Single
<1>9. CountsType'
  BY <1>1, <1>6, <1>7, <1>8 DEF TypeInv, CountsType
<1>10. MaintType' /\ WorkOK'
  <2>1. maint' = Idle
    BY <1>1 DEF DownIsIdle
  <2> QED BY <2>1, OverType, WorkOver
<1> QED BY <1>4, <1>5, <1>9, <1>10 DEF TypeInv

LEMMA RecoverEmptyTypes == TypeInv /\ DownIsIdle /\ RecoverEmpty => TypeInv'
<1> SUFFICES ASSUME TypeInv, DownIsIdle, RecoverEmpty PROVE TypeInv'
  OBVIOUS
<1> USE MaintenanceAssumption
<1>1. /\ ~up /\ files' = [b \in {0} |-> [recs |-> <<>>, time |-> 0]]
      /\ segs' = [b \in {0} |-> NewSegment(0)]
      /\ nextOffset' = 0 /\ cutoff' = [retire |-> 0, merge |-> 0] /\ up' = TRUE
      /\ UNCHANGED <<staged, maint, offset, got, retired, torn, doubled, crossed, shared,
                     crashes, fails>>
  BY DEF RecoverEmpty, consumer, history
<1>2. FilesType' /\ StagedType' /\ SegsType'
  BY <1>1 DEF TypeInv, FilesType, StagedType, SegsType, Bases, Keys, File, Segment, NewSegment
<1>3. CountsType' /\ ListOK'
  BY <1>1 DEF TypeInv, CountsType, ListOK
<1>4. MaintType' /\ WorkOK'
  <2>1. maint' = Idle
    BY <1>1 DEF DownIsIdle
  <2> QED BY <2>1, OverType, WorkOver
<1> QED BY <1>2, <1>3, <1>4 DEF TypeInv

LEMMA NextTypes == TypeInv /\ DownIsIdle /\ [Next]_vars => TypeInv'
<1> SUFFICES ASSUME TypeInv, DownIsIdle, [Next]_vars PROVE TypeInv'
  OBVIOUS
<1>1. ASSUME NEW old \in BOOLEAN, Write(old) PROVE TypeInv'
  BY <1>1, WriteTypes
<1>2. ASSUME NEW c \in cutoff.retire..nextOffset, EnforceRetention(c) PROVE TypeInv'
  BY <1>2, EnforceRetentionTypes
<1>3. ASSUME NEW deleted \in BOOLEAN, RemoveFails(deleted) PROVE TypeInv'
  BY <1>3, RemoveFailsTypes
<1>4. ASSUME NEW c \in 0..nextOffset, MergeSegments(c) PROVE TypeInv'
  BY <1>4, MergeSegmentsTypes
<1>5. CASE UNCHANGED vars
  BY <1>5 DEF vars, TypeInv, FilesType, StagedType, SegsType, MaintType, CountsType, ListOK,
              WorkOK, Places
<1> QED BY <1>1, <1>2, <1>3, <1>4, <1>5, TwinTypes, PollTypes, RemoveNextTypes, RemovalEndsTypes,
           WriteStagedTypes, StagingFailsTypes, CloseStagedTypes, SwapTypes, CrashTypes,
           RecoverTypes, RecoverEmptyTypes DEF Next

(* Every variable keeps its type, in every behaviour: also where segments    *)
(* share a file and where a restart takes a smaller next offset.             *)
THEOREM MaintenanceTypeOK == Spec => []TypeOK
<1>1. Init => TypeInv /\ DownIsIdle
  <2>1. Init => DownIsIdle
    BY DEF Init, DownIsIdle
  <2> QED BY <2>1, InitTypes
<1>2. TypeInv /\ DownIsIdle /\ [Next]_vars => (TypeInv /\ DownIsIdle)'
  BY NextTypes, DownIsIdleKept
<1> QED BY <1>1, <1>2, TypeInvTypes, PTL DEF Spec
=============================================================================

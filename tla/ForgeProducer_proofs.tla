----------------------- MODULE ForgeProducer_proofs -----------------------
(***************************************************************************)
(* Theorems about ForgeProducer, for any number of senders and records.    *)
(*                                                                         *)
(* Who holds an array is decided by the program counters (HolderInv), and  *)
(* how far Close has come by Closer's (CloseInv); a flush has emptied the  *)
(* array it is about to hand back (ReclaimInv).  With these the safety     *)
(* properties of the module are inductive.  FateInv follows the records:   *)
(* each accepted one is somewhere, and nowhere twice.                      *)
(***************************************************************************)
EXTENDS ForgeProducer, FiniteSetTheorems, TLAPS

Holding == {"append", "clear", "reclaim"}

HolderInv ==
  /\ \A t \in Threads : held[t] # NoArray <=> pc[t] \in Holding
  /\ \A s \in Senders : pc[s] \in {"ready", "signal", "flush"} \cup Holding
  /\ pc[Linger] \in {"wait", "timer", "flush", "exited"} \cup Holding
  /\ pc[Closer] \in {"open", "join", "flush", "closed"} \cup Holding

ReclaimInv ==
  \A t \in Threads : pc[t] = "reclaim" => content[held[t]] = <<>>

CloseInv ==
  /\ stopped <=> pc[Closer] # "open"
  /\ closed <=> pc[Closer] \notin {"open", "join"}
  /\ pc[Closer] \in {"closed"} \cup Holding => PendingRecords = <<>>
  /\ closeRet = "ok" => pc[Closer] = "closed"

ExitInv == closed => pc[Linger] = "exited"

IInv ==
  /\ TypeOK
  /\ HolderInv
  /\ ArraysNotShared
  /\ ReclaimInv
  /\ SizeIsExact
  /\ CloseInv
  /\ ExitInv
  /\ PendingIsAnnounced

-----------------------------------------------------------------------------
(* Facts about sequences and threads the steps cite. *)

LEMMA AppendType ==
  ASSUME NEW S, NEW q \in Seq(S), NEW e \in S
  PROVE  /\ Append(q, e) \in Seq(S)
         /\ Len(Append(q, e)) = Len(q) + 1
         /\ Len(q) \in Nat
         /\ Append(q, e) # <<>>
  OBVIOUS

LEMMA ConcatType ==
  ASSUME NEW S, NEW q \in Seq(S), NEW r \in Seq(S)
  PROVE  q \o r \in Seq(S)
  OBVIOUS

LEMMA EmptySeq ==
  ASSUME NEW S
  PROVE  <<>> \in Seq(S) /\ Len(<<>>) = 0
  OBVIOUS

LEMMA EmptyIff ==
  ASSUME NEW S, NEW q \in Seq(S)
  PROVE  q = <<>> <=> Len(q) = 0
  OBVIOUS

LEMMA BatchElements ==
  ASSUME NEW S, NEW q \in Seq(S)
  PROVE  {q[i] : i \in 1..Len(q)} \subseteq S
  OBVIOUS

LEMMA ThreadFacts ==
  /\ Senders \subseteq Threads /\ Linger \in Threads /\ Closer \in Threads
  /\ Linger # Closer /\ Linger \notin Senders /\ Closer \notin Senders
  BY ProducerAssumption DEF Threads, Linger, Closer

LEMMA ArrayFacts == NoArray \notin Arrays /\ 1 \in Arrays /\ 2 \in Arrays
  BY ProducerAssumption DEF Arrays, NoArray

LEMMA PendingType == BufferOK => PendingRecords \in Seq(Records)
  BY EmptySeq DEF BufferOK, PendingRecords

-----------------------------------------------------------------------------
(* Type correctness, part by part. *)

LEMMA InitTypes == Init => TypeOK
<1> SUFFICES ASSUME Init PROVE TypeOK
  OBVIOUS
<1>1. BufferOK
  BY EmptySeq, ArrayFacts DEF Init, BufferOK
<1>2. ThreadsOK
  <2>1. pc \in [Threads -> PCs]
    BY DEF Init, PCs
  <2>2. closeRet \in {"none", "ok", "error", "timeout"}
    BY DEF Init
  <2>3. held \in [Threads -> Arrays \cup {NoArray}] /\ attempts \in 0..MaxSends
    BY ProducerAssumption DEF Init
  <2> QED
    BY <2>1, <2>2, <2>3 DEF ThreadsOK
<1>3. FlagsOK
  BY Zenon DEF Init, FlagsOK
<1>4. FateOK
  BY EmptySeq DEF Init, FateOK
<1> QED
  BY <1>1, <1>2, <1>3, <1>4 DEF TypeOK

LEMMA BufferStep == TypeOK /\ HolderInv /\ [Next]_vars => BufferOK'
<1> SUFFICES ASSUME BufferOK, ThreadsOK, HolderInv, [Next]_vars PROVE BufferOK'
  BY DEF TypeOK
<1> USE DEF BufferOK
<1>1. ASSUME NEW s \in Senders, SendEnqueue(s) PROVE BufferOK'
  <2>1. attempts + 1 \in Records
    BY <1>1, ProducerAssumption DEF SendEnqueue, ThreadsOK, Records
  <2>2. Append(PendingRecords, attempts + 1) \in Seq(Records)
    BY <2>1, PendingType, AppendType
  <2>3. PICK a \in Arrays :
          /\ pending' = a
          /\ content' = [content EXCEPT ![a] = Append(PendingRecords, attempts + 1)]
    BY <1>1 DEF SendEnqueue, Allocated, Unused
  <2> QED
    BY <1>1, <2>2, <2>3 DEF SendEnqueue
<1>2. ASSUME NEW t \in Threads, FlushSwap(t) PROVE BufferOK'
  BY <1>2 DEF FlushSwap, NewBack
<1>3. ASSUME NEW t \in Threads, FlushClear(t) PROVE BufferOK'
  BY <1>3, EmptySeq DEF FlushClear
<1>4. ASSUME NEW t \in Threads, FlushReclaim(t) PROVE BufferOK'
  BY <1>4 DEF FlushReclaim, ThreadsOK
<1>5. CASE UNCHANGED buffer
  BY <1>5 DEF buffer
<1> QED
  BY <1>1, <1>2, <1>3, <1>4, <1>5
     DEF Next, vars, SendStep, Flush, CloseStep, SendRefused, SendSignal, UserFlush,
         FlushNothing, FlushAppend, LingerWake, LingerFires, LingerExits, CloseStops,
         CloseMarks, CloseReturns, CloseTimesOut

LEMMA ThreadsStep == TypeOK /\ [Next]_vars => ThreadsOK'
<1> SUFFICES ASSUME BufferOK, ThreadsOK, [Next]_vars PROVE ThreadsOK'
  BY DEF TypeOK
<1> USE ThreadFacts DEF ThreadsOK, PCs, Goto
<1>1. ASSUME NEW s \in Senders, SendStep(s) PROVE ThreadsOK'
  <2>1. CASE attempts' = attempts + 1 /\ attempts < MaxSends
    BY <1>1, <2>1, ProducerAssumption
       DEF SendStep, SendRefused, SendEnqueue, SendSignal, UserFlush, closing
  <2>2. CASE SendSignal(s) \/ UserFlush(s)
    BY <2>2 DEF SendSignal, UserFlush, closing
  <2> QED
    BY <1>1, <2>1, <2>2 DEF SendStep, SendRefused, SendEnqueue
<1>2. ASSUME NEW t \in Threads, Flush(t) PROVE ThreadsOK'
  <2>1. AfterFlush(t) \in PCs
    BY DEF AfterFlush
  <2>2. ASSUME NEW w \in PCs, pc' = [pc EXCEPT ![t] = w], attempts' = attempts,
               closeRet' = closeRet,
               \/ held' = held
               \/ \E a \in Arrays \cup {NoArray} : held' = [held EXCEPT ![t] = a]
        PROVE  ThreadsOK'
    BY <2>2
  <2>3. pending \in Arrays \cup {NoArray}
    BY DEF BufferOK
  <2>4. CASE FlushNothing(t)
    BY <2>4, <2>1, <2>2 DEF FlushNothing, closing
  <2>5. CASE FlushSwap(t)
    BY <2>5, <2>3, <2>2 DEF FlushSwap, closing
  <2>6. CASE FlushAppend(t) \/ FlushClear(t)
    BY <2>6, <2>2 DEF FlushAppend, FlushClear, closing
  <2>7. CASE FlushReclaim(t)
    BY <2>7, <2>1, <2>2 DEF FlushReclaim, closing
  <2> QED
    BY <1>2, <2>4, <2>5, <2>6, <2>7 DEF Flush
<1>3. CASE LingerWake \/ LingerFires \/ LingerExits
  BY <1>3 DEF LingerWake, LingerFires, LingerExits, closing
<1>4. CASE CloseStep
  BY <1>4 DEF CloseStep, CloseStops, CloseMarks, CloseReturns, CloseTimesOut
<1>5. CASE UNCHANGED vars
  BY <1>5 DEF vars, closing
<1> QED
  BY <1>1, <1>2, <1>3, <1>4, <1>5 DEF Next

LEMMA FlagsStep == TypeOK /\ [Next]_vars => FlagsOK'
<1> SUFFICES ASSUME FlagsOK, [Next]_vars PROVE FlagsOK'
  BY Zenon DEF TypeOK
<1> USE DEF FlagsOK
<1>1. ASSUME NEW t \in Threads, FlushAppend(t) PROVE FlagsOK'
  BY <1>1, Zenon DEF FlushAppend, closing
<1>2. ASSUME NEW s \in Senders, SendSignal(s) PROVE FlagsOK'
  BY <1>2, Zenon DEF SendSignal, Token, closing
<1>3. CASE LingerWake \/ CloseStops \/ CloseMarks
  BY <1>3, Zenon DEF LingerWake, CloseStops, CloseMarks, closing
<1>4. CASE UNCHANGED <<flushCh, stopped, closed, closeErr>>
  BY <1>4, Zenon
<1> QED
  BY <1>1, <1>2, <1>3, <1>4, Zenon
     DEF Next, vars, closing, SendStep, Flush, CloseStep, SendRefused, SendEnqueue,
         UserFlush, FlushNothing, FlushSwap, FlushClear, FlushReclaim, LingerFires,
         LingerExits, CloseReturns, CloseTimesOut

LEMMA FateStep == TypeOK /\ HolderInv /\ [Next]_vars => FateOK'
<1> SUFFICES ASSUME BufferOK, ThreadsOK, FateOK, HolderInv, [Next]_vars PROVE FateOK'
  BY DEF TypeOK
<1> USE DEF FateOK
<1>1. ASSUME NEW s \in Senders, SendEnqueue(s) PROVE FateOK'
  <2>1. attempts + 1 \in Records
    BY <1>1, ProducerAssumption DEF SendEnqueue, ThreadsOK, Records
  <2> QED
    BY <1>1, <2>1 DEF SendEnqueue
<1>2. ASSUME NEW t \in Threads, FlushAppend(t) PROVE FateOK'
  <2> DEFINE batch == content[held[t]]
  <2>1. batch \in Seq(Records)
    BY <1>2 DEF FlushAppend, BufferOK, ThreadsOK, HolderInv, Holding
  <2>2. log \o batch \in Seq(Records) /\ {batch[i] : i \in 1..Len(batch)} \subseteq Records
    BY <2>1, ConcatType, BatchElements
  <2>3. accepted' = accepted
    BY <1>2 DEF FlushAppend
  <2>4. /\ faults' = faults \/ faults' = faults + 1
        /\ \/ log' = log \o batch /\ lost' = lost
           \/ log' = log /\ lost' = lost \cup {batch[i] : i \in 1..Len(batch)}
    BY <1>2, Zenon DEF FlushAppend
  <2> DEFINE elems == {batch[i] : i \in 1..Len(batch)}
  <2> HIDE DEF elems, batch
  <2>5. elems \subseteq Records
    BY <2>2 DEF elems
  <2>6. /\ faults' = faults \/ faults' = faults + 1
        /\ \/ log' = log \o batch /\ lost' = lost
           \/ log' = log /\ lost' = lost \cup elems
    BY <2>4 DEF elems
  <2>7. log' \in Seq(Records)
    BY <2>2, <2>6
  <2>8. lost' \subseteq Records /\ faults' \in Nat /\ accepted' \subseteq Records
    BY <2>3, <2>5, <2>6
  <2> QED
    BY <2>7, <2>8
<1>3. CASE UNCHANGED <<accepted, log, lost, faults>>
  BY <1>3
<1> QED
  BY <1>1, <1>2, <1>3
     DEF Next, vars, SendStep, Flush, CloseStep, SendRefused, SendSignal, UserFlush,
         FlushNothing, FlushSwap, FlushClear, FlushReclaim, LingerWake, LingerFires,
         LingerExits, CloseStops, CloseMarks, CloseReturns, CloseTimesOut

-----------------------------------------------------------------------------
(* Who holds which array. *)

LEMMA HolderStep == TypeOK /\ HolderInv /\ [Next]_vars => HolderInv'
<1> SUFFICES ASSUME BufferOK, ThreadsOK, HolderInv, [Next]_vars PROVE HolderInv'
  BY DEF TypeOK
<1> USE ThreadFacts, ArrayFacts DEF HolderInv, Holding, ThreadsOK, Goto
<1>1. ASSUME NEW s \in Senders, SendStep(s) PROVE HolderInv'
  BY <1>1 DEF SendStep, SendRefused, SendEnqueue, SendSignal, UserFlush
<1>2. ASSUME NEW t \in Threads, FlushNothing(t) PROVE HolderInv'
  BY <1>2 DEF FlushNothing, AfterFlush, Threads
<1>3. ASSUME NEW t \in Threads, FlushSwap(t) PROVE HolderInv'
  <2>1. pending # NoArray
    BY <1>3 DEF FlushSwap, PendingRecords
  <2> QED
    BY <1>3, <2>1 DEF FlushSwap, BufferOK, Threads
<1>4. ASSUME NEW t \in Threads, FlushAppend(t) \/ FlushClear(t) PROVE HolderInv'
  BY <1>4 DEF FlushAppend, FlushClear, Threads
<1>5. ASSUME NEW t \in Threads, FlushReclaim(t) PROVE HolderInv'
  BY <1>5 DEF FlushReclaim, AfterFlush, Threads
<1>6. CASE LingerWake \/ LingerFires \/ LingerExits
  BY <1>6 DEF LingerWake, LingerFires, LingerExits
<1>7. CASE CloseStep
  BY <1>7 DEF CloseStep, CloseStops, CloseMarks, CloseReturns, CloseTimesOut
<1>8. CASE UNCHANGED vars
  BY <1>8 DEF vars
<1> QED
  BY <1>1, <1>2, <1>3, <1>4, <1>5, <1>6, <1>7, <1>8 DEF Next, Flush

LEMMA SharingStep ==
  TypeOK /\ HolderInv /\ ArraysNotShared /\ ReclaimInv /\ [Next]_vars
    => ArraysNotShared'
<1> SUFFICES ASSUME BufferOK, ThreadsOK, HolderInv, ArraysNotShared, ReclaimInv,
                    [Next]_vars
             PROVE  ArraysNotShared'
  BY DEF TypeOK
<1> USE ArrayFacts, ThreadFacts DEF ArraysNotShared, BufferOK, ThreadsOK
<1>1. ASSUME NEW s \in Senders, SendEnqueue(s) PROVE ArraysNotShared'
  <2>1. PICK a \in Arrays :
          /\ pending' = a
          /\ content' = [content EXCEPT ![a] = Append(PendingRecords, attempts + 1)]
          /\ a = pending \/ a \in Unused
    BY <1>1 DEF SendEnqueue, Allocated, Unused
  <2>2. a # backBuf /\ \A t \in Threads : held[t] # a
    BY <2>1 DEF Unused
  <2> QED
    BY <1>1, <2>1, <2>2 DEF SendEnqueue
<1>2. ASSUME NEW t \in Threads, FlushSwap(t) PROVE ArraysNotShared'
  BY <1>2 DEF FlushSwap, NewBack
<1>3. ASSUME NEW t \in Threads, FlushClear(t) PROVE ArraysNotShared'
  <2>1. held[t] # NoArray
    BY <1>3 DEF FlushClear, HolderInv, Holding
  <2> QED
    BY <1>3, <2>1 DEF FlushClear
<1>4. ASSUME NEW t \in Threads, FlushReclaim(t) PROVE ArraysNotShared'
  <2>1. held[t] # NoArray /\ content[held[t]] = <<>>
    BY <1>4 DEF FlushReclaim, HolderInv, Holding, ReclaimInv
  <2> QED
    BY <1>4, <2>1 DEF FlushReclaim
<1>5. CASE UNCHANGED <<buffer, held>>
  BY <1>5 DEF buffer
<1> QED
  BY <1>1, <1>2, <1>3, <1>4, <1>5
     DEF Next, vars, SendStep, Flush, CloseStep, SendRefused, SendSignal, UserFlush,
         FlushNothing, FlushAppend, LingerWake, LingerFires, LingerExits, CloseStops,
         CloseMarks, CloseReturns, CloseTimesOut

LEMMA ReclaimStep ==
  TypeOK /\ HolderInv /\ ArraysNotShared /\ ReclaimInv /\ [Next]_vars => ReclaimInv'
<1> SUFFICES ASSUME BufferOK, ThreadsOK, HolderInv, ArraysNotShared, ReclaimInv,
                    [Next]_vars
             PROVE  ReclaimInv'
  BY DEF TypeOK
<1> USE ArrayFacts, ThreadFacts DEF ReclaimInv, BufferOK, ThreadsOK, HolderInv, Holding, Goto
<1>1. ASSUME NEW s \in Senders, SendEnqueue(s) PROVE ReclaimInv'
  <2>1. PICK a \in Arrays :
          /\ content' = [content EXCEPT ![a] = Append(PendingRecords, attempts + 1)]
          /\ a = pending \/ a \in Unused
    BY <1>1 DEF SendEnqueue, Allocated, Unused
  <2>2. \A t \in Threads : held[t] # a
    BY <2>1 DEF Unused, ArraysNotShared
  <2> QED
    BY <1>1, <2>1, <2>2 DEF SendEnqueue
<1>2. ASSUME NEW t \in Threads, FlushClear(t) PROVE ReclaimInv'
  BY <1>2 DEF FlushClear
<1>3. ASSUME NEW t \in Threads,
             FlushNothing(t) \/ FlushSwap(t) \/ FlushAppend(t) \/ FlushReclaim(t)
      PROVE  ReclaimInv'
  BY <1>3 DEF FlushNothing, FlushSwap, FlushAppend, FlushReclaim, AfterFlush, buffer
<1>4. ASSUME NEW s \in Senders, SendRefused(s) \/ SendSignal(s) \/ UserFlush(s)
      PROVE  ReclaimInv'
  BY <1>4 DEF SendRefused, SendSignal, UserFlush, buffer
<1>5. CASE LingerWake \/ LingerFires \/ LingerExits
  BY <1>5 DEF LingerWake, LingerFires, LingerExits, buffer
<1>6. CASE CloseStep
  BY <1>6 DEF CloseStep, CloseStops, CloseMarks, CloseReturns, CloseTimesOut, buffer
<1>7. CASE UNCHANGED vars
  BY <1>7 DEF vars, buffer
<1> QED
  BY <1>1, <1>2, <1>3, <1>4, <1>5, <1>6, <1>7 DEF Next, SendStep, Flush

(* The pending records change by Send and by a swap only, and a swap leaves *)
(* none.                                                                    *)
LEMMA PendingChanges ==
  ASSUME BufferOK, ThreadsOK, HolderInv, ArraysNotShared, [Next]_vars
  PROVE  \/ PendingRecords' = PendingRecords /\ bufSize' = bufSize
         \/ \E s \in Senders :
              /\ SendEnqueue(s)
              /\ PendingRecords' = Append(PendingRecords, attempts + 1)
         \/ \E t \in Threads : FlushSwap(t) /\ PendingRecords' = <<>>
<1> USE ArrayFacts, ThreadFacts DEF PendingRecords, BufferOK, ThreadsOK, ArraysNotShared
<1>1. ASSUME NEW s \in Senders, SendEnqueue(s)
      PROVE  PendingRecords' = Append(PendingRecords, attempts + 1)
  BY <1>1 DEF SendEnqueue, Allocated, Unused
<1>2. ASSUME NEW t \in Threads, FlushSwap(t) PROVE PendingRecords' = <<>>
  BY <1>2 DEF FlushSwap
<1>3. ASSUME NEW t \in Threads, FlushClear(t)
      PROVE  PendingRecords' = PendingRecords /\ bufSize' = bufSize
  BY <1>3 DEF FlushClear, HolderInv, Holding
<1>4. CASE UNCHANGED <<content, pending, bufSize>>
  BY <1>4
<1> QED
  BY <1>1, <1>2, <1>3, <1>4
     DEF Next, vars, buffer, SendStep, Flush, CloseStep, SendRefused, SendSignal,
         UserFlush, FlushNothing, FlushAppend, FlushReclaim, LingerWake, LingerFires,
         LingerExits, CloseStops, CloseMarks, CloseReturns, CloseTimesOut

LEMMA SizeStep ==
  TypeOK /\ HolderInv /\ ArraysNotShared /\ SizeIsExact /\ [Next]_vars => SizeIsExact'
<1> SUFFICES ASSUME BufferOK, ThreadsOK, HolderInv, ArraysNotShared, SizeIsExact,
                    [Next]_vars
             PROVE  SizeIsExact'
  BY DEF TypeOK
<1> USE ProducerAssumption DEF SizeIsExact
<1>1. CASE PendingRecords' = PendingRecords /\ bufSize' = bufSize
  BY <1>1
<1>2. ASSUME NEW s \in Senders, SendEnqueue(s),
             PendingRecords' = Append(PendingRecords, attempts + 1)
      PROVE  SizeIsExact'
  <2>1. attempts + 1 \in Records
    BY <1>2 DEF SendEnqueue, ThreadsOK, Records
  <2>2. Len(PendingRecords') = Len(PendingRecords) + 1
    BY <1>2, <2>1, PendingType, AppendType
  <2>3. bufSize' = bufSize + 1 /\ (MaxPending > 0 => bufSize + 1 <= MaxPending)
    BY <1>2 DEF SendEnqueue, Backpressure, BufferOK
  <2> QED
    BY <2>2, <2>3
<1>3. ASSUME NEW t \in Threads, FlushSwap(t), PendingRecords' = <<>> PROVE SizeIsExact'
  BY <1>3, EmptySeq DEF FlushSwap
<1> QED
  BY <1>1, <1>2, <1>3, PendingChanges

-----------------------------------------------------------------------------
(* Closing, and the wake-up of the linger goroutine. *)

LEMMA CloseStepInv ==
  TypeOK /\ HolderInv /\ ArraysNotShared /\ CloseInv /\ [Next]_vars => CloseInv'
<1> SUFFICES ASSUME BufferOK, ThreadsOK, HolderInv, ArraysNotShared, CloseInv, [Next]_vars
             PROVE  CloseInv'
  BY DEF TypeOK
<1> USE ThreadFacts DEF CloseInv, ThreadsOK, Holding, Goto
<1>1. ASSUME NEW s \in Senders, SendEnqueue(s) PROVE CloseInv'
  <2>1. pc'[Closer] = pc[Closer] /\ pc[Closer] \in {"open", "join"}
    BY <1>1 DEF SendEnqueue
  <2> QED
    BY <1>1, <2>1 DEF SendEnqueue, closing
<1>2. ASSUME NEW s \in Senders, SendRefused(s) \/ SendSignal(s) \/ UserFlush(s)
      PROVE  CloseInv'
  BY <1>2 DEF SendRefused, SendSignal, UserFlush, closing, buffer, PendingRecords
<1>3. ASSUME NEW t \in Threads, Flush(t) PROVE CloseInv'
  <2>1. PendingRecords' = PendingRecords \/ PendingRecords' = <<>>
    BY <1>3, PendingChanges, Zenon
       DEF Next, SendEnqueue, Flush, FlushNothing, FlushSwap, FlushAppend, FlushClear,
           FlushReclaim
  <2>2. UNCHANGED closing
    BY <1>3 DEF Flush, FlushNothing, FlushSwap, FlushAppend, FlushClear, FlushReclaim
  <2>3. CASE t # Closer
    <3>1. pc'[Closer] = pc[Closer]
      BY <1>3, <2>3 DEF Flush, FlushNothing, FlushSwap, FlushAppend, FlushClear,
                        FlushReclaim
    <3> QED
      BY <2>1, <2>2, <3>1 DEF closing
  <2>4. CASE t = Closer
    <3>1. pc[Closer] \in {"flush"} \cup Holding
      BY <1>3, <2>4 DEF Flush, FlushNothing, FlushSwap, FlushAppend, FlushClear,
                        FlushReclaim
    <3>2. pc'[Closer] \in {"closed"} \cup Holding
      BY <1>3, <2>4 DEF Flush, FlushNothing, FlushSwap, FlushAppend, FlushClear,
                        FlushReclaim, AfterFlush
    <3>3. PendingRecords' = <<>>
      <4>1. CASE FlushNothing(t)
        BY <2>1, <4>1 DEF FlushNothing
      <4>2. CASE FlushSwap(t)
        BY <4>2, ArrayFacts DEF FlushSwap, ArraysNotShared, BufferOK, PendingRecords
      <4>3. CASE FlushAppend(t) \/ FlushClear(t) \/ FlushReclaim(t)
        BY <2>1, <2>4, <4>3 DEF FlushAppend, FlushClear, FlushReclaim
      <4> QED
        BY <1>3, <4>1, <4>2, <4>3 DEF Flush
    <3> QED
      BY <2>2, <3>1, <3>2, <3>3 DEF closing
  <2> QED
    BY <2>3, <2>4
<1>4. CASE LingerWake \/ LingerFires \/ LingerExits
  BY <1>4 DEF LingerWake, LingerFires, LingerExits, closing, buffer, PendingRecords
<1>5. CASE CloseStep
  BY <1>5 DEF CloseStep, CloseStops, CloseMarks, CloseReturns, CloseTimesOut,
              buffer, PendingRecords
<1>6. CASE UNCHANGED vars
  BY <1>6 DEF vars, closing, buffer, PendingRecords
<1> QED
  BY <1>1, <1>2, <1>3, <1>4, <1>5, <1>6 DEF Next, SendStep

LEMMA ExitStep == TypeOK /\ ExitInv /\ [Next]_vars => ExitInv'
<1> SUFFICES ASSUME ThreadsOK, ExitInv, [Next]_vars PROVE ExitInv'
  BY DEF TypeOK
<1> USE ThreadFacts DEF ExitInv, ThreadsOK, Goto
<1>1. pc[Linger] = "exited" => pc'[Linger] = "exited"
  <2>1. ASSUME NEW s \in Senders, SendStep(s) PROVE pc'[Linger] = pc[Linger]
    BY <2>1 DEF SendStep, SendRefused, SendEnqueue, SendSignal, UserFlush
  <2>2. ASSUME NEW t \in Threads, Flush(t), pc[Linger] = "exited"
        PROVE  pc'[Linger] = "exited"
    BY <2>2 DEF Flush, FlushNothing, FlushSwap, FlushAppend, FlushClear, FlushReclaim
  <2> QED
    BY <2>1, <2>2
       DEF Next, vars, LingerWake, LingerFires, LingerExits, CloseStep, CloseStops,
           CloseMarks, CloseReturns, CloseTimesOut
<1>2. CASE CloseMarks
  BY <1>1, <1>2 DEF CloseMarks, Joined
<1>3. CASE closed' = closed
  BY <1>1, <1>3
<1> QED
  BY <1>2, <1>3
     DEF Next, vars, closing, SendStep, Flush, CloseStep, SendRefused, SendEnqueue,
         SendSignal, UserFlush, FlushNothing, FlushSwap, FlushAppend, FlushClear,
         FlushReclaim, LingerWake, LingerFires, LingerExits, CloseStops, CloseReturns,
         CloseTimesOut

LEMMA AnnouncedStep ==
  TypeOK /\ HolderInv /\ ArraysNotShared /\ CloseInv /\ PendingIsAnnounced /\ [Next]_vars
    => PendingIsAnnounced'
<1> SUFFICES ASSUME BufferOK, ThreadsOK, HolderInv, ArraysNotShared, CloseInv,
                    PendingIsAnnounced, [Next]_vars, PendingRecords' # <<>>
             PROVE  \/ flushCh' \/ pc'[Linger] \in {"timer", "flush"}
                    \/ \E s \in Senders : pc'[s] \in {"signal", "flush"}
                    \/ stopped' /\ pc'[Closer] \in {"join", "flush"}
  BY DEF TypeOK, PendingIsAnnounced
<1> DEFINE Goal == \/ flushCh' \/ pc'[Linger] \in {"timer", "flush"}
                   \/ \E s \in Senders : pc'[s] \in {"signal", "flush"}
                   \/ stopped' /\ pc'[Closer] \in {"join", "flush"}
<1> USE ThreadFacts DEF ThreadsOK, Goto
<1>1. ASSUME NEW s \in Senders, SendEnqueue(s) PROVE Goal
  BY <1>1 DEF SendEnqueue
<1>2. ASSUME NEW s \in Senders, SendSignal(s) PROVE Goal
  BY <1>2 DEF SendSignal, Token
<1>3. ASSUME NEW t \in Threads, FlushNothing(t) PROVE Goal
  BY <1>3 DEF FlushNothing, buffer, PendingRecords
<1>4. ASSUME NEW t \in Threads, FlushSwap(t) PROVE Goal
  BY <1>4, ArrayFacts DEF FlushSwap, ArraysNotShared, BufferOK, PendingRecords
<1>5. CASE PendingRecords # <<>> /\ LingerExits
  BY <1>5 DEF LingerExits, CloseInv, Holding, HolderInv, closing
<1>6. ASSUME PendingRecords # <<>>,
             \/ \E s \in Senders : SendRefused(s) \/ UserFlush(s)
             \/ \E t \in Threads : FlushAppend(t) \/ FlushClear(t) \/ FlushReclaim(t)
             \/ LingerWake \/ LingerFires \/ CloseStep \/ UNCHANGED vars
      PROVE  Goal
  <2>1. \/ flushCh \/ pc[Linger] \in {"timer", "flush"}
        \/ \E s \in Senders : pc[s] \in {"signal", "flush"}
        \/ stopped /\ pc[Closer] \in {"join", "flush"}
    BY <1>6 DEF PendingIsAnnounced
  <2>2. ASSUME NEW s \in Senders, SendRefused(s) \/ UserFlush(s) PROVE Goal
    BY <2>1, <2>2 DEF SendRefused, UserFlush, closing
  <2>3. ASSUME NEW t \in Threads, FlushAppend(t) \/ FlushClear(t) \/ FlushReclaim(t)
        PROVE  Goal
    <3>1. \A u \in Threads : pc[u] \in {"timer", "flush", "signal", "join"} => pc'[u] = pc[u]
      BY <2>3 DEF FlushAppend, FlushClear, FlushReclaim
    <3>2. flushCh' = flushCh /\ stopped' = stopped
      BY <2>3 DEF FlushAppend, FlushClear, FlushReclaim, closing
    <3> QED
      BY <2>1, <3>1, <3>2
  <2>4. CASE LingerWake \/ LingerFires
    BY <2>4 DEF LingerWake, LingerFires
  <2>5. CASE CloseStep
    BY <2>1, <2>5 DEF CloseStep, CloseStops, CloseMarks, CloseReturns, CloseTimesOut
  <2>6. CASE UNCHANGED vars
    BY <2>1, <2>6 DEF vars, closing
  <2> QED
    BY <1>6, <2>2, <2>3, <2>4, <2>5, <2>6
<1>7. PendingRecords = <<>> => (\E s \in Senders : SendEnqueue(s))
  BY PendingChanges
<1> QED
  BY <1>1, <1>2, <1>3, <1>4, <1>5, <1>6, <1>7 DEF Next, SendStep, Flush

-----------------------------------------------------------------------------
(* The theorems. *)

THEOREM Inductive == Spec => []IInv
<1>1. Init => IInv
  <2> SUFFICES ASSUME Init PROVE IInv
    OBVIOUS
  <2>1. TypeOK
    BY InitTypes
  <2>2. HolderInv /\ CloseInv /\ ReclaimInv /\ ExitInv
    BY ThreadFacts, ArrayFacts
       DEF Init, HolderInv, CloseInv, ExitInv, ReclaimInv, Holding, Threads, PendingRecords
  <2>3. PendingRecords = <<>>
    BY ArrayFacts DEF Init, PendingRecords
  <2>4. ArraysNotShared
    BY ArrayFacts DEF Init, ArraysNotShared
  <2>5. SizeIsExact /\ PendingIsAnnounced
    BY <2>3, EmptySeq, ProducerAssumption DEF SizeIsExact, PendingIsAnnounced, Init
  <2> QED
    BY <2>1, <2>2, <2>4, <2>5 DEF IInv
<1>2. IInv /\ [Next]_vars => IInv'
  <2> SUFFICES ASSUME IInv, [Next]_vars PROVE IInv'
    OBVIOUS
  <2>1. TypeOK'
    BY BufferStep, ThreadsStep, FlagsStep, FateStep DEF IInv, TypeOK
  <2> QED
    BY <2>1, HolderStep, SharingStep, ReclaimStep, SizeStep, CloseStepInv, ExitStep,
       AnnouncedStep
       DEF IInv
<1> QED
  BY <1>1, <1>2, PTL DEF Spec

(* The variables keep their types. *)
THEOREM TypeCorrect == Spec => []TypeOK
  BY Inductive, PTL DEF IInv

(* However many goroutines flush at once, the double buffer never has two    *)
(* owners for one backing array.                                             *)
THEOREM BuffersAreOwned == Spec => []ArraysNotShared
  BY Inductive, PTL DEF IInv

(* bufSize never drifts from the records it stands for, and MaxPendingBytes  *)
(* is never passed.                                                          *)
THEOREM SizeBounded == Spec => []SizeIsExact
  BY Inductive, PTL DEF IInv

(* The unlock-then-signal of Send loses no wake-up, for any number of        *)
(* senders.                                                                  *)
THEOREM NoLostWakeup == Spec => []PendingIsAnnounced
  BY Inductive, PTL DEF IInv

(* A Close that returned without an error left nothing in the buffer.        *)
THEOREM CloseLeavesNothing == Spec => []CloseDrains
<1>1. IInv => CloseDrains
  BY ThreadFacts DEF IInv, CloseInv, ExitInv, CloseDrains, HolderInv, Holding, Threads
<1> QED
  BY Inductive, <1>1, PTL

-----------------------------------------------------------------------------
(* The fate of the records.  Every accepted record is somewhere (PlacedInv), *)
(* nothing else is anywhere (KnownInv), and no record is twice in a sequence *)
(* or in two of the places (ApartInv).                                       *)

Batch(t) == content[held[t]]
Appending == {t \in Threads : pc[t] = "append"}

In(q, r) == \E i \in 1..Len(q) : q[i] = r
Distinct(q) == \A i, j \in 1..Len(q) : q[i] = q[j] => i = j

PlacedInv ==
  \A r \in accepted : \/ In(PendingRecords, r) \/ In(log, r) \/ r \in lost
                      \/ \E t \in Appending : In(Batch(t), r)

KnownInv ==
  /\ \A r \in Records :
       \/ In(PendingRecords, r) \/ In(log, r) \/ r \in lost
       \/ \E t \in Appending : In(Batch(t), r)
       => r \in accepted
  /\ \A r \in accepted : r <= attempts

ApartInv ==
  /\ Distinct(PendingRecords) /\ Distinct(log)
  /\ \A t \in Appending : Distinct(Batch(t))
  /\ \A r \in Records :
       /\ ~(In(PendingRecords, r) /\ In(log, r))
       /\ ~(In(PendingRecords, r) /\ r \in lost)
       /\ ~(In(log, r) /\ r \in lost)
       /\ \A t \in Appending : In(Batch(t), r) =>
            /\ ~In(PendingRecords, r) /\ ~In(log, r) /\ r \notin lost
            /\ \A u \in Appending : In(Batch(u), r) => t = u

FateInv == PlacedInv /\ KnownInv /\ ApartInv

LEMMA AppendIn ==
  ASSUME NEW S, NEW q \in Seq(S), NEW e \in S
  PROVE  /\ \A r : In(Append(q, e), r) <=> In(q, r) \/ r = e
         /\ Distinct(q) /\ ~In(q, e) => Distinct(Append(q, e))
<1>1. /\ Len(Append(q, e)) = Len(q) + 1 /\ Len(q) \in Nat
      /\ \A i \in 1..Len(q) : Append(q, e)[i] = q[i]
      /\ Append(q, e)[Len(q) + 1] = e
  OBVIOUS
<1>2. \A i \in 1..Len(q) + 1 : i \in 1..Len(q) \/ i = Len(q) + 1
  BY <1>1
<1>3. ASSUME NEW r PROVE In(Append(q, e), r) <=> In(q, r) \/ r = e
  <2>1. ASSUME In(Append(q, e), r) PROVE In(q, r) \/ r = e
    BY <1>1, <1>2, <2>1 DEF In
  <2>2. ASSUME In(q, r) PROVE In(Append(q, e), r)
    BY <1>1, <2>2 DEF In
  <2>3. In(Append(q, e), e)
    BY <1>1 DEF In
  <2> QED
    BY <2>1, <2>2, <2>3
<1>4. ASSUME Distinct(q), ~In(q, e) PROVE Distinct(Append(q, e))
  BY <1>1, <1>2, <1>4 DEF Distinct, In
<1> QED
  BY <1>3, <1>4

LEMMA ConcatIn ==
  ASSUME NEW S, NEW q \in Seq(S), NEW b \in Seq(S)
  PROVE  /\ \A r : In(q \o b, r) <=> In(q, r) \/ In(b, r)
         /\ Distinct(q) /\ Distinct(b) /\ (\A r \in S : ~(In(q, r) /\ In(b, r)))
              => Distinct(q \o b)
<1>1. /\ Len(q \o b) = Len(q) + Len(b) /\ Len(q) \in Nat /\ Len(b) \in Nat
      /\ \A i \in 1..Len(q) : (q \o b)[i] = q[i]
      /\ \A i \in 1..Len(b) : (q \o b)[Len(q) + i] = b[i]
  OBVIOUS
<1>2. ASSUME NEW i \in 1..Len(q \o b)
      PROVE  \/ i \in 1..Len(q) /\ (q \o b)[i] = q[i]
             \/ i - Len(q) \in 1..Len(b) /\ (q \o b)[i] = b[i - Len(q)]
  <2>1. CASE i > Len(q)
    <3>1. i - Len(q) \in 1..Len(b) /\ i = Len(q) + (i - Len(q))
      BY <1>1, <2>1
    <3> QED
      BY <1>1, <3>1
  <2> QED
    BY <1>1, <2>1
<1>3. ASSUME NEW r PROVE In(q \o b, r) <=> In(q, r) \/ In(b, r)
  <2>1. ASSUME In(q \o b, r) PROVE In(q, r) \/ In(b, r)
    BY <1>2, <2>1 DEF In
  <2>2. ASSUME In(q, r) PROVE In(q \o b, r)
    BY <1>1, <2>2 DEF In
  <2>3. ASSUME In(b, r) PROVE In(q \o b, r)
    <3>1. PICK i \in 1..Len(b) : b[i] = r
      BY <2>3 DEF In
    <3>2. Len(q) + i \in 1..Len(q \o b)
      BY <1>1
    <3> QED
      BY <1>1, <3>1, <3>2 DEF In
  <2> QED
    BY <2>1, <2>2, <2>3
<1>4. ASSUME Distinct(q), Distinct(b), \A r \in S : ~(In(q, r) /\ In(b, r)),
             NEW i \in 1..Len(q \o b), NEW j \in 1..Len(q \o b),
             (q \o b)[i] = (q \o b)[j]
      PROVE  i = j
  <2>1. CASE i \in 1..Len(q) /\ j \in 1..Len(q)
    BY <1>1, <1>4, <2>1 DEF Distinct
  <2>2. CASE i - Len(q) \in 1..Len(b) /\ j - Len(q) \in 1..Len(b)
    <3>1. b[i - Len(q)] = b[j - Len(q)]
      BY <1>1, <1>2, <1>4, <2>2
    <3>2. i - Len(q) = j - Len(q)
      BY <1>4, <2>2, <3>1 DEF Distinct
    <3> QED
      BY <1>1, <3>2
  <2>3. ASSUME NEW k \in 1..Len(q), NEW l \in 1..Len(b), q[k] = b[l] PROVE FALSE
    <3>1. q[k] \in S
      OBVIOUS
    <3> QED
      BY <1>4, <2>3, <3>1 DEF In
  <2> QED
    BY <1>2, <1>4, <2>1, <2>2, <2>3
<1> QED
  BY <1>3, <1>4 DEF Distinct

(* How a step can move records. *)
RecordEnters ==
  /\ attempts + 1 \in Records
  /\ PendingRecords' = Append(PendingRecords, attempts + 1)
  /\ attempts' = attempts + 1 /\ accepted' = accepted \cup {attempts + 1}
  /\ log' = log /\ lost' = lost /\ Appending' = Appending
  /\ \A t \in Appending : Batch(t)' = Batch(t)

BatchTaken(t) ==
  /\ PendingRecords' = <<>> /\ t \notin Appending
  /\ Appending' = Appending \cup {t} /\ Batch(t)' = PendingRecords
  /\ log' = log /\ lost' = lost /\ attempts' = attempts /\ accepted' = accepted
  /\ \A u \in Appending : Batch(u)' = Batch(u)

BatchLeaves(t) ==
  /\ t \in Appending /\ Appending' = Appending \ {t}
  /\ \/ log' = log \o Batch(t) /\ lost' = lost
     \/ log' = log /\ lost' = lost \cup {Batch(t)[i] : i \in 1..Len(Batch(t))}
  /\ PendingRecords' = PendingRecords /\ attempts' = attempts /\ accepted' = accepted
  /\ \A u \in Appending : Batch(u)' = Batch(u)

RecordsStay ==
  /\ PendingRecords' = PendingRecords /\ attempts' >= attempts /\ accepted' = accepted
  /\ log' = log /\ lost' = lost /\ Appending' = Appending
  /\ \A t \in Appending : Batch(t)' = Batch(t)

LEMMA RecordsMove ==
  ASSUME IInv, [Next]_vars
  PROVE  \/ RecordEnters \/ RecordsStay
         \/ \E t \in Threads : BatchTaken(t) \/ BatchLeaves(t)
<1>t. BufferOK /\ ThreadsOK /\ HolderInv /\ ArraysNotShared /\ attempts \in Nat
  BY ProducerAssumption DEF IInv, TypeOK, ThreadsOK
<1> USE ArrayFacts, ThreadFacts
<1>h. \A t \in Appending : held[t] \in Arrays
  BY <1>t DEF Appending, HolderInv, Holding, ThreadsOK
<1>1. ASSUME NEW s \in Senders, SendEnqueue(s) PROVE RecordEnters
  <2>1. PICK a \in Arrays :
          /\ pending' = a
          /\ content' = [content EXCEPT ![a] = Append(PendingRecords, attempts + 1)]
          /\ a = pending \/ a \in Unused
    <3>1. PICK a \in IF pending = NoArray THEN Allocated ELSE {pending} :
            /\ pending' = a
            /\ content' = [content EXCEPT ![a] = Append(PendingRecords, attempts + 1)]
      BY <1>1 DEF SendEnqueue
    <3>2. a \in Arrays /\ (a = pending \/ a \in Unused)
      BY <1>t, <3>1 DEF Allocated, Unused, BufferOK
    <3> QED
      BY <3>1, <3>2
  <2>2. \A t \in Threads : held[t] # a
    BY <1>t, <2>1 DEF Unused, ArraysNotShared
  <2>3. PendingRecords' = Append(PendingRecords, attempts + 1)
    BY <1>t, <2>1 DEF PendingRecords, BufferOK
  <2>4. held' = held /\ \A t \in Appending : Batch(t)' = Batch(t)
    BY <1>1, <1>t, <1>h, <2>1, <2>2 DEF SendEnqueue, Batch, BufferOK, Appending
  <2>5. Appending' = Appending
    BY <1>1, <1>t DEF SendEnqueue, Goto, Appending, ThreadsOK
  <2>6. attempts + 1 \in Records
    BY <1>1, <1>t, ProducerAssumption DEF SendEnqueue, Records
  <2> QED
    BY <1>1, <2>3, <2>4, <2>5, <2>6 DEF SendEnqueue, RecordEnters
<1>2. ASSUME NEW t \in Threads, FlushSwap(t) PROVE BatchTaken(t)
  <2>1. pc[t] = "flush" /\ pending # NoArray /\ pending \in Arrays
    BY <1>2, <1>t DEF FlushSwap, PendingRecords, BufferOK
  <2>2. PendingRecords' = <<>>
    BY <1>2, <1>t DEF FlushSwap, PendingRecords, ArraysNotShared
  <2>3. t \notin Appending /\ Appending' = Appending \cup {t}
    BY <1>2, <1>t, <2>1 DEF FlushSwap, Goto, Appending, ThreadsOK
  <2>4. Batch(t)' = PendingRecords /\ \A u \in Appending : Batch(u)' = Batch(u)
    BY <1>2, <1>t, <2>1, <2>3 DEF FlushSwap, Batch, PendingRecords, Appending, ThreadsOK
  <2> QED
    BY <1>2, <2>2, <2>3, <2>4 DEF FlushSwap, BatchTaken
<1>3. ASSUME NEW t \in Threads, FlushAppend(t) PROVE BatchLeaves(t)
  <2>1. t \in Appending /\ Appending' = Appending \ {t}
    BY <1>3, <1>t DEF FlushAppend, Goto, Appending, ThreadsOK
  <2>2. /\ PendingRecords' = PendingRecords
        /\ \A u \in Appending : Batch(u)' = Batch(u)
    BY <1>3 DEF FlushAppend, buffer, PendingRecords, Batch
  <2> QED
    BY <1>3, <2>1, <2>2 DEF FlushAppend, BatchLeaves, Batch
<1>4. ASSUME NEW t \in Threads, FlushClear(t) PROVE RecordsStay
  <2>1. pc[t] = "clear" /\ held[t] \in Arrays /\ held' = held
        /\ content' = [content EXCEPT ![held[t]] = <<>>]
    BY <1>4, <1>t DEF FlushClear, HolderInv, Holding, ThreadsOK
  <2>2. PendingRecords' = PendingRecords
    BY <1>4, <1>t, <2>1 DEF FlushClear, PendingRecords, ArraysNotShared, BufferOK
  <2>3. \A u \in Appending : held[u] # held[t]
    BY <1>t, <2>1 DEF Appending, ArraysNotShared
  <2>4. \A u \in Appending : Batch(u)' = Batch(u)
    BY <1>t, <1>h, <2>1, <2>3 DEF Batch, BufferOK
  <2>5. Appending' = Appending
    BY <1>4, <1>t DEF FlushClear, Goto, Appending, ThreadsOK
  <2> QED
    BY <1>4, <1>t, <2>2, <2>4, <2>5 DEF FlushClear, RecordsStay
<1>5. ASSUME NEW t \in Threads, FlushReclaim(t) PROVE RecordsStay
  <2>1. pc[t] = "reclaim" /\ \A u \in Threads : u # t => held'[u] = held[u]
    BY <1>5, <1>t DEF FlushReclaim, ThreadsOK
  <2>2. \A u \in Appending : Batch(u)' = Batch(u)
    BY <1>5, <2>1 DEF FlushReclaim, Batch, Appending
  <2>3. Appending' = Appending
    BY <1>5, <1>t DEF FlushReclaim, Goto, AfterFlush, Appending, ThreadsOK
  <2> QED
    BY <1>5, <1>t, <2>2, <2>3 DEF FlushReclaim, RecordsStay, PendingRecords
<1>6. ASSUME UNCHANGED <<content, pending, held, accepted, log, lost>>,
             attempts' \in {attempts, attempts + 1}, Appending' = Appending
      PROVE  RecordsStay
  BY <1>6, <1>t DEF RecordsStay, PendingRecords, Batch
<1>7. ASSUME NEW s \in Senders, SendRefused(s) \/ SendSignal(s) \/ UserFlush(s)
      PROVE  RecordsStay
  <2>1. Appending' = Appending
    BY <1>7, <1>t DEF SendRefused, SendSignal, UserFlush, Goto, Appending, ThreadsOK
  <2> QED
    BY <1>6, <1>7, <2>1 DEF SendRefused, SendSignal, UserFlush, buffer
<1>8. ASSUME NEW t \in Threads, FlushNothing(t) PROVE RecordsStay
  <2>1. Appending' = Appending
    BY <1>8, <1>t DEF FlushNothing, Goto, AfterFlush, Appending, ThreadsOK
  <2> QED
    BY <1>6, <1>8, <2>1 DEF FlushNothing, buffer
<1>9. CASE LingerWake \/ LingerFires \/ LingerExits
  <2>1. Appending' = Appending
    BY <1>9, <1>t DEF LingerWake, LingerFires, LingerExits, Goto, Appending, ThreadsOK
  <2> QED
    BY <1>6, <1>9, <2>1 DEF LingerWake, LingerFires, LingerExits, buffer
<1>10. CASE CloseStep
  <2>1. Appending' = Appending
    BY <1>10, <1>t DEF CloseStep, CloseStops, CloseMarks, CloseReturns, CloseTimesOut, Goto,
                      Appending, ThreadsOK
  <2> QED
    BY <1>6, <1>10, <2>1
       DEF CloseStep, CloseStops, CloseMarks, CloseReturns, CloseTimesOut, buffer
<1>11. CASE UNCHANGED vars
  BY <1>6, <1>11 DEF vars, buffer, Appending
<1> QED
  BY <1>1, <1>2, <1>3, <1>4, <1>5, <1>7, <1>8, <1>9, <1>10, <1>11
     DEF Next, SendStep, Flush

LEMMA RecordsStep == IInv /\ FateInv /\ [Next]_vars => FateInv'
<1> SUFFICES ASSUME IInv, FateInv, [Next]_vars PROVE FateInv'
  OBVIOUS
<1>t. /\ PendingRecords \in Seq(Records) /\ log \in Seq(Records)
      /\ \A t \in Appending : Batch(t) \in Seq(Records)
      /\ attempts \in Nat /\ accepted \subseteq Records
      /\ \A r \in Records : r \in Nat
  <2>1. \A t \in Appending : held[t] \in Arrays
    BY ArrayFacts DEF IInv, TypeOK, HolderInv, ThreadsOK, Appending, Holding
  <2> QED
    BY <2>1, PendingType, ProducerAssumption
       DEF IInv, TypeOK, BufferOK, ThreadsOK, FateOK, Batch, Records
<1>e. Distinct(<<>>) /\ \A r : ~In(<<>>, r)
  BY DEF Distinct, In
<1> USE DEF FateInv, PlacedInv, KnownInv, ApartInv
<1>1. CASE RecordEnters
  <2> DEFINE rec == attempts + 1
  <2>1. rec \in Records /\ rec \notin accepted /\ \A r \in accepted : r <= rec
    BY <1>1, <1>t DEF RecordEnters
  <2>2. /\ ~In(PendingRecords, rec) /\ ~In(log, rec) /\ rec \notin lost
        /\ \A t \in Appending : ~In(Batch(t), rec)
    BY <2>1
  <2>3. /\ \A r : In(PendingRecords', r) <=> In(PendingRecords, r) \/ r = rec
        /\ Distinct(PendingRecords')
    BY <1>1, <1>t, <2>1, <2>2, AppendIn DEF RecordEnters
  <2>4. /\ attempts' = rec /\ accepted' = accepted \cup {rec}
        /\ log' = log /\ lost' = lost /\ Appending' = Appending
        /\ \A t \in Appending : Batch(t)' = Batch(t)
    BY <1>1 DEF RecordEnters
  <2> HIDE DEF rec
  <2>5. PlacedInv'
    BY <2>3, <2>4
  <2>6. KnownInv'
    BY <1>t, <2>1, <2>3, <2>4
  <2>7. ApartInv'
    BY <2>2, <2>3, <2>4
  <2> QED
    BY <2>5, <2>6, <2>7
<1>2. ASSUME NEW t \in Threads, BatchTaken(t) PROVE FateInv'
  <2>1. /\ t \notin Appending /\ Appending' = Appending \cup {t}
        /\ \A u \in Appending : u # t /\ Batch(u)' = Batch(u)
        /\ log' = log /\ lost' = lost /\ attempts' = attempts /\ accepted' = accepted
    BY <1>2 DEF BatchTaken
  <2>2. /\ Batch(t)' = PendingRecords
        /\ Distinct(PendingRecords') /\ \A r : ~In(PendingRecords', r)
    BY <1>2, <1>e DEF BatchTaken
  <2>3. PlacedInv'
    BY <2>1, <2>2
  <2>4. KnownInv'
    BY <2>1, <2>2
  <2>5. ApartInv'
    BY <2>1, <2>2
  <2> QED
    BY <2>3, <2>4, <2>5
<1>3. ASSUME NEW t \in Threads, BatchLeaves(t) PROVE FateInv'
  <2>1. /\ t \in Appending /\ Appending' = Appending \ {t}
        /\ \A u \in Appending : Batch(u)' = Batch(u)
        /\ PendingRecords' = PendingRecords
        /\ attempts' = attempts /\ accepted' = accepted
    BY <1>3 DEF BatchLeaves
  <2>2. CASE log' = log \o Batch(t) /\ lost' = lost
    <3>1. \A r \in Records : ~(In(log, r) /\ In(Batch(t), r))
      BY <2>1
    <3>2. /\ \A r : In(log', r) <=> In(log, r) \/ In(Batch(t), r)
          /\ Distinct(log')
      BY <1>t, <2>1, <2>2, <3>1, ConcatIn
    <3>3. PlacedInv'
      BY <2>1, <2>2, <3>2
    <3>4. KnownInv'
      BY <2>1, <2>2, <3>2
    <3>5. ApartInv'
      BY <2>1, <2>2, <3>2
    <3> QED
      BY <3>3, <3>4, <3>5
  <2>3. CASE log' = log /\ lost' = lost \cup {Batch(t)[i] : i \in 1..Len(Batch(t))}
    <3>1. \A r : r \in lost' <=> r \in lost \/ In(Batch(t), r)
      BY <2>3 DEF In
    <3>3. PlacedInv'
      BY <2>1, <2>3, <3>1
    <3>4. KnownInv'
      BY <2>1, <2>3, <3>1
    <3>5. ApartInv'
      BY <2>1, <2>3, <3>1
    <3> QED
      BY <3>3, <3>4, <3>5
  <2> QED
    BY <1>3, <2>2, <2>3 DEF BatchLeaves
<1>4. CASE RecordsStay
  <2>1. /\ PendingRecords' = PendingRecords /\ accepted' = accepted
        /\ log' = log /\ lost' = lost /\ Appending' = Appending
        /\ \A t \in Appending : Batch(t)' = Batch(t)
        /\ attempts' >= attempts /\ attempts' \in Nat
    BY <1>4, ThreadsStep, ProducerAssumption DEF RecordsStay, IInv, TypeOK, ThreadsOK
  <2>2. PlacedInv'
    BY <2>1
  <2>3. KnownInv'
    BY <1>t, <2>1
  <2>4. ApartInv'
    BY <2>1
  <2> QED
    BY <2>2, <2>3, <2>4
<1> QED
  BY <1>1, <1>2, <1>3, <1>4, RecordsMove

LEMMA RecordsInit == Init => FateInv
<1> SUFFICES ASSUME Init PROVE FateInv
  OBVIOUS
<1>1. PendingRecords = <<>> /\ log = <<>> /\ lost = {} /\ accepted = {}
  BY ArrayFacts DEF Init, PendingRecords
<1>2. Appending = {}
  BY DEF Init, Appending
<1>3. Distinct(<<>>) /\ \A r : ~In(<<>>, r)
  BY DEF Distinct, In
<1> QED
  BY <1>1, <1>2, <1>3 DEF FateInv, PlacedInv, KnownInv, ApartInv

(* In a sequence that holds a record once, one index has it. *)
At(x, q, r) == {<<x, k>> : k \in {j \in 1..Len(q) : q[j] = r}}
Single(S) == \E y : S = {y}

LEMMA OneIndex ==
  ASSUME NEW q, NEW x, NEW r, Distinct(q), In(q, r)
  PROVE  Single(At(x, q, r))
<1>1. PICK i \in 1..Len(q) : q[i] = r
  BY DEF In
<1>2. {j \in 1..Len(q) : q[j] = r} = {i}
  BY <1>1 DEF Distinct
<1>3. {<<x, k>> : k \in {j \in 1..Len(q) : q[j] = r}} = {<<x, k>> : k \in {i}}
  BY <1>2
<1>4. {<<x, k>> : k \in {i}} = {<<x, i>>}
  OBVIOUS
<1>5. At(x, q, r) = {<<x, i>>}
  BY <1>3, <1>4 DEF At
<1> QED
  BY <1>5 DEF Single

LEMMA OnePlace == IInv /\ FateInv => RecordsConserved
<1> SUFFICES ASSUME IInv, FateInv, NEW r \in accepted PROVE Cardinality(Where(r)) = 1
  BY DEF RecordsConserved
<1> USE DEF FateInv, PlacedInv, KnownInv, ApartInv
<1>r. r \in Records
  BY DEF IInv, TypeOK, FateOK
<1> DEFINE InBatches == UNION {At(t, Batch(t), r) : t \in Appending}
           InLost == IF r \in lost THEN {<<"lost", 0>>} ELSE {}
<1>w. Where(r) = At("pending", PendingRecords, r) \cup InBatches \cup At("log", log, r) \cup InLost
  <2> DEFINE P == {<<"pending", i>> : i \in {j \in 1..Len(PendingRecords) : PendingRecords[j] = r}}
             L == {<<"log", i>> : i \in {j \in 1..Len(log) : log[j] = r}}
             B == UNION {{<<t, i>> : i \in {j \in 1..Len(content[held[t]]) : content[held[t]][j] = r}}
                           : t \in {u \in Threads : pc[u] = "append"}}
  <2>1. P = At("pending", PendingRecords, r) /\ L = At("log", log, r)
    BY DEF At
  <2>2. B = InBatches
    BY DEF At, Batch, Appending
  <2>3. Where(r) = P \cup B \cup L \cup InLost
    BY DEF Where
  <2> HIDE DEF P, L, B, InBatches, InLost
  <2> QED
    BY <2>1, <2>2, <2>3
<1>n. ASSUME NEW q, NEW x, ~In(q, r) PROVE At(x, q, r) = {}
  BY <1>n DEF In, At
<1>p. ~In(PendingRecords, r) => At("pending", PendingRecords, r) = {}
  BY <1>n
<1>l. ~In(log, r) => At("log", log, r) = {}
  BY <1>n
<1>b. ASSUME NEW t \in Appending, ~In(Batch(t), r) PROVE At(t, Batch(t), r) = {}
  BY <1>b, <1>n
<1>e. ASSUME \A t \in Appending : ~In(Batch(t), r) PROVE InBatches = {}
  <2>1. \A t \in Appending : At(t, Batch(t), r) = {}
    BY <1>b, <1>e
  <2> QED
    BY <2>1
<1>o. Single(Where(r)) => Cardinality(Where(r)) = 1
  BY FS_Singleton DEF Single
<1>1. CASE In(PendingRecords, r)
  <2>1. ~In(log, r) /\ r \notin lost /\ \A t \in Appending : ~In(Batch(t), r)
    BY <1>1, <1>r
  <2>2. At("log", log, r) = {} /\ InLost = {} /\ InBatches = {}
    BY <2>1, <1>l, <1>e
  <2>3. Where(r) = At("pending", PendingRecords, r)
    BY <1>w, <2>2
  <2> HIDE DEF InBatches, InLost
  <2>4. Single(At("pending", PendingRecords, r))
    BY <1>1, OneIndex
  <2> QED
    BY <2>3, <2>4, <1>o
<1>2. CASE In(log, r)
  <2>1. ~In(PendingRecords, r) /\ r \notin lost /\ \A t \in Appending : ~In(Batch(t), r)
    BY <1>2, <1>r
  <2>2. At("pending", PendingRecords, r) = {} /\ InLost = {} /\ InBatches = {}
    BY <2>1, <1>p, <1>e
  <2>3. Where(r) = At("log", log, r)
    BY <1>w, <2>2
  <2> HIDE DEF InBatches, InLost
  <2>4. Single(At("log", log, r))
    BY <1>2, OneIndex
  <2> QED
    BY <2>3, <2>4, <1>o
<1>3. CASE r \in lost
  <2>1. ~In(PendingRecords, r) /\ ~In(log, r) /\ \A t \in Appending : ~In(Batch(t), r)
    BY <1>3, <1>r
  <2>2. At("pending", PendingRecords, r) = {} /\ At("log", log, r) = {} /\ InBatches = {}
    BY <2>1, <1>p, <1>l, <1>e
  <2>3. InLost = {<<"lost", 0>>}
    BY <1>3
  <2> HIDE DEF InBatches, InLost
  <2>4. Where(r) = {<<"lost", 0>>}
    BY <1>w, <2>2, <2>3
  <2> QED
    BY <2>4, <1>o DEF Single
<1>4. ASSUME NEW t \in Appending, In(Batch(t), r) PROVE Cardinality(Where(r)) = 1
  <2>1. /\ ~In(PendingRecords, r) /\ ~In(log, r) /\ r \notin lost
        /\ \A u \in Appending : u # t => ~In(Batch(u), r)
    BY <1>4, <1>r
  <2>2. At("pending", PendingRecords, r) = {} /\ At("log", log, r) = {} /\ InLost = {}
    BY <2>1, <1>p, <1>l
  <2>3. \A u \in Appending : u # t => At(u, Batch(u), r) = {}
    BY <2>1, <1>b
  <2>4. InBatches = At(t, Batch(t), r)
    BY <1>4, <2>3
  <2>5. Where(r) = At(t, Batch(t), r)
    BY <1>w, <2>2, <2>4
  <2> HIDE DEF InBatches, InLost
  <2>6. Single(At(t, Batch(t), r))
    BY <1>4, OneIndex
  <2> QED
    BY <2>5, <2>6, <1>o
<1> QED
  BY <1>1, <1>2, <1>3, <1>4

(* Whatever meets whatever between two holds of the lock, a record that Send *)
(* took is in exactly one place, for any number of senders and records.      *)
THEOREM NoRecordIsLost == Spec => []RecordsConserved
  BY Inductive, RecordsInit, RecordsStep, OnePlace, PTL DEF Spec
=============================================================================

--------------------------- MODULE ForgeProducer ---------------------------
(***************************************************************************)
(* The producer of the message queue: goroutines calling Send and Flush,   *)
(* the linger goroutine, and Close, around the double buffer of pending    *)
(* records.  A slice is known by its backing array: pending and backBuf    *)
(* point into arrays, and a flush owns the array it swapped out until it   *)
(* hands it back.                                                          *)
(*                                                                         *)
(* Each step between two lock operations is an action.  Record sizes are   *)
(* one, so BatchSize and MaxPendingBytes count records.                    *)
(***************************************************************************)
EXTENDS Naturals, Sequences, FiniteSets

CONSTANTS Senders,        \* goroutines that call Send and Flush
          ArrayCount,     \* bound: backing arrays, one more than there are threads
          MaxSends,       \* bound: Send calls, of all goroutines together
          BatchSize,      \* pending size at which Send flushes
          MaxPending,     \* MaxPendingBytes; 0 for no limit
          HasTimeout,     \* ShutdownTimeout > 0
          MaxFaults       \* bound: failing appends

Linger == "linger"
Closer == "closer"
Threads == Senders \cup {Linger, Closer}

ASSUME ProducerAssumption ==
  /\ ArrayCount \in Nat /\ ArrayCount >= 2
  /\ Linger \notin Senders /\ Closer \notin Senders
  /\ MaxSends \in Nat /\ MaxPending \in Nat /\ MaxFaults \in Nat
  /\ BatchSize \in Nat \ {0}
  /\ HasTimeout \in BOOLEAN

Arrays == 1..ArrayCount
NoArray == 0              \* nil

Records == 1..MaxSends    \* a record is known by the Send call that brought it

VARIABLES
  content,    \* the records in each array
  pending,    \* the array Send appends to
  backBuf,    \* the array the next flush will swap in
  bufSize,    \* size of the pending records
  pc,         \* where each goroutine is
  held,       \* the array a flush took out of the buffer
  closeErr,   \* the final flush of Close failed
  attempts,   \* Send calls so far
  accepted,   \* records Send put into the buffer
  flushCh,    \* the channel that wakes the linger goroutine holds a token
  stopped,    \* stopCh is closed
  closed,     \* set by Close, checked by Send
  closeRet,   \* what Close returned
  log,        \* the records appended to the commit log
  lost,       \* records of batches whose append failed
  faults

buffer == <<content, pending, backBuf, bufSize>>
closing == <<stopped, closed, closeRet>>
vars == <<buffer, pc, held, closeErr, attempts, accepted, flushCh, closing, log,
          lost, faults>>

Init ==
  /\ pending = 1 /\ backBuf = 2
  /\ content = [a \in Arrays |-> <<>>]
  /\ bufSize = 0
  /\ pc = [t \in Threads |-> CASE t = Linger -> "wait"
                               [] t = Closer -> "open"
                               [] OTHER -> "ready"]
  /\ held = [t \in Threads |-> NoArray]
  /\ closeErr = FALSE
  /\ attempts = 0
  /\ accepted = {}
  /\ flushCh = FALSE
  /\ stopped = FALSE /\ closed = FALSE /\ closeRet = "none"
  /\ log = <<>> /\ lost = {}
  /\ faults = 0

Goto(t, where) == pc' = [pc EXCEPT ![t] = where]

(* len(p.pending) == 0 holds of nil too. *)
PendingRecords == IF pending = NoArray THEN <<>> ELSE content[pending]

Unused == Arrays \ ({pending, backBuf} \cup {held[t] : t \in Threads})

-----------------------------------------------------------------------------
(* Send. *)

(* Mutant: the size already pending is compared alone. *)
Mut_Backpressure == MaxPending > 0 /\ bufSize > MaxPending

Backpressure == MaxPending > 0 /\ bufSize + 1 > MaxPending

(* ErrClosed or ErrBackpressure: the record is not taken. *)
SendRefused(s) ==
  /\ pc[s] = "ready" /\ attempts < MaxSends
  /\ closed \/ Backpressure
  /\ attempts' = attempts + 1
  /\ UNCHANGED <<buffer, pc, held, closeErr, accepted, flushCh, closing, log, lost,
                 faults>>

(* append() allocates when pending is nil; which array is of no importance. *)
Allocated == {a \in Unused : \A b \in Unused : a <= b}

SendEnqueue(s) ==
  /\ pc[s] = "ready" /\ attempts < MaxSends
  /\ ~closed /\ ~Backpressure
  /\ LET rec == attempts + 1
     IN /\ \E a \in IF pending = NoArray THEN Allocated ELSE {pending} :
             /\ pending' = a
             /\ content' = [content EXCEPT ![a] = Append(PendingRecords, rec)]
        /\ accepted' = accepted \cup {rec}
  /\ attempts' = attempts + 1
  /\ bufSize' = bufSize + 1
  /\ Goto(s, IF bufSize + 1 >= BatchSize THEN "flush" ELSE "signal")
  /\ UNCHANGED <<backBuf, held, closeErr, flushCh, closing, log, lost, faults>>

(* Mutant: the linger goroutine is not told of the record. *)
Mut_Token == flushCh

(* A token already in the channel stands for this record as well. *)
Token == TRUE

SendSignal(s) ==
  /\ pc[s] = "signal"
  /\ flushCh' = Token
  /\ Goto(s, "ready")
  /\ UNCHANGED <<buffer, held, closeErr, attempts, accepted, closing, log, lost, faults>>

UserFlush(s) ==
  /\ pc[s] = "ready"
  /\ Goto(s, "flush")
  /\ UNCHANGED <<buffer, held, closeErr, attempts, accepted, flushCh, closing, log,
                 lost, faults>>

-----------------------------------------------------------------------------
(* flush, run by a sender, by the linger goroutine or by Close. *)

AfterFlush(t) == CASE t = Linger -> "wait"
                   [] t = Closer -> "closed"
                   [] OTHER -> "ready"

FlushNothing(t) ==
  /\ pc[t] = "flush" /\ PendingRecords = <<>>
  /\ Goto(t, AfterFlush(t))
  /\ UNCHANGED <<buffer, held, closeErr, attempts, accepted, flushCh, closing, log, lost, faults>>

(* Mutant: the array is handed back while its records are being written.   *)
Mut_NewBack == pending

NewBack == NoArray

FlushSwap(t) ==
  /\ pc[t] = "flush" /\ PendingRecords # <<>>
  /\ held' = [held EXCEPT ![t] = pending]
  /\ pending' = backBuf
  /\ backBuf' = NewBack
  /\ bufSize' = 0
  /\ Goto(t, "append")
  /\ UNCHANGED <<content, closeErr, attempts, accepted, flushCh, closing, log, lost,
                 faults>>

(* CommitLog.Append takes all of the batch or none of it.  A sync that fails *)
(* behind the write is an error as well.                                     *)
FlushAppend(t) ==
  /\ pc[t] = "append"
  /\ LET batch == content[held[t]]
     IN \/ /\ log' = log \o batch
           /\ UNCHANGED <<closeErr, lost, faults>>
        \/ /\ faults < MaxFaults
           /\ faults' = faults + 1
           /\ \/ lost' = lost \cup {batch[i] : i \in 1..Len(batch)} /\ UNCHANGED log
              \/ log' = log \o batch /\ UNCHANGED lost
           /\ closeErr' = (closeErr \/ t = Closer)
  /\ Goto(t, "clear")
  /\ UNCHANGED <<buffer, held, attempts, accepted, flushCh, closing>>

(* The records are zeroed in place, outside the lock. *)
FlushClear(t) ==
  /\ pc[t] = "clear"
  /\ content' = [content EXCEPT ![held[t]] = <<>>]
  /\ Goto(t, "reclaim")
  /\ UNCHANGED <<pending, backBuf, bufSize, held, closeErr, attempts, accepted, flushCh,
                 closing, log, lost, faults>>

(* Only one of two concurrent flushes gets its array back into the buffer. *)
FlushReclaim(t) ==
  /\ pc[t] = "reclaim"
  /\ backBuf' = IF backBuf = NoArray THEN held[t] ELSE backBuf
  /\ held' = [held EXCEPT ![t] = NoArray]
  /\ Goto(t, AfterFlush(t))
  /\ UNCHANGED <<content, pending, bufSize, closeErr, attempts, accepted, flushCh,
                 closing, log, lost, faults>>

Flush(t) ==
  FlushNothing(t) \/ FlushSwap(t) \/ FlushAppend(t) \/ FlushClear(t) \/ FlushReclaim(t)

-----------------------------------------------------------------------------
(* The linger goroutine. *)

LingerWake ==
  /\ pc[Linger] = "wait" /\ flushCh
  /\ flushCh' = FALSE
  /\ Goto(Linger, "timer")
  /\ UNCHANGED <<buffer, held, closeErr, attempts, accepted, closing, log, lost, faults>>

LingerFires ==
  /\ pc[Linger] = "timer"
  /\ Goto(Linger, "flush")
  /\ UNCHANGED <<buffer, held, closeErr, attempts, accepted, flushCh, closing, log,
                 lost, faults>>

LingerExits ==
  /\ pc[Linger] \in {"wait", "timer"} /\ stopped
  /\ Goto(Linger, "exited")
  /\ UNCHANGED <<buffer, held, closeErr, attempts, accepted, flushCh, closing, log,
                 lost, faults>>

-----------------------------------------------------------------------------
(* Close.  Once.Do lets one call through; the others wait for it. *)

CloseStops ==
  /\ pc[Closer] = "open"
  /\ stopped' = TRUE
  /\ Goto(Closer, "join")
  /\ UNCHANGED <<buffer, held, closeErr, attempts, accepted, flushCh, closed, closeRet,
                 log, lost, faults>>

(* Mutant: Close does not wait for the linger goroutine. *)
Mut_Joined == TRUE

Joined == pc[Linger] = "exited"

CloseMarks ==
  /\ pc[Closer] = "join" /\ Joined
  /\ closed' = TRUE
  /\ Goto(Closer, "flush")
  /\ UNCHANGED <<buffer, held, closeErr, attempts, accepted, flushCh, stopped, closeRet,
                 log, lost, faults>>

(* The first call of Close: one after a time-out returns without an error,   *)
(* while the flush may still go on.                                          *)
CloseReturns ==
  /\ pc[Closer] = "closed" /\ closeRet = "none"
  /\ closeRet' = IF closeErr THEN "error" ELSE "ok"
  /\ UNCHANGED <<buffer, pc, held, closeErr, attempts, accepted, flushCh, stopped, closed,
                 log, lost, faults>>

(* ShutdownTimeout passed: Close returns, its flush goes on by itself. *)
CloseTimesOut ==
  /\ HasTimeout /\ closeRet = "none"
  /\ pc[Closer] \in {"flush", "append", "clear", "reclaim", "closed"}
  /\ closeRet' = "timeout"
  /\ UNCHANGED <<buffer, pc, held, closeErr, attempts, accepted, flushCh, stopped, closed,
                 log, lost, faults>>

-----------------------------------------------------------------------------
SendStep(s) == SendRefused(s) \/ SendEnqueue(s) \/ SendSignal(s) \/ UserFlush(s)

CloseStep == CloseStops \/ CloseMarks \/ CloseReturns \/ CloseTimesOut

Next ==
  \/ \E s \in Senders : SendStep(s)
  \/ \E t \in Threads : Flush(t)
  \/ LingerWake \/ LingerFires \/ LingerExits
  \/ CloseStep

Spec == Init /\ [][Next]_vars

(* Every goroutine finishes the call it is in; whether Send, Flush or Close  *)
(* is ever called is up to the caller.                                       *)
Fairness ==
  /\ \A s \in Senders : WF_vars(SendSignal(s))
  /\ \A t \in Threads : WF_vars(Flush(t))
  /\ WF_vars(LingerWake) /\ WF_vars(LingerFires) /\ WF_vars(LingerExits)
  /\ WF_vars(CloseMarks) /\ WF_vars(CloseReturns)

FairSpec == Spec /\ Fairness

-----------------------------------------------------------------------------
(* Properties. *)

PCs == {"ready", "signal", "flush", "append", "clear", "reclaim", "wait", "timer",
        "exited", "open", "join", "closed"}

BufferOK ==
  /\ content \in [Arrays -> Seq(Records)]
  /\ pending \in Arrays \cup {NoArray} /\ backBuf \in Arrays \cup {NoArray}
  /\ bufSize \in Nat

ThreadsOK ==
  /\ pc \in [Threads -> PCs]
  /\ held \in [Threads -> Arrays \cup {NoArray}]
  /\ attempts \in 0..MaxSends
  /\ closeRet \in {"none", "ok", "error", "timeout"}

FlagsOK ==
  /\ flushCh \in BOOLEAN /\ stopped \in BOOLEAN
  /\ closed \in BOOLEAN /\ closeErr \in BOOLEAN

FateOK ==
  /\ accepted \subseteq Records /\ lost \subseteq Records
  /\ log \in Seq(Records)
  /\ faults \in Nat

TypeOK == BufferOK /\ ThreadsOK /\ FlagsOK /\ FateOK

(* No array is used twice at once: what a flush writes and then zeroes is   *)
(* neither what Send appends to nor the spare one nor another flush's.      *)
ArraysNotShared ==
  /\ pending = backBuf => pending = NoArray
  /\ \A t \in Threads : held[t] # NoArray => held[t] \notin {pending, backBuf}
  /\ \A t, u \in Threads : held[t] = held[u] /\ held[t] # NoArray => t = u
  /\ backBuf # NoArray => content[backBuf] = <<>>

(* The places where a record can be. *)
Where(r) ==
  {<<"pending", i>> : i \in {j \in 1..Len(PendingRecords) : PendingRecords[j] = r}}
  \cup (UNION {{<<t, i>> : i \in {j \in 1..Len(content[held[t]]) : content[held[t]][j] = r}}
                 : t \in {u \in Threads : pc[u] = "append"}})
  \cup {<<"log", i>> : i \in {j \in 1..Len(log) : log[j] = r}}
  \cup (IF r \in lost THEN {<<"lost", 0>>} ELSE {})

(* A record Send accepted is in exactly one place: pending, in the hands of *)
(* one flush, in the log once, or reported lost by a failed append.         *)
RecordsConserved == \A r \in accepted : Cardinality(Where(r)) = 1

(* The size Send compares with its limits is the size of what is pending,   *)
(* so MaxPendingBytes bounds the buffer.                                    *)
SizeIsExact ==
  /\ bufSize = Len(PendingRecords)
  /\ MaxPending > 0 => bufSize <= MaxPending

(* While the linger goroutine lives, somebody is about to flush whatever is *)
(* pending: no wake-up is lost between Send's unlock and its signal.        *)
PendingIsAnnounced ==
  PendingRecords # <<>> =>
    \/ flushCh \/ pc[Linger] \in {"timer", "flush"}
    \/ \E s \in Senders : pc[s] \in {"signal", "flush"}
    \/ stopped /\ pc[Closer] \in {"join", "flush"}

(* "Close flushes remaining records and stops the linger goroutine"          *)
(* (producer.go:268): when Close has returned without an error nothing is    *)
(* pending, nothing ever will be, and the only records on their way to the   *)
(* log are in the hands of Send and Flush calls that have not returned.      *)
CloseDrains ==
  closeRet = "ok" =>
    /\ PendingRecords = <<>>
    /\ \A t \in Threads : held[t] # NoArray => t \in Senders

(* An accepted record leaves the buffer for the log (or is reported lost),   *)
(* whether it fills a batch, waits for the linger timer, or meets Close.     *)
EveryRecordIsFlushed ==
  \A r \in Records :
    (r \in accepted) ~> (r \in lost \/ \E i \in 1..Len(log) : log[i] = r)
=============================================================================

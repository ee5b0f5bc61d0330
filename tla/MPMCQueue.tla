----------------------------- MODULE MPMCQueue -----------------------------
(***************************************************************************)
(* MPMC, the bounded queue without locks.  A position is claimed by a      *)
(* compare-and-swap of head or tail; the turn of its slot says whose move  *)
(* it is: 2r for the Enqueue of round r, 2r + 1 for its Dequeue.  A step   *)
(* below is one atomic operation, or one access to the data of a slot,     *)
(* which no atomic operation guards.                                       *)
(*                                                                         *)
(* EnqueueBatch, DequeueBatch and Clear are calls in a row by one thread.  *)
(***************************************************************************)
EXTENDS Integers, Sequences

CONSTANTS Threads,
          Stalled,    \* threads that may stop for ever, wherever they are
          Items,
          Zero,       \* the zero value of T, in a slot without an item
          None,
          Capacity,   \* a power of two, at least 2
          MaxCalls    \* bound: calls of Enqueue and Dequeue

ASSUME QueueAssumption ==
  /\ Stalled \subseteq Threads
  /\ Capacity \in Nat \ {0}
  /\ None \notin Items \cup {Zero}
  /\ MaxCalls \in Nat

VARIABLES
  cursor,   \* head is cursor["enqueue"], tail is cursor["dequeue"]
  turn,     \* of each slot
  data,     \* of each slot
  pc,       \* where the call of a thread is
  op,       \* which call it is
  pos,      \* the position it loaded
  item,     \* the item it brings, or has read
  calls

vars == <<cursor, turn, data, pc, op, pos, item, calls>>

Ops == {"enqueue", "dequeue"}
Slots == 0..(Capacity - 1)

head == cursor["enqueue"]
tail == cursor["dequeue"]

idx(p) == p % Capacity
Round(p) == p \div Capacity

(* Mutant: both calls wait for the same turn. *)
Mut_expectedTurn(o, p) == 2 * Round(p)

expectedTurn(o, p) == 2 * Round(p) + (IF o = "enqueue" THEN 0 ELSE 1)

Init ==
  /\ cursor = [o \in Ops |-> 0]
  /\ turn = [i \in Slots |-> 0] /\ data = [i \in Slots |-> Zero]
  /\ pc = [t \in Threads |-> "idle"] /\ op = [t \in Threads |-> "enqueue"]
  /\ pos = [t \in Threads |-> 0] /\ item = [t \in Threads |-> None]
  /\ calls = 0

Goto(t, l) == pc' = [pc EXCEPT ![t] = l]

-----------------------------------------------------------------------------
Call(t) ==
  /\ pc[t] = "idle" /\ calls < MaxCalls
  /\ calls' = calls + 1
  /\ \/ \E x \in Items : op' = [op EXCEPT ![t] = "enqueue"] /\ item' = [item EXCEPT ![t] = x]
     \/ op' = [op EXCEPT ![t] = "dequeue"] /\ UNCHANGED item
  /\ Goto(t, "load")
  /\ UNCHANGED <<cursor, turn, data, pos>>

Load(t) ==
  /\ pc[t] = "load"
  /\ pos' = [pos EXCEPT ![t] = cursor[op[t]]]
  /\ Goto(t, "look")
  /\ UNCHANGED <<cursor, turn, data, op, item, calls>>

IsMyTurn(t) == turn[idx(pos[t])] = expectedTurn(op[t], pos[t])

Look(t) ==
  /\ pc[t] = "look"
  /\ Goto(t, IF IsMyTurn(t) THEN "swap" ELSE "again")
  /\ UNCHANGED <<cursor, turn, data, op, pos, item, calls>>

(* Mutant: the cursor is advanced by a plain store. *)
Mut_Swaps(t) == TRUE

(* The compare-and-swap succeeds. *)
Swaps(t) == cursor[op[t]] = pos[t]

Swap(t) ==
  /\ pc[t] = "swap"
  /\ IF Swaps(t)
     THEN /\ cursor' = [cursor EXCEPT ![op[t]] = pos[t] + 1]
          /\ Goto(t, IF op[t] = "enqueue" THEN "write" ELSE "read")
     ELSE Goto(t, "load") /\ UNCHANGED cursor
  /\ UNCHANGED <<turn, data, op, pos, item, calls>>

(* Mutant: Enqueue waits for its turn, as it would with a lock. *)
Mut_Refuses(t) == FALSE

(* Nobody has moved the cursor: full, or empty. *)
Refuses(t) == cursor[op[t]] = pos[t]

Again(t) ==
  /\ pc[t] = "again"
  /\ IF Refuses(t)
     THEN Goto(t, "idle") /\ item' = [item EXCEPT ![t] = None]
     ELSE Goto(t, "load") /\ UNCHANGED item
  /\ UNCHANGED <<cursor, turn, data, op, pos, calls>>

Write(t) ==
  /\ pc[t] = "write"
  /\ data' = [data EXCEPT ![idx(pos[t])] = item[t]]
  /\ Goto(t, "publish")
  /\ UNCHANGED <<cursor, turn, op, pos, item, calls>>

Read(t) ==
  /\ pc[t] = "read"
  /\ item' = [item EXCEPT ![t] = data[idx(pos[t])]]
  /\ Goto(t, "clear")
  /\ UNCHANGED <<cursor, turn, data, op, pos, calls>>

Clear(t) ==
  /\ pc[t] = "clear"
  /\ data' = [data EXCEPT ![idx(pos[t])] = Zero]
  /\ Goto(t, "publish")
  /\ UNCHANGED <<cursor, turn, op, pos, item, calls>>

(* Mutant: the slot skips the turn of the other side. *)
Mut_nextTurn(o, p) == expectedTurn(o, p) + 2

nextTurn(o, p) == expectedTurn(o, p) + 1

(* The slot is passed on, and the call returns: true, and the item. *)
Publish(t) ==
  /\ pc[t] = "publish"
  /\ turn' = [turn EXCEPT ![idx(pos[t])] = nextTurn(op[t], pos[t])]
  /\ Goto(t, "idle")
  /\ item' = [item EXCEPT ![t] = None]
  /\ UNCHANGED <<cursor, data, op, pos, calls>>

Step(t) ==
  Load(t) \/ Look(t) \/ Swap(t) \/ Again(t) \/ Write(t) \/ Read(t) \/ Clear(t) \/ Publish(t)

Next == \E t \in Threads : Call(t) \/ Step(t)

Spec == Init /\ [][Next]_vars

(* The scheduler runs every goroutine that has not stalled. *)
FairSpec == Spec /\ \A t \in Threads \ Stalled : WF_vars(Step(t))

-----------------------------------------------------------------------------
(* Properties. *)

PCs == {"idle", "load", "look", "swap", "again", "write", "read", "clear", "publish"}

TypeOK ==
  /\ cursor \in [Ops -> Nat]
  /\ turn \in [Slots -> Nat] /\ data \in [Slots -> Items \cup {Zero}]
  /\ pc \in [Threads -> PCs] /\ op \in [Threads -> Ops] /\ pos \in [Threads -> Nat]
  /\ item \in [Threads -> Items \cup {Zero, None}]
  /\ calls \in Nat

(* t has claimed position p for operation o and not passed it on. *)
Holds(t, o, p) ==
  op[t] = o /\ pos[t] = p /\ pc[t] \in {"write", "read", "clear", "publish"}

(* No two threads touch the data of one slot, although nothing guards it:    *)
(* not two enqueuers, not an enqueuer and the dequeuer a round before.       *)
SlotsNotShared ==
  \A t, u \in Threads :
    /\ t # u
    /\ Holds(t, op[t], pos[t]) /\ Holds(u, op[u], pos[u])
    => idx(pos[t]) # idx(pos[u])

(* "Returns false if queue is full" (mpmc.go:72), and Dequeue if it is       *)
(* empty: the slot at head is not free only when Capacity items are in, or   *)
(* when the Dequeue of the round before has claimed it and not passed it on. *)
(* The slot at tail has no item only when there is none, or when its Enqueue *)
(* is still at work.                                                         *)
RefusedForCause ==
  /\ turn[idx(head)] # expectedTurn("enqueue", head) =>
       head = tail + Capacity \/ \E t \in Threads : Holds(t, "dequeue", head - Capacity)
  /\ turn[idx(tail)] # expectedTurn("dequeue", tail) =>
       head = tail \/ \E t \in Threads : Holds(t, "enqueue", tail)

(* The item at a claimed position: in its slot, or with the thread that      *)
(* brings it.                                                                *)
ItemAt(p) ==
  IF \E t \in Threads : Holds(t, "enqueue", p)
  THEN item[CHOOSE t \in Threads : Holds(t, "enqueue", p)]
  ELSE data[idx(p)]

InHand(t) ==
  IF op[t] = "dequeue" /\ pc[t] = "read" THEN data[idx(pos[t])]
  ELSE IF op[t] = "dequeue" THEN item[t] ELSE None

Promise == INSTANCE BoundedQueue WITH
  queue <- [i \in 1..(head - tail) |-> ItemAt(tail + i - 1)],
  hand <- [t \in Threads |-> InHand(t)]

(* The queue is first in, first out and never longer than its capacity; an   *)
(* item that was accepted is neither lost, nor changed, nor given out twice, *)
(* from the compare-and-swap that accepts it to the return of the Dequeue.   *)
ImplementsQueue == Promise!Spec

(* "lock-free" (mpmc.go:30): a call returns although another thread has      *)
(* stopped for ever in the middle of its own.                                *)
CallsReturn == \A t \in Threads \ Stalled : pc[t] # "idle" ~> pc[t] = "idle"
=============================================================================

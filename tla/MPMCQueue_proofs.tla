-------------------------- MODULE MPMCQueue_proofs --------------------------
(***************************************************************************)
(* Proofs about MPMCQueue, for any number of threads, any capacity and any *)
(* length of the run.                                                      *)
(*                                                                         *)
(* The slots are read as a window of Capacity positions from tail on:      *)
(* those below head are claimed by an Enqueue, the others wait for one.    *)
(* Turns tells what the turn of each of them says, Holders where the       *)
(* positions of the threads inside a slot lie, Swapping that the turn a    *)
(* thread saw is still there when its compare-and-swap succeeds.           *)
(***************************************************************************)
EXTENDS MPMCQueue, TLAPS

(* Two ways to write a number as a multiple of Capacity and a rest are one.  *)
LEMMA DivisionUnique ==
  ASSUME NEW r \in Int, NEW k \in Int, NEW s \in Slots, NEW u \in Slots,
         Capacity * r + s = Capacity * k + u
  PROVE  r = k /\ s = u
<1> USE QueueAssumption DEF Slots
<1>1. Capacity * (r - k) = u - s
  OBVIOUS
<1>2. ~ (r - k >= 1)
  <2>1. SUFFICES ASSUME r - k >= 1 PROVE Capacity * (r - k) >= Capacity
    BY <1>1
  <2> QED BY <2>1
<1>3. ~ (k - r >= 1)
  <2>1. SUFFICES ASSUME k - r >= 1 PROVE Capacity * (k - r) >= Capacity
    BY <1>1
  <2> QED BY <2>1
<1> QED BY <1>1, <1>2, <1>3

(* The slot and the round of a position. *)
LEMMA Division ==
  ASSUME NEW p \in Nat
  PROVE  idx(p) \in Slots /\ Round(p) \in Nat /\ p = Capacity * Round(p) + idx(p)
  BY QueueAssumption, SMT DEF Slots, idx, Round

(* A round later, the same slot. *)
LEMMA NextRound ==
  ASSUME NEW p \in Nat
  PROVE  p + Capacity \in Nat /\ idx(p + Capacity) = idx(p) /\ Round(p + Capacity) = Round(p) + 1
<1>1. p + Capacity \in Nat
  BY QueueAssumption
<1>2. idx(p) \in Slots /\ Round(p) \in Nat /\ p = Capacity * Round(p) + idx(p)
  BY Division
<1>3. /\ idx(p + Capacity) \in Slots /\ Round(p + Capacity) \in Nat
      /\ p + Capacity = Capacity * Round(p + Capacity) + idx(p + Capacity)
  BY Division, <1>1
<1>4. Capacity * Round(p + Capacity) + idx(p + Capacity) = Capacity * (Round(p) + 1) + idx(p)
  BY <1>2, <1>3, QueueAssumption DEF Slots
<1>5. Round(p) + 1 \in Int /\ Round(p + Capacity) \in Int
  BY <1>2, <1>3
<1> QED BY <1>1, <1>2, <1>3, <1>4, <1>5, DivisionUnique

(* Positions less than a round apart have different slots. *)
LEMMA SlotsDiffer ==
  ASSUME NEW p \in Nat, NEW q \in Nat, p < q, q < p + Capacity
  PROVE  idx(p) # idx(q)
<1>1. /\ idx(p) \in Slots /\ Round(p) \in Nat /\ p = Capacity * Round(p) + idx(p)
      /\ idx(q) \in Slots /\ Round(q) \in Nat /\ q = Capacity * Round(q) + idx(q)
  BY Division
<1>2. SUFFICES ASSUME idx(p) = idx(q) PROVE FALSE
  OBVIOUS
<1>3. Capacity * (Round(q) - Round(p)) = q - p
  BY <1>1, <1>2, QueueAssumption DEF Slots
<1>4. CASE Round(q) - Round(p) >= 1
  <2>1. Capacity * (Round(q) - Round(p)) >= Capacity
    BY <1>4, <1>1, QueueAssumption
  <2> QED BY <2>1, <1>3, QueueAssumption
<1>5. CASE Round(q) - Round(p) <= 0
  <2>1. Capacity * (Round(q) - Round(p)) <= 0
    BY <1>5, <1>1, QueueAssumption
  <2> QED BY <2>1, <1>3, QueueAssumption
<1> QED BY <1>1, <1>4, <1>5

-----------------------------------------------------------------------------
(* The invariant. *)

Inside == {"write", "read", "clear", "publish"}

(* Where a call is, what it does and what it carries. *)
Local ==
  \A t \in Threads :
    /\ pc[t] = "write" => op[t] = "enqueue"
    /\ pc[t] \in {"read", "clear"} => op[t] = "dequeue"
    /\ pc[t] # "idle" /\ op[t] = "enqueue" => item[t] \in Items
    /\ pc[t] = "idle" => item[t] = None
    /\ op[t] = "dequeue" /\ pc[t] \in {"load", "look", "swap", "again", "read"} => item[t] = None
    /\ op[t] = "dequeue" /\ pc[t] \in {"clear", "publish"} => item[t] # None
    /\ pc[t] \in {"look", "swap", "again"} => pos[t] <= cursor[op[t]]

Window == tail <= head /\ head <= tail + Capacity

Holders ==
  \A t \in Threads : pc[t] \in Inside =>
    /\ turn[idx(pos[t])] = expectedTurn(op[t], pos[t])
    /\ op[t] = "enqueue" => tail <= pos[t] /\ pos[t] < head
    /\ op[t] = "dequeue" => head <= pos[t] + Capacity /\ pos[t] < tail

Unique ==
  \A t, u \in Threads :
    t # u /\ pc[t] \in Inside /\ pc[u] \in Inside /\ op[t] = op[u] => pos[t] # pos[u]

Turns ==
  /\ \A p \in Nat : tail <= p /\ p < head =>
       \/ turn[idx(p)] = expectedTurn("dequeue", p)
       \/ \E t \in Threads : Holds(t, "enqueue", p)
  /\ \A p \in Nat : head <= p /\ p < tail + Capacity =>
       \/ turn[idx(p)] = expectedTurn("enqueue", p)
       \/ \E t \in Threads : Holds(t, "dequeue", p - Capacity)

Swapping ==
  \A t \in Threads :
    pc[t] = "swap" /\ cursor[op[t]] = pos[t] => IsMyTurn(t)

Written ==
  \A t \in Threads :
    pc[t] = "publish" /\ op[t] = "enqueue" => data[idx(pos[t])] = item[t]

IInv == TypeOK /\ Local /\ Window /\ Holders /\ Unique /\ Turns /\ Swapping /\ Written

-----------------------------------------------------------------------------
(* The turns of a position. *)
LEMMA TurnOrder ==
  ASSUME NEW p \in Nat
  PROVE  /\ expectedTurn("enqueue", p) \in Nat /\ expectedTurn("dequeue", p) \in Nat
         /\ expectedTurn("dequeue", p) = expectedTurn("enqueue", p) + 1
         /\ expectedTurn("enqueue", p + Capacity) = expectedTurn("dequeue", p) + 1
<1>1. Round(p) \in Nat /\ Round(p + Capacity) = Round(p) + 1
  BY Division, NextRound
<1>2. 2 * (Round(p) + 1) = 2 * Round(p) + 2
  BY <1>1
<1> QED BY <1>1, <1>2 DEF expectedTurn

(* An Enqueue and a Dequeue never wait for the same turn. *)
LEMMA TurnParity ==
  ASSUME NEW p \in Nat, NEW q \in Nat
  PROVE  expectedTurn("enqueue", p) # expectedTurn("dequeue", q)
<1>1. Round(p) \in Nat /\ Round(q) \in Nat
  BY Division
<1> QED BY <1>1 DEF expectedTurn

-----------------------------------------------------------------------------
(* A slot has one thread inside: the data races the invariant excludes.      *)
LEMMA InsideApart ==
  ASSUME IInv, NEW t \in Threads, NEW u \in Threads, t # u,
         pc[t] \in Inside, pc[u] \in Inside
  PROVE  idx(pos[t]) # idx(pos[u])
<1>1. /\ pos[t] \in Nat /\ pos[u] \in Nat /\ head \in Nat /\ tail \in Nat
      /\ op[t] \in Ops /\ op[u] \in Ops
  BY DEF IInv, TypeOK, Ops, head, tail
<1>2. CASE op[t] # op[u]
  <2>1. expectedTurn(op[t], pos[t]) # expectedTurn(op[u], pos[u])
    BY <1>1, <1>2, TurnParity DEF Ops
  <2> QED BY <2>1 DEF IInv, Holders
<1>3. CASE op[t] = op[u]
  <2>1. pos[t] # pos[u]
    BY <1>3 DEF IInv, Unique
  <2>2. pos[t] < pos[u] + Capacity /\ pos[u] < pos[t] + Capacity
    <3>1. CASE op[t] = "enqueue"
      BY <3>1, <1>3, <1>1, QueueAssumption DEF IInv, Holders, Window
    <3>2. CASE op[t] = "dequeue"
      BY <3>2, <1>3, <1>1, QueueAssumption DEF IInv, Holders, Window
    <3> QED BY <3>1, <3>2, <1>1 DEF Ops
  <2>3. pos[t] < pos[u] \/ pos[u] < pos[t]
    BY <2>1, <1>1
  <2> QED BY <2>2, <2>3, <1>1, SlotsDiffer
<1> QED BY <1>2, <1>3

(* A position between tail and head whose turn is the Dequeue's is in no     *)
(* Enqueue's hands.                                                          *)
LEMMA PublishedIsFree ==
  ASSUME IInv, NEW p \in Nat, turn[idx(p)] = expectedTurn("dequeue", p),
         NEW t \in Threads
  PROVE  ~ Holds(t, "enqueue", p)
<1>1. SUFFICES ASSUME Holds(t, "enqueue", p) PROVE FALSE
  OBVIOUS
<1>2. pc[t] \in Inside /\ op[t] = "enqueue" /\ pos[t] = p
  BY <1>1 DEF Holds, Inside
<1>3. turn[idx(p)] = expectedTurn("enqueue", p)
  BY <1>2 DEF IInv, Holders
<1> QED BY <1>3, TurnParity

(* A thread that sees its turn at the head finds room; at the tail, an item. *)
LEMMA RoomForEnqueue ==
  ASSUME IInv, turn[idx(head)] = expectedTurn("enqueue", head)
  PROVE  head < tail + Capacity
<1>1. head \in Nat /\ tail \in Nat /\ Capacity \in Nat /\ Capacity > 0
  BY QueueAssumption DEF IInv, TypeOK, Ops, head, tail
<1>2. SUFFICES ASSUME head = tail + Capacity PROVE FALSE
  BY <1>1 DEF IInv, Window
<1>3. idx(head) = idx(tail)
  BY <1>1, <1>2, NextRound
<1>4. tail <= tail /\ tail < head
  BY <1>1, <1>2
<1>5. CASE turn[idx(tail)] = expectedTurn("dequeue", tail)
  BY <1>5, <1>3, <1>1, TurnParity
<1>6. CASE \E t \in Threads : Holds(t, "enqueue", tail)
  <2>1. turn[idx(tail)] = expectedTurn("enqueue", tail)
    BY <1>6 DEF Holds, IInv, Holders, Inside
  <2>2. expectedTurn("enqueue", head) = expectedTurn("enqueue", tail) + 2
    BY <1>1, <1>2, TurnOrder
  <2> QED BY <2>1, <2>2, <1>3, <1>1, TurnOrder
<1> QED BY <1>1, <1>4, <1>5, <1>6 DEF IInv, Turns

LEMMA ItemForDequeue ==
  ASSUME IInv, turn[idx(tail)] = expectedTurn("dequeue", tail)
  PROVE  tail < head
<1>1. head \in Nat /\ tail \in Nat /\ Capacity \in Nat /\ Capacity > 0
  BY QueueAssumption DEF IInv, TypeOK, Ops, head, tail
<1>2. SUFFICES ASSUME head = tail PROVE FALSE
  BY <1>1 DEF IInv, Window
<1>3. head <= tail /\ tail < tail + Capacity
  BY <1>1, <1>2
<1>4. CASE turn[idx(tail)] = expectedTurn("enqueue", tail)
  BY <1>4, <1>1, TurnParity
<1>5. CASE \E t \in Threads : Holds(t, "dequeue", tail - Capacity)
  <2>1. PICK t \in Threads : Holds(t, "dequeue", tail - Capacity)
    BY <1>5
  <2>2. /\ pos[t] \in Nat /\ pos[t] = tail - Capacity
        /\ turn[idx(pos[t])] = expectedTurn("dequeue", pos[t])
    BY <2>1 DEF Holds, IInv, Holders, Inside, TypeOK
  <2>3. tail = pos[t] + Capacity
    BY <2>2, <1>1
  <2>4. idx(tail) = idx(pos[t]) /\ expectedTurn("dequeue", tail) = expectedTurn("dequeue", pos[t]) + 2
    BY <2>2, <2>3, <1>1, NextRound, TurnOrder
  <2> QED BY <2>2, <2>4, <1>1, TurnOrder
<1> QED BY <1>1, <1>3, <1>4, <1>5 DEF IInv, Turns

-----------------------------------------------------------------------------
(* A step that moves no cursor and no turn, and lets nobody into or out of a *)
(* slot.                                                                     *)
LEMMA QuietStep ==
  ASSUME IInv, UNCHANGED <<cursor, turn>>,
         \A u \in Threads : (pc'[u] \in Inside) <=> (pc[u] \in Inside),
         \A u \in Threads : pc[u] \in Inside => op'[u] = op[u] /\ pos'[u] = pos[u]
  PROVE  Window' /\ Holders' /\ Unique' /\ Turns'
<1>1. head' = head /\ tail' = tail /\ turn' = turn
  BY DEF head, tail
<1>2. Window'
  BY <1>1 DEF IInv, Window
<1>3. Holders'
  BY <1>1 DEF IInv, Holders
<1>4. Unique'
  BY DEF IInv, Unique
<1>5. \A u \in Threads, o \in Ops : \A p : Holds(u, o, p)' <=> Holds(u, o, p)
  BY DEF Holds, Inside
<1>6. Turns'
  BY <1>1, <1>5 DEF IInv, Turns, Ops
<1> QED BY <1>2, <1>3, <1>4, <1>6

(* The steps outside the slots. *)
LEMMA OutsideStep ==
  ASSUME IInv, NEW t \in Threads, Call(t) \/ Load(t) \/ Look(t) \/ Again(t)
  PROVE  IInv'
<1>1. TypeOK'
  <2>1. CASE Call(t)
    BY <2>1 DEF IInv, TypeOK, Call, Goto, PCs, Ops
  <2>2. CASE Load(t)
    <3>1. cursor[op[t]] \in Nat
      BY DEF IInv, TypeOK
    <3> QED BY <2>2, <3>1 DEF IInv, TypeOK, Load, Goto, PCs
  <2>3. CASE Look(t)
    BY <2>3 DEF IInv, TypeOK, Look, Goto, PCs
  <2>4. CASE Again(t)
    BY <2>4 DEF IInv, TypeOK, Again, Goto, PCs
  <2> QED BY <2>1, <2>2, <2>3, <2>4
<1>2. Local'
  <2>1. CASE Call(t)
    BY <2>1 DEF IInv, TypeOK, Local, Call, Goto, Ops
  <2>2. CASE Load(t)
    <3>1. cursor[op[t]] <= cursor[op[t]]
      BY DEF IInv, TypeOK
    <3> QED BY <2>2, <3>1 DEF IInv, TypeOK, Local, Load, Goto
  <2>3. CASE Look(t)
    BY <2>3 DEF IInv, TypeOK, Local, Look, Goto
  <2>4. CASE Again(t)
    BY <2>4 DEF IInv, TypeOK, Local, Again, Goto
  <2> QED BY <2>1, <2>2, <2>3, <2>4
<1>3. /\ UNCHANGED <<cursor, turn, data>>
      /\ pc[t] \notin Inside /\ pc'[t] \notin Inside
      /\ \A u \in Threads \ {t} :
           pc'[u] = pc[u] /\ op'[u] = op[u] /\ pos'[u] = pos[u] /\ item'[u] = item[u]
  BY DEF Call, Load, Look, Again, Goto, Inside, IInv, TypeOK
<1>4. Window' /\ Holders' /\ Unique' /\ Turns'
  <2>1. \A u \in Threads : (pc'[u] \in Inside) <=> (pc[u] \in Inside)
    BY <1>3
  <2>2. \A u \in Threads : pc[u] \in Inside => op'[u] = op[u] /\ pos'[u] = pos[u]
    BY <1>3
  <2> QED BY <1>3, <2>1, <2>2, QuietStep
<1>5. Swapping'
  <2>1. SUFFICES ASSUME NEW u \in Threads, pc'[u] = "swap", cursor'[op'[u]] = pos'[u]
                 PROVE  IsMyTurn(u)'
    BY DEF Swapping
  <2>2. CASE u = t
    BY <2>1, <2>2 DEF Call, Load, Look, Again, Goto, IInv, TypeOK, IsMyTurn
  <2>3. CASE u # t
    BY <2>1, <2>3, <1>3 DEF IInv, Swapping, IsMyTurn
  <2> QED BY <2>2, <2>3
<1>6. Written'
  BY <1>3 DEF IInv, Written, Inside
<1> QED BY <1>1, <1>2, <1>4, <1>5, <1>6 DEF IInv

(* The steps inside a slot that pass nothing on. *)
LEMMA InsideStep ==
  ASSUME IInv, NEW t \in Threads, Write(t) \/ Read(t) \/ Clear(t)
  PROVE  IInv'
<1>1. pos[t] \in Nat /\ idx(pos[t]) \in Slots /\ pc[t] \in Inside
  BY Division DEF IInv, TypeOK, Write, Read, Clear, Inside
<1>2. TypeOK'
  <2>1. CASE Write(t)
    BY <2>1, <1>1 DEF IInv, TypeOK, Local, Write, Goto, PCs
  <2>2. CASE Read(t)
    BY <2>2, <1>1 DEF IInv, TypeOK, Read, Goto, PCs
  <2>3. CASE Clear(t)
    BY <2>3, <1>1 DEF IInv, TypeOK, Clear, Goto, PCs
  <2> QED BY <2>1, <2>2, <2>3
<1>3. Local'
  <2>1. CASE Write(t)
    BY <2>1 DEF IInv, TypeOK, Local, Write, Goto
  <2>2. CASE Read(t)
    <3>1. data[idx(pos[t])] # None
      BY <1>1, QueueAssumption DEF IInv, TypeOK
    <3> QED BY <2>2, <3>1 DEF IInv, TypeOK, Local, Read, Goto
  <2>3. CASE Clear(t)
    BY <2>3 DEF IInv, TypeOK, Local, Clear, Goto
  <2> QED BY <2>1, <2>2, <2>3
<1>4. /\ UNCHANGED <<cursor, turn, op, pos>>
      /\ pc'[t] \in Inside
      /\ \A u \in Threads \ {t} : pc'[u] = pc[u] /\ item'[u] = item[u]
      /\ \A i \in Slots : i # idx(pos[t]) => data'[i] = data[i]
  BY <1>1 DEF Write, Read, Clear, Goto, Inside, IInv, TypeOK
<1>5. Window' /\ Holders' /\ Unique' /\ Turns'
  <2>1. \A u \in Threads : (pc'[u] \in Inside) <=> (pc[u] \in Inside)
    BY <1>1, <1>4
  <2> QED BY <1>4, <2>1, QuietStep
<1>6. Swapping'
  BY <1>4 DEF IInv, Swapping, IsMyTurn, Inside
<1>7. Written'
  <2>1. SUFFICES ASSUME NEW u \in Threads, pc'[u] = "publish", op'[u] = "enqueue"
                 PROVE  data'[idx(pos[u])] = item'[u]
    BY <1>4 DEF Written
  <2>2. CASE u = t
    BY <2>1, <2>2, <1>1 DEF Write, Read, Clear, Goto, IInv, TypeOK, Local
  <2>3. CASE u # t
    <3>1. pc[u] = "publish" /\ op[u] = "enqueue" /\ pc[u] \in Inside
      BY <2>1, <2>3, <1>4 DEF Inside
    <3>2. idx(pos[u]) # idx(pos[t]) /\ idx(pos[u]) \in Slots
      BY <3>1, <2>3, <1>1, InsideApart, Division DEF IInv, TypeOK
    <3>3. data[idx(pos[u])] = item[u]
      BY <3>1 DEF IInv, Written
    <3> QED BY <3>2, <3>3, <2>3, <1>4
  <2> QED BY <2>2, <2>3
<1> QED BY <1>2, <1>3, <1>5, <1>6, <1>7 DEF IInv

-----------------------------------------------------------------------------
(* The compare-and-swap. *)

LEMMA SwapFails ==
  ASSUME IInv, NEW t \in Threads, Swap(t), ~ Swaps(t)
  PROVE  IInv'
<1>1. /\ UNCHANGED <<cursor, turn, data, op, pos, item, calls>>
      /\ pc[t] = "swap" /\ pc' = [pc EXCEPT ![t] = "load"]
  BY DEF Swap, Goto
<1>2. TypeOK' /\ Local'
  BY <1>1 DEF IInv, TypeOK, Local, PCs
<1>3. Window' /\ Holders' /\ Unique' /\ Turns'
  <2>1. \A u \in Threads : (pc'[u] \in Inside) <=> (pc[u] \in Inside)
    BY <1>1 DEF Inside, IInv, TypeOK
  <2> QED BY <1>1, <2>1, QuietStep
<1>4. Swapping' /\ Written'
  BY <1>1 DEF IInv, TypeOK, Swapping, Written, IsMyTurn
<1> QED BY <1>2, <1>3, <1>4 DEF IInv

LEMMA SwapEnqueue ==
  ASSUME IInv, NEW t \in Threads, Swap(t), Swaps(t), op[t] = "enqueue"
  PROVE  IInv'
<1>1. /\ UNCHANGED <<turn, data, op, pos, item, calls>>
      /\ pc[t] = "swap" /\ pc' = [pc EXCEPT ![t] = "write"]
      /\ pos[t] = head /\ head' = head + 1 /\ tail' = tail
      /\ cursor' = [cursor EXCEPT !["enqueue"] = pos[t] + 1]
  BY DEF Swap, Swaps, Goto, head, tail, IInv, TypeOK, Ops
<1>2. head \in Nat /\ tail \in Nat /\ Capacity \in Nat /\ tail <= head
  BY QueueAssumption DEF IInv, TypeOK, Ops, head, tail, Window
<1>3. turn[idx(head)] = expectedTurn("enqueue", head)
  BY <1>1 DEF IInv, Swapping, IsMyTurn, head
<1>4. head < tail + Capacity
  BY <1>3, RoomForEnqueue
<1>5. TypeOK'
  <2>1. cursor' \in [Ops -> Nat]
    BY <1>1, <1>2 DEF IInv, TypeOK, Ops
  <2> QED BY <1>1, <2>1 DEF IInv, TypeOK, PCs
<1>6. Local'
  <2>1. \A o \in Ops : cursor[o] \in Nat /\ cursor'[o] \in Nat /\ cursor[o] <= cursor'[o]
    BY <1>1, <1>2 DEF IInv, TypeOK, Ops, head
  <2>2. \A u \in Threads : pos[u] \in Nat /\ op[u] \in Ops
    BY DEF IInv, TypeOK
  <2>3. \A u \in Threads : pos[u] <= cursor[op[u]] => pos[u] <= cursor'[op[u]]
    BY <2>1, <2>2
  <2> QED BY <1>1, <2>3 DEF IInv, TypeOK, Local
<1>7. Window'
  BY <1>1, <1>2, <1>4 DEF Window
<1>8. Holders'
  <2>1. SUFFICES ASSUME NEW u \in Threads, pc'[u] \in Inside
                 PROVE  /\ turn[idx(pos[u])] = expectedTurn(op[u], pos[u])
                        /\ op[u] = "enqueue" => tail <= pos[u] /\ pos[u] < head + 1
                        /\ op[u] = "dequeue" => head + 1 <= pos[u] + Capacity /\ pos[u] < tail
    BY <1>1 DEF Holders
  <2>2. CASE u = t
    BY <2>2, <1>1, <1>2, <1>3
  <2>3. CASE u # t
    <3>1. pc[u] \in Inside /\ pos[u] \in Nat
      BY <2>1, <2>3, <1>1 DEF IInv, TypeOK
    <3>2. /\ turn[idx(pos[u])] = expectedTurn(op[u], pos[u])
          /\ op[u] = "enqueue" => tail <= pos[u] /\ pos[u] < head
          /\ op[u] = "dequeue" => head <= pos[u] + Capacity /\ pos[u] < tail
      BY <3>1 DEF IInv, Holders
    <3>3. ASSUME op[u] = "dequeue", head = pos[u] + Capacity PROVE FALSE
      <4>1. idx(head) = idx(pos[u])
        BY <3>1, <3>3, NextRound
      <4> QED BY <4>1, <3>1, <3>2, <3>3, <1>2, <1>3, TurnParity
    <3> QED BY <3>1, <3>2, <3>3, <1>2
  <2> QED BY <2>2, <2>3
<1>9. Unique'
  <2>1. SUFFICES ASSUME NEW u \in Threads, u # t, pc[u] \in Inside, op[u] = "enqueue"
                 PROVE  pos[u] # pos[t]
    BY <1>1 DEF IInv, TypeOK, Unique
  <2>2. pos[u] < head /\ pos[u] \in Nat
    BY <2>1 DEF IInv, Holders, TypeOK
  <2> QED BY <2>2, <1>1, <1>2
<1>10. Turns'
  <2>1. \A p : p = head => Holds(t, "enqueue", p)'
    BY <1>1 DEF Holds, IInv, TypeOK
  <2>2. \A u \in Threads, o \in Ops : \A p : Holds(u, o, p) => Holds(u, o, p)'
    BY <1>1 DEF Holds, IInv, TypeOK
  <2>3. ASSUME NEW p \in Nat, tail <= p, p < head + 1
        PROVE  \/ turn[idx(p)] = expectedTurn("dequeue", p)
               \/ \E u \in Threads : Holds(u, "enqueue", p)'
    <3>1. CASE p = head
      BY <3>1, <2>1
    <3>2. CASE p < head
      BY <3>2, <2>2, <2>3 DEF IInv, Turns, Ops
    <3> QED BY <3>1, <3>2, <2>3, <1>2
  <2>4. ASSUME NEW p \in Nat, head + 1 <= p, p < tail + Capacity
        PROVE  \/ turn[idx(p)] = expectedTurn("enqueue", p)
               \/ \E u \in Threads : Holds(u, "dequeue", p - Capacity)'
    <3>1. head <= p
      BY <2>4, <1>2
    <3> QED BY <3>1, <2>2, <2>4 DEF IInv, Turns, Ops
  <2> QED BY <2>3, <2>4, <1>1 DEF Turns
<1>11. Swapping'
  <2>1. SUFFICES ASSUME NEW u \in Threads, pc'[u] = "swap", cursor'[op[u]] = pos[u]
                 PROVE  IsMyTurn(u)'
    BY <1>1 DEF Swapping
  <2>2. u # t /\ pc[u] = "swap" /\ pos[u] \in Nat /\ op[u] \in Ops
    BY <2>1, <1>1 DEF IInv, TypeOK
  <2>3. pos[u] <= cursor[op[u]]
    BY <2>2 DEF IInv, Local
  <2>4. op[u] # "enqueue"
    BY <2>1, <2>2, <2>3, <1>1, <1>2 DEF head, IInv, TypeOK, Ops
  <2>5. cursor[op[u]] = pos[u]
    BY <2>1, <2>2, <2>4, <1>1 DEF IInv, TypeOK, Ops
  <2> QED BY <2>2, <2>5, <1>1 DEF IInv, Swapping, IsMyTurn
<1>12. Written'
  BY <1>1 DEF IInv, TypeOK, Written
<1> QED BY <1>5, <1>6, <1>7, <1>8, <1>9, <1>10, <1>11, <1>12 DEF IInv

LEMMA SwapDequeue ==
  ASSUME IInv, NEW t \in Threads, Swap(t), Swaps(t), op[t] = "dequeue"
  PROVE  IInv'
<1>1. /\ UNCHANGED <<turn, data, op, pos, item, calls>>
      /\ pc[t] = "swap" /\ pc' = [pc EXCEPT ![t] = "read"]
      /\ pos[t] = tail /\ tail' = tail + 1 /\ head' = head
      /\ cursor' = [cursor EXCEPT !["dequeue"] = pos[t] + 1]
  BY DEF Swap, Swaps, Goto, head, tail, IInv, TypeOK, Ops
<1>2. head \in Nat /\ tail \in Nat /\ Capacity \in Nat /\ head <= tail + Capacity
  BY QueueAssumption DEF IInv, TypeOK, Ops, head, tail, Window
<1>3. turn[idx(tail)] = expectedTurn("dequeue", tail)
  BY <1>1 DEF IInv, Swapping, IsMyTurn, tail
<1>4. tail < head
  BY <1>3, ItemForDequeue
<1>5. TypeOK'
  <2>1. cursor' \in [Ops -> Nat]
    BY <1>1, <1>2 DEF IInv, TypeOK, Ops
  <2> QED BY <1>1, <2>1 DEF IInv, TypeOK, PCs
<1>6. Local'
  <2>1. \A o \in Ops : cursor[o] \in Nat /\ cursor'[o] \in Nat /\ cursor[o] <= cursor'[o]
    BY <1>1, <1>2 DEF IInv, TypeOK, Ops, tail
  <2>2. \A u \in Threads : pos[u] \in Nat /\ op[u] \in Ops
    BY DEF IInv, TypeOK
  <2>3. \A u \in Threads : pos[u] <= cursor[op[u]] => pos[u] <= cursor'[op[u]]
    BY <2>1, <2>2
  <2> QED BY <1>1, <2>3 DEF IInv, TypeOK, Local
<1>7. Window'
  BY <1>1, <1>2, <1>4 DEF Window
<1>8. Holders'
  <2>1. SUFFICES ASSUME NEW u \in Threads, pc'[u] \in Inside
                 PROVE  /\ turn[idx(pos[u])] = expectedTurn(op[u], pos[u])
                        /\ op[u] = "enqueue" => tail + 1 <= pos[u] /\ pos[u] < head
                        /\ op[u] = "dequeue" => head <= pos[u] + Capacity /\ pos[u] < tail + 1
    BY <1>1 DEF Holders
  <2>2. CASE u = t
    BY <2>2, <1>1, <1>2, <1>3
  <2>3. CASE u # t
    <3>1. pc[u] \in Inside /\ pos[u] \in Nat
      BY <2>1, <2>3, <1>1 DEF IInv, TypeOK
    <3>2. /\ turn[idx(pos[u])] = expectedTurn(op[u], pos[u])
          /\ op[u] = "enqueue" => tail <= pos[u] /\ pos[u] < head
          /\ op[u] = "dequeue" => head <= pos[u] + Capacity /\ pos[u] < tail
      BY <3>1 DEF IInv, Holders
    <3>3. ASSUME op[u] = "enqueue", pos[u] = tail PROVE FALSE
      BY <3>1, <3>2, <3>3, <1>2, <1>3, TurnParity
    <3> QED BY <3>1, <3>2, <3>3, <1>2
  <2> QED BY <2>2, <2>3
<1>9. Unique'
  <2>1. SUFFICES ASSUME NEW u \in Threads, u # t, pc[u] \in Inside, op[u] = "dequeue"
                 PROVE  pos[u] # pos[t]
    BY <1>1 DEF IInv, TypeOK, Unique
  <2>2. pos[u] < tail /\ pos[u] \in Nat
    BY <2>1 DEF IInv, Holders, TypeOK
  <2> QED BY <2>2, <1>1, <1>2
<1>10. Turns'
  <2>1. \A p : p = tail => Holds(t, "dequeue", p)'
    BY <1>1 DEF Holds, IInv, TypeOK
  <2>2. \A u \in Threads, o \in Ops : \A p : Holds(u, o, p) => Holds(u, o, p)'
    BY <1>1 DEF Holds, IInv, TypeOK
  <2>3. ASSUME NEW p \in Nat, tail + 1 <= p, p < head
        PROVE  \/ turn[idx(p)] = expectedTurn("dequeue", p)
               \/ \E u \in Threads : Holds(u, "enqueue", p)'
    <3>1. tail <= p
      BY <2>3, <1>2
    <3> QED BY <3>1, <2>2, <2>3 DEF IInv, Turns, Ops
  <2>4. ASSUME NEW p \in Nat, head <= p, p < tail + 1 + Capacity
        PROVE  \/ turn[idx(p)] = expectedTurn("enqueue", p)
               \/ \E u \in Threads : Holds(u, "dequeue", p - Capacity)'
    <3>1. CASE p = tail + Capacity
      <4>1. p - Capacity = tail
        BY <3>1, <1>2
      <4> QED BY <4>1, <2>1
    <3>2. CASE p < tail + Capacity
      BY <3>2, <2>2, <2>4 DEF IInv, Turns, Ops
    <3> QED BY <3>1, <3>2, <2>4, <1>2
  <2> QED BY <2>3, <2>4, <1>1 DEF Turns
<1>11. Swapping'
  <2>1. SUFFICES ASSUME NEW u \in Threads, pc'[u] = "swap", cursor'[op[u]] = pos[u]
                 PROVE  IsMyTurn(u)'
    BY <1>1 DEF Swapping
  <2>2. u # t /\ pc[u] = "swap" /\ pos[u] \in Nat /\ op[u] \in Ops
    BY <2>1, <1>1 DEF IInv, TypeOK
  <2>3. pos[u] <= cursor[op[u]]
    BY <2>2 DEF IInv, Local
  <2>4. op[u] # "dequeue"
    BY <2>1, <2>2, <2>3, <1>1, <1>2 DEF tail, IInv, TypeOK, Ops
  <2>5. cursor[op[u]] = pos[u]
    BY <2>1, <2>2, <2>4, <1>1 DEF IInv, TypeOK, Ops
  <2> QED BY <2>2, <2>5, <1>1 DEF IInv, Swapping, IsMyTurn
<1>12. Written'
  BY <1>1 DEF IInv, TypeOK, Written
<1> QED BY <1>5, <1>6, <1>7, <1>8, <1>9, <1>10, <1>11, <1>12 DEF IInv

-----------------------------------------------------------------------------
(* The slot is passed on. *)

(* Who is in a slot of the window has the position of that slot. *)
LEMMA PositionOfSlot ==
  ASSUME IInv, NEW t \in Threads, pc[t] \in Inside, NEW p \in Nat,
         tail <= p, p < tail + Capacity, idx(p) = idx(pos[t])
  PROVE  p = (IF op[t] = "enqueue" THEN pos[t] ELSE pos[t] + Capacity)
<1>1. /\ pos[t] \in Nat /\ head \in Nat /\ tail \in Nat /\ Capacity \in Nat
      /\ tail <= head /\ head <= tail + Capacity /\ op[t] \in Ops
  BY QueueAssumption DEF IInv, TypeOK, Ops, head, tail, Window
<1>2. CASE op[t] = "enqueue"
  <2>1. tail <= pos[t] /\ pos[t] < head
    BY <1>2 DEF IInv, Holders
  <2>2. p < pos[t] + Capacity /\ pos[t] < p + Capacity
    BY <1>1, <2>1
  <2>3. ~ (p < pos[t]) /\ ~ (pos[t] < p)
    BY <1>1, <2>2, SlotsDiffer
  <2> QED BY <1>1, <1>2, <2>3
<1>3. CASE op[t] = "dequeue"
  <2>1. head <= pos[t] + Capacity /\ pos[t] < tail
    BY <1>3 DEF IInv, Holders
  <2>2. pos[t] + Capacity \in Nat /\ idx(pos[t] + Capacity) = idx(p)
    BY <1>1, NextRound
  <2>3. p < pos[t] + Capacity + Capacity /\ pos[t] + Capacity < p + Capacity
    BY <1>1, <2>1
  <2>4. ~ (p < pos[t] + Capacity) /\ ~ (pos[t] + Capacity < p)
    BY <1>1, <2>2, <2>3, SlotsDiffer
  <2> QED BY <1>1, <1>3, <2>2, <2>4
<1> QED BY <1>1, <1>2, <1>3 DEF Ops

LEMMA PublishStep ==
  ASSUME IInv, NEW t \in Threads, Publish(t)
  PROVE  IInv'
<1>1. /\ UNCHANGED <<cursor, data, op, pos, calls>>
      /\ pc[t] = "publish" /\ pc' = [pc EXCEPT ![t] = "idle"]
      /\ turn' = [turn EXCEPT ![idx(pos[t])] = nextTurn(op[t], pos[t])]
      /\ item' = [item EXCEPT ![t] = None]
      /\ head' = head /\ tail' = tail
  BY DEF Publish, Goto, head, tail
<1>2. /\ pos[t] \in Nat /\ idx(pos[t]) \in Slots /\ pc[t] \in Inside /\ op[t] \in Ops
      /\ head \in Nat /\ tail \in Nat /\ Capacity \in Nat
      /\ tail <= head /\ head <= tail + Capacity
  BY <1>1, Division, QueueAssumption DEF IInv, TypeOK, Inside, Ops, head, tail, Window
<1>3. /\ turn'[idx(pos[t])] = nextTurn(op[t], pos[t])
      /\ \A i \in Slots : i # idx(pos[t]) => turn'[i] = turn[i]
  BY <1>1, <1>2 DEF IInv, TypeOK
<1>4. /\ nextTurn(op[t], pos[t]) \in Nat
      /\ op[t] = "enqueue" => nextTurn(op[t], pos[t]) = expectedTurn("dequeue", pos[t])
      /\ op[t] = "dequeue" => nextTurn(op[t], pos[t]) = expectedTurn("enqueue", pos[t] + Capacity)
  BY <1>2, TurnOrder DEF nextTurn, Ops
<1>5. /\ turn[idx(pos[t])] = expectedTurn(op[t], pos[t])
      /\ op[t] = "enqueue" => tail <= pos[t] /\ pos[t] < head
      /\ op[t] = "dequeue" => head <= pos[t] + Capacity /\ pos[t] < tail
  BY <1>2 DEF IInv, Holders
<1>6. TypeOK' /\ Local' /\ Window'
  BY <1>1, <1>4 DEF IInv, TypeOK, Local, Window, PCs
<1>7. \A u \in Threads : pc'[u] \in Inside => u # t /\ pc[u] \in Inside
  BY <1>1 DEF IInv, TypeOK, Inside
<1>8. Holders'
  <2>1. SUFFICES ASSUME NEW u \in Threads, pc'[u] \in Inside
                 PROVE  /\ turn'[idx(pos[u])] = expectedTurn(op[u], pos[u])
                        /\ op[u] = "enqueue" => tail <= pos[u] /\ pos[u] < head
                        /\ op[u] = "dequeue" => head <= pos[u] + Capacity /\ pos[u] < tail
    BY <1>1 DEF Holders
  <2>2. u # t /\ pc[u] \in Inside
    BY <2>1, <1>7
  <2>3. idx(pos[u]) # idx(pos[t]) /\ idx(pos[u]) \in Slots
    BY <2>2, <1>2, InsideApart, Division DEF IInv, TypeOK
  <2> QED BY <2>2, <2>3, <1>3 DEF IInv, Holders
<1>9. Unique'
  BY <1>1, <1>7 DEF IInv, Unique
<1>10. Turns'
  <2>1. \A u \in Threads, o \in Ops : \A p :
          Holds(u, o, p) /\ u # t => Holds(u, o, p)'
    BY <1>1 DEF Holds, IInv, TypeOK
  <2>2. ASSUME NEW p \in Nat, tail <= p, p < head
        PROVE  \/ turn'[idx(p)] = expectedTurn("dequeue", p)
               \/ \E u \in Threads : Holds(u, "enqueue", p)'
    <3>1. idx(p) \in Slots /\ p < tail + Capacity
      BY <2>2, <1>2, Division
    <3>2. CASE idx(p) = idx(pos[t])
      <4>1. op[t] = "enqueue" /\ p = pos[t]
        BY <3>1, <3>2, <2>2, <1>2, <1>5, PositionOfSlot DEF Ops
      <4> QED BY <4>1, <1>3, <1>4
    <3>3. CASE idx(p) # idx(pos[t])
      <4>1. ~ Holds(t, "enqueue", p)
        BY <3>3 DEF Holds
      <4>2. turn'[idx(p)] = turn[idx(p)]
        BY <3>1, <3>3, <1>3
      <4> QED BY <4>1, <4>2, <2>1, <2>2 DEF IInv, Turns, Ops
    <3> QED BY <3>2, <3>3
  <2>3. ASSUME NEW p \in Nat, head <= p, p < tail + Capacity
        PROVE  \/ turn'[idx(p)] = expectedTurn("enqueue", p)
               \/ \E u \in Threads : Holds(u, "dequeue", p - Capacity)'
    <3>1. idx(p) \in Slots /\ tail <= p
      BY <2>3, <1>2, Division
    <3>2. CASE idx(p) = idx(pos[t])
      <4>1. op[t] = "dequeue" /\ p = pos[t] + Capacity
        BY <3>1, <3>2, <2>3, <1>2, <1>5, PositionOfSlot DEF Ops
      <4> QED BY <3>2, <4>1, <1>3, <1>4
    <3>3. CASE idx(p) # idx(pos[t])
      <4>1. ~ Holds(t, "dequeue", p - Capacity)
        <5>1. SUFFICES ASSUME pos[t] = p - Capacity PROVE FALSE
          BY DEF Holds
        <5>2. p = pos[t] + Capacity
          BY <5>1, <1>2
        <5> QED BY <5>2, <3>3, <1>2, NextRound
      <4>2. turn'[idx(p)] = turn[idx(p)]
        BY <3>1, <3>3, <1>3
      <4> QED BY <4>1, <4>2, <2>1, <2>3 DEF IInv, Turns, Ops
    <3> QED BY <3>2, <3>3
  <2> QED BY <2>2, <2>3, <1>1 DEF Turns
<1>11. Swapping'
  <2>1. SUFFICES ASSUME NEW u \in Threads, pc'[u] = "swap", cursor[op[u]] = pos[u]
                 PROVE  turn'[idx(pos[u])] = expectedTurn(op[u], pos[u])
    BY <1>1 DEF Swapping, IsMyTurn
  <2>2. u # t /\ pc[u] = "swap" /\ pos[u] \in Nat /\ op[u] \in Ops /\ idx(pos[u]) \in Slots
    BY <2>1, <1>1, Division DEF IInv, TypeOK
  <2>3. turn[idx(pos[u])] = expectedTurn(op[u], pos[u])
    BY <2>1, <2>2 DEF IInv, Swapping, IsMyTurn
  <2>4. CASE idx(pos[u]) # idx(pos[t])
    BY <2>2, <2>3, <2>4, <1>3
  <2>5. CASE idx(pos[u]) = idx(pos[t])
    <3>1. expectedTurn(op[u], pos[u]) = expectedTurn(op[t], pos[t])
      BY <2>3, <2>5, <1>5
    <3>2. op[u] = op[t]
      BY <3>1, <2>2, <1>2, TurnParity DEF Ops
    <3>3. CASE op[u] = "enqueue"
      <4>1. pos[u] = head
        BY <2>1, <3>3 DEF head
      <4>2. head < tail + Capacity
        BY <4>1, <2>3, <3>3, RoomForEnqueue
      <4>3. head = pos[t]
        BY <4>1, <4>2, <2>5, <3>2, <3>3, <1>2, PositionOfSlot
      <4> QED BY <4>3, <3>2, <3>3, <1>2, <1>5
    <3>4. CASE op[u] = "dequeue"
      <4>1. pos[u] = tail
        BY <2>1, <3>4 DEF tail
      <4>2. tail < head
        BY <4>1, <2>3, <3>4, ItemForDequeue
      <4>3. tail <= tail /\ tail < tail + Capacity /\ idx(tail) = idx(pos[t])
        BY <4>1, <4>2, <2>5, <1>2
      <4>4. tail = pos[t] + Capacity
        BY <4>3, <3>2, <3>4, <1>2, PositionOfSlot
      <4> QED BY <4>2, <4>4, <3>2, <3>4, <1>2, <1>5
    <3> QED BY <3>3, <3>4, <2>2 DEF Ops
  <2> QED BY <2>4, <2>5
<1>12. Written'
  BY <1>1 DEF IInv, TypeOK, Written
<1> QED BY <1>6, <1>8, <1>9, <1>10, <1>11, <1>12 DEF IInv

-----------------------------------------------------------------------------
(* The invariant holds. *)

LEMMA InitInvariant == Init => IInv
<1> SUFFICES ASSUME Init PROVE IInv
  OBVIOUS
<1>1. head = 0 /\ tail = 0 /\ Capacity \in Nat
  BY QueueAssumption DEF Init, Ops, head, tail
<1>2. TypeOK
  BY DEF Init, TypeOK, PCs, Ops
<1>3. Local /\ Holders /\ Unique /\ Swapping /\ Written
  BY DEF Init, Local, Holders, Unique, Swapping, Written, Inside
<1>4. Window
  BY <1>1 DEF Window
<1>5. Turns
  <2>1. ASSUME NEW p \in Nat, p < Capacity
        PROVE  turn[idx(p)] = expectedTurn("enqueue", p)
    <3>1. idx(p) \in Slots /\ Round(p) \in Nat /\ p = Capacity * Round(p) + idx(p)
      BY Division
    <3>2. p \in Slots /\ Round(p) \in Int
      BY <3>1, <2>1, <1>1 DEF Slots
    <3>3. ASSUME NEW z \in Int, z = 0 PROVE z = Round(p)
      <4>1. Capacity * z + p = Capacity * Round(p) + idx(p)
        BY <3>1, <3>3, <1>1 DEF Slots
      <4> QED BY <4>1, <3>1, <3>2, DivisionUnique
    <3>4. Round(p) = 0
      BY <3>3
    <3> QED BY <3>1, <3>4 DEF Init, expectedTurn
  <2> QED BY <2>1, <1>1 DEF Turns
<1> QED BY <1>2, <1>3, <1>4, <1>5 DEF IInv

LEMMA StepInvariant == IInv /\ [Next]_vars => IInv'
<1> SUFFICES ASSUME IInv, [Next]_vars PROVE IInv'
  OBVIOUS
<1>1. ASSUME NEW t \in Threads, Call(t) \/ Step(t) PROVE IInv'
  <2>1. CASE Call(t) \/ Load(t) \/ Look(t) \/ Again(t)
    BY <2>1, OutsideStep
  <2>2. CASE Write(t) \/ Read(t) \/ Clear(t)
    BY <2>2, InsideStep
  <2>3. CASE Swap(t)
    BY <2>3, SwapFails, SwapEnqueue, SwapDequeue DEF IInv, TypeOK, Ops
  <2>4. CASE Publish(t)
    BY <2>4, PublishStep
  <2> QED BY <1>1, <2>1, <2>2, <2>3, <2>4 DEF Step
<1>2. CASE UNCHANGED vars
  <2>1. UNCHANGED <<cursor, turn, data, pc, op, pos, item, calls>>
    BY <1>2 DEF vars
  <2>2. Window' /\ Holders' /\ Unique' /\ Turns'
    BY <2>1, QuietStep
  <2> QED BY <2>1, <2>2 DEF IInv, TypeOK, Local, Swapping, Written, IsMyTurn
<1> QED BY <1>1, <1>2 DEF Next

(* The invariant of the slots. *)
THEOREM Invariance == Spec => []IInv
  BY InitInvariant, StepInvariant, PTL DEF Spec

(* Calls, cursors, turns and slots keep their types. *)
THEOREM Typing == Spec => []TypeOK
<1>1. IInv => TypeOK
  BY DEF IInv
<1> QED BY <1>1, Invariance, PTL

(* No two threads are ever inside one slot: the accesses to its data, which  *)
(* no atomic operation guards, do not race.                                  *)
THEOREM NoDataRace == Spec => []SlotsNotShared
<1>1. IInv => SlotsNotShared
  BY InsideApart DEF SlotsNotShared, Holds, Inside
<1> QED BY <1>1, Invariance, PTL

(* A call is refused for a cause only: the queue is full or empty, or the    *)
(* call of the other side that owns the slot has not passed it on.           *)
THEOREM RefusalHasCause == Spec => []RefusedForCause
<1>1. ASSUME IInv PROVE RefusedForCause
  <2>1. /\ head \in Nat /\ tail \in Nat /\ Capacity \in Nat /\ Capacity > 0
        /\ tail <= head /\ head <= tail + Capacity
    BY <1>1, QueueAssumption DEF IInv, TypeOK, Ops, head, tail, Window
  <2>2. ASSUME turn[idx(head)] # expectedTurn("enqueue", head), head # tail + Capacity
        PROVE  \E t \in Threads : Holds(t, "dequeue", head - Capacity)
    <3>1. head <= head /\ head < tail + Capacity
      BY <2>1, <2>2
    <3> QED BY <3>1, <2>1, <2>2, <1>1 DEF IInv, Turns
  <2>3. ASSUME turn[idx(tail)] # expectedTurn("dequeue", tail), head # tail
        PROVE  \E t \in Threads : Holds(t, "enqueue", tail)
    <3>1. tail <= tail /\ tail < head
      BY <2>1, <2>3
    <3> QED BY <3>1, <2>1, <2>3, <1>1 DEF IInv, Turns
  <2> QED BY <2>2, <2>3 DEF RefusedForCause
<1> QED BY <1>1, Invariance, PTL

-----------------------------------------------------------------------------
(* The refinement. *)

(* A thread that brings an item to a claimed position carries it. *)
LEMMA ItemHeld ==
  IInv => \A t \in Threads, p \in Nat : Holds(t, "enqueue", p) => ItemAt(p) = item[t]
<1> SUFFICES ASSUME IInv, NEW t \in Threads, NEW p \in Nat, Holds(t, "enqueue", p)
             PROVE  ItemAt(p) = item[t]
  OBVIOUS
<1>1. \A u \in Threads : Holds(u, "enqueue", p) => u = t
  BY DEF IInv, Unique, Holds, Inside
<1>2. (CHOOSE u \in Threads : Holds(u, "enqueue", p)) = t
  BY <1>1
<1> QED BY <1>2 DEF ItemAt

LEMMA ItemHeldNext ==
  ASSUME IInv'
  PROVE  \A t \in Threads, p \in Nat : Holds(t, "enqueue", p)' => ItemAt(p)' = item'[t]
<1> SUFFICES ASSUME NEW t \in Threads, NEW p \in Nat, Holds(t, "enqueue", p)'
             PROVE  ItemAt(p)' = item'[t]
  OBVIOUS
<1>1. \A u \in Threads : Holds(u, "enqueue", p)' => u = t
  BY DEF IInv, Unique, Holds, Inside
<1>2. (CHOOSE u \in Threads : Holds(u, "enqueue", p)') = t
  BY <1>1
<1> QED BY <1>2 DEF ItemAt

(* A step that leaves a position alone leaves its item alone. *)
LEMMA SameItem ==
  ASSUME IInv, IInv', NEW p \in Nat,
         \A u \in Threads : Holds(u, "enqueue", p)' <=> Holds(u, "enqueue", p),
         \A u \in Threads : Holds(u, "enqueue", p) => item'[u] = item[u],
         (\A u \in Threads : ~ Holds(u, "enqueue", p)) => data'[idx(p)] = data[idx(p)]
  PROVE  ItemAt(p)' = ItemAt(p)
<1>1. CASE \E u \in Threads : Holds(u, "enqueue", p)
  BY <1>1, ItemHeld, ItemHeldNext
<1>2. CASE \A u \in Threads : ~ Holds(u, "enqueue", p)
  BY <1>2 DEF ItemAt
<1> QED BY <1>1, <1>2

queueBar == [i \in 1..(head - tail) |-> ItemAt(tail + i - 1)]
handBar == [t \in Threads |-> InHand(t)]

(* A step that moves no cursor and changes no item in the window and in the  *)
(* hands is a stuttering step of the promise.                                *)
LEMMA Stutters ==
  ASSUME IInv, UNCHANGED <<head, tail>>,
         \A p \in Nat : tail <= p /\ p < head => ItemAt(p)' = ItemAt(p),
         \A u \in Threads : InHand(u)' = InHand(u)
  PROVE  queueBar' = queueBar /\ handBar' = handBar
<1>1. head \in Nat /\ tail \in Nat
  BY DEF IInv, TypeOK, Ops, head, tail
<1>2. ASSUME NEW i \in 1..(head - tail) PROVE ItemAt(tail + i - 1)' = ItemAt(tail + i - 1)
  <2>1. tail + i - 1 \in Nat /\ tail <= tail + i - 1 /\ tail + i - 1 < head
    BY <1>1
  <2>2. ASSUME NEW p \in Nat, p = tail + i - 1 PROVE ItemAt(p)' = ItemAt(p)
    BY <2>1, <2>2
  <2> QED BY <2>1, <2>2
<1> QED BY <1>2 DEF queueBar, handBar

LEMMA OutsideStutters ==
  ASSUME IInv, IInv', NEW t \in Threads,
         Call(t) \/ Load(t) \/ Look(t) \/ Again(t) \/ (Swap(t) /\ ~ Swaps(t))
  PROVE  queueBar' = queueBar /\ handBar' = handBar
<1>1. /\ UNCHANGED <<cursor, turn, data>>
      /\ pc[t] \notin Inside /\ pc'[t] \notin Inside
      /\ \A u \in Threads \ {t} :
           pc'[u] = pc[u] /\ op'[u] = op[u] /\ pos'[u] = pos[u] /\ item'[u] = item[u]
  BY DEF Call, Load, Look, Again, Swap, Goto, Inside, IInv, TypeOK
<1>2. head' = head /\ tail' = tail
  BY <1>1 DEF head, tail
<1>3. ASSUME NEW p \in Nat PROVE ItemAt(p)' = ItemAt(p)
  <2>1. \A u \in Threads : Holds(u, "enqueue", p)' <=> Holds(u, "enqueue", p)
    BY <1>1 DEF Holds, Inside
  <2>2. \A u \in Threads : Holds(u, "enqueue", p) => item'[u] = item[u]
    BY <1>1 DEF Holds, Inside
  <2> QED BY <1>1, <2>1, <2>2, SameItem
<1>4. ASSUME NEW u \in Threads PROVE InHand(u)' = InHand(u)
  <2>1. CASE u # t
    BY <2>1, <1>1 DEF InHand
  <2>2. CASE u = t
    <3>1. InHand(t) = None
      BY DEF InHand, IInv, Local, TypeOK, Ops, Call, Load, Look, Again, Swap
    <3>2. pc'[t] \in {"idle", "load", "look", "swap", "again"}
      BY DEF Call, Load, Look, Again, Swap, Goto, IInv, TypeOK
    <3>3. op'[t] = "dequeue" => item'[t] = None /\ pc'[t] # "read"
      BY <3>2 DEF IInv, Local
    <3>4. InHand(t)' = None
      BY <3>3 DEF InHand
    <3> QED BY <2>2, <3>1, <3>4
  <2> QED BY <2>1, <2>2
<1> QED BY <1>2, <1>3, <1>4, Stutters

(* Write, Read and Clear touch one slot, and nobody else is in it. *)
LEMMA InsideStutters ==
  ASSUME IInv, IInv', NEW t \in Threads, Write(t) \/ Read(t) \/ Clear(t)
  PROVE  queueBar' = queueBar /\ handBar' = handBar
<1>1. pos[t] \in Nat /\ idx(pos[t]) \in Slots /\ pc[t] \in Inside
  BY Division DEF IInv, TypeOK, Write, Read, Clear, Inside
<1>2. /\ UNCHANGED <<cursor, turn, op, pos>>
      /\ pc'[t] \in Inside
      /\ \A u \in Threads \ {t} : pc'[u] = pc[u] /\ item'[u] = item[u]
      /\ \A i \in Slots : i # idx(pos[t]) => data'[i] = data[i]
      /\ op[t] = "enqueue" => item'[t] = item[t]
  BY <1>1 DEF Write, Read, Clear, Goto, Inside, IInv, TypeOK, Local
<1>3. head' = head /\ tail' = tail
  BY <1>2 DEF head, tail
<1>4. ASSUME NEW p \in Nat, tail <= p, p < head PROVE ItemAt(p)' = ItemAt(p)
  <2>1. \A u \in Threads : Holds(u, "enqueue", p)' <=> Holds(u, "enqueue", p)
    BY <1>1, <1>2 DEF Holds, Inside
  <2>2. \A u \in Threads : Holds(u, "enqueue", p) => item'[u] = item[u]
    BY <1>2 DEF Holds
  <2>3. ASSUME \A u \in Threads : ~ Holds(u, "enqueue", p)
        PROVE  data'[idx(p)] = data[idx(p)]
    <3>1. head \in Nat /\ tail \in Nat /\ Capacity \in Nat /\ head <= tail + Capacity
      BY QueueAssumption DEF IInv, TypeOK, Ops, head, tail, Window
    <3>2. idx(p) # idx(pos[t])
      <4>1. SUFFICES ASSUME idx(p) = idx(pos[t]) PROVE FALSE
        OBVIOUS
      <4>2. p = (IF op[t] = "enqueue" THEN pos[t] ELSE pos[t] + Capacity)
        BY <1>1, <1>4, <3>1, <4>1, PositionOfSlot
      <4>3. CASE op[t] = "enqueue"
        BY <2>3, <4>2, <4>3, <1>1 DEF Holds, Inside
      <4>4. CASE op[t] = "dequeue"
        <5>1. head <= pos[t] + Capacity
          BY <4>4, <1>1 DEF IInv, Holders
        <5> QED BY <5>1, <4>2, <4>4, <1>1, <1>4, <3>1
      <4> QED BY <4>3, <4>4 DEF IInv, TypeOK, Ops
    <3> QED BY <3>2, <1>2, Division
  <2> QED BY <2>1, <2>2, <2>3, SameItem
<1>5. ASSUME NEW u \in Threads PROVE InHand(u)' = InHand(u)
  <2>1. CASE u = t
    BY <2>1 DEF InHand, Write, Read, Clear, Goto, IInv, TypeOK, Local
  <2>2. CASE u # t /\ pc[u] = "read"
    <3>1. idx(pos[u]) # idx(pos[t]) /\ idx(pos[u]) \in Slots
      BY <2>2, <1>1, InsideApart, Division DEF Inside, IInv, TypeOK
    <3> QED BY <2>2, <3>1, <1>2 DEF InHand
  <2>3. CASE u # t /\ pc[u] # "read"
    BY <2>3, <1>2 DEF InHand
  <2> QED BY <2>1, <2>2, <2>3
<1> QED BY <1>3, <1>4, <1>5, Stutters

LEMMA SwapPuts ==
  ASSUME IInv, IInv', NEW t \in Threads, Swap(t), Swaps(t), op[t] = "enqueue"
  PROVE  /\ head - tail < Capacity
         /\ \E x \in Items : queueBar' = Append(queueBar, x)
         /\ handBar' = handBar
<1>1. /\ UNCHANGED <<turn, data, op, pos, item>>
      /\ pc[t] = "swap" /\ pc' = [pc EXCEPT ![t] = "write"]
      /\ pos[t] = head /\ head' = head + 1 /\ tail' = tail
  BY DEF Swap, Swaps, Goto, head, tail, IInv, TypeOK, Ops
<1>2. head \in Nat /\ tail \in Nat /\ Capacity \in Nat /\ tail <= head
  BY QueueAssumption DEF IInv, TypeOK, Ops, head, tail, Window
<1>3. head - tail < Capacity
  <2>1. turn[idx(head)] = expectedTurn("enqueue", head)
    BY <1>1 DEF Swaps, IInv, Swapping, IsMyTurn, head
  <2>2. head < tail + Capacity
    BY <2>1, RoomForEnqueue
  <2> QED BY <2>2, <1>2
<1>4. ASSUME NEW p \in Nat, tail <= p, p < head PROVE ItemAt(p)' = ItemAt(p)
  <2>1. \A u \in Threads : Holds(u, "enqueue", p)' <=> Holds(u, "enqueue", p)
    BY <1>1, <1>2, <1>4 DEF Holds, IInv, TypeOK
  <2> QED BY <1>1, <2>1, SameItem
<1>5. ASSUME NEW p \in Nat, p = head PROVE ItemAt(p)' = item[t]
  <2>1. Holds(t, "enqueue", p)'
    BY <1>1, <1>5 DEF Holds, IInv, TypeOK
  <2> QED BY <2>1, <1>1, ItemHeldNext
<1>6. item[t] \in Items
  BY <1>1 DEF IInv, Local
<1>7. queueBar' = Append(queueBar, item[t])
  <2>1. head' - tail' = (head - tail) + 1 /\ head - tail \in Nat
    BY <1>1, <1>2
  <2>2. Len(queueBar) = head - tail /\ queueBar \in Seq({queueBar[i] : i \in 1..(head - tail)})
    BY <2>1 DEF queueBar
  <2>3. ASSUME NEW i \in 1..(head' - tail')
        PROVE  ItemAt(tail + i - 1)' = Append(queueBar, item[t])[i]
    <3>1. CASE i = (head - tail) + 1
      <4>1. Append(queueBar, item[t])[i] = item[t]
        BY <2>2, <3>1
      <4>2. tail' + i - 1 = head
        BY <3>1, <1>1, <1>2
      <4> QED BY <4>1, <4>2, <1>5, <1>2
    <3>2. CASE i \in 1..(head - tail)
      <4>1. Append(queueBar, item[t])[i] = queueBar[i] /\ queueBar[i] = ItemAt(tail + i - 1)
        <5>1. queueBar[i] = ItemAt(tail + i - 1)
          BY <3>2 DEF queueBar
        <5> QED BY <5>1, <2>2, <3>2
      <4>2. tail + i - 1 \in Nat /\ tail <= tail + i - 1 /\ tail + i - 1 < head
        BY <3>2, <1>2
      <4>3. ASSUME NEW p \in Nat, p = tail + i - 1 PROVE ItemAt(p)' = ItemAt(p)
        BY <4>2, <4>3, <1>4
      <4>4. ItemAt(tail + i - 1)' = ItemAt(tail + i - 1)
        BY <4>2, <4>3, <1>1
      <4> QED BY <4>1, <4>4
    <3>3. i = (head - tail) + 1 \/ i \in 1..(head - tail)
      BY <2>1, <1>2
    <3> QED BY <3>1, <3>2, <3>3
  <2>4. /\ DOMAIN Append(queueBar, item[t]) = 1..(head' - tail')
        /\ Append(queueBar, item[t]) = [i \in 1..(head' - tail') |-> Append(queueBar, item[t])[i]]
    BY <2>1, <2>2
  <2> QED BY <2>3, <2>4 DEF queueBar
<1>8. handBar' = handBar
  <2>1. ASSUME NEW u \in Threads PROVE InHand(u)' = InHand(u)
    BY <1>1 DEF InHand, IInv, TypeOK
  <2> QED BY <2>1 DEF handBar
<1> QED BY <1>3, <1>6, <1>7, <1>8

(* A function on 1..n is a sequence, and a sequence a function on its indices. *)
LEMMA FunctionIsSequence ==
  ASSUME NEW n \in Nat, NEW f, f = [i \in 1..n |-> f[i]]
  PROVE  Len(f) = n /\ f \in Seq({f[i] : i \in 1..n})
<1>1. \A i \in 1..n : f[i] \in {f[j] : j \in 1..n}
  OBVIOUS
<1>2. f \in [1..n -> {f[j] : j \in 1..n}]
  BY <1>1
<1> QED BY <1>2

LEMMA SequenceIsFunction ==
  ASSUME NEW S, NEW s \in Seq(S)
  PROVE  DOMAIN s = 1..Len(s) /\ s = [i \in 1..Len(s) |-> s[i]]
  OBVIOUS

LEMMA SwapTakes ==
  ASSUME IInv, IInv', NEW t \in Threads, Swap(t), Swaps(t), op[t] = "dequeue"
  PROVE  /\ queueBar # <<>> /\ handBar[t] = None
         /\ handBar' = [handBar EXCEPT ![t] = Head(queueBar)]
         /\ queueBar' = Tail(queueBar)
<1>1. /\ UNCHANGED <<turn, data, op, pos, item>>
      /\ pc[t] = "swap" /\ pc' = [pc EXCEPT ![t] = "read"]
      /\ pos[t] = tail /\ tail' = tail + 1 /\ head' = head
  BY DEF Swap, Swaps, Goto, head, tail, IInv, TypeOK, Ops
<1>2. head \in Nat /\ tail \in Nat
  BY DEF IInv, TypeOK, Ops, head, tail
<1>3. turn[idx(tail)] = expectedTurn("dequeue", tail)
  BY <1>1 DEF Swaps, IInv, Swapping, IsMyTurn, tail
<1>4. tail < head
  BY <1>3, ItemForDequeue
<1>5. \A u \in Threads, p \in Nat : Holds(u, "enqueue", p)' <=> Holds(u, "enqueue", p)
  BY <1>1 DEF Holds, IInv, TypeOK
<1>6. \A p \in Nat : ItemAt(p)' = ItemAt(p)
  BY <1>1, <1>5, SameItem
<1>7. ItemAt(tail) = data[idx(tail)]
  BY <1>2, <1>3, PublishedIsFree DEF ItemAt
<1>8. /\ head - tail \in Nat \ {0}
      /\ Len(queueBar) = head - tail
      /\ queueBar \in Seq({queueBar[i] : i \in 1..(head - tail)})
  <2>1. head - tail \in Nat /\ head - tail # 0
    BY <1>2, <1>4
  <2>2. queueBar = [i \in 1..(head - tail) |-> queueBar[i]]
    BY DEF queueBar
  <2> QED BY <2>1, <2>2, FunctionIsSequence
<1>9. queueBar # <<>> /\ Head(queueBar) = data[idx(tail)]
  <2>1. queueBar[1] = ItemAt(tail + 1 - 1) /\ tail + 1 - 1 = tail
    BY <1>8, <1>2 DEF queueBar
  <2> QED BY <2>1, <1>7, <1>8
<1>10. queueBar' = Tail(queueBar)
  <2>1. /\ DOMAIN Tail(queueBar) = 1..(head' - tail')
        /\ Tail(queueBar) = [i \in 1..(head' - tail') |-> Tail(queueBar)[i]]
    <3>1. head' - tail' = (head - tail) - 1
      BY <1>1, <1>2
    <3>2. PICK S : queueBar \in Seq(S)
      BY <1>8
    <3>3. Tail(queueBar) \in Seq(S) /\ Len(Tail(queueBar)) = head' - tail'
      BY <3>1, <3>2, <1>8, <1>9
    <3> QED BY <3>3, SequenceIsFunction
  <2>2. ASSUME NEW i \in 1..(head' - tail')
        PROVE  ItemAt(tail + i - 1)' = Tail(queueBar)[i]
    <3>1. i \in Nat /\ i + 1 \in 1..(head - tail)
      BY <1>1, <1>2
    <3>2. Tail(queueBar)[i] = queueBar[i + 1]
      BY <3>1, <1>1, <1>2, <1>8, <1>9
    <3>3. queueBar[i + 1] = ItemAt(tail + (i + 1) - 1)
      BY <3>1 DEF queueBar
    <3>4. tail + (i + 1) - 1 = tail' + i - 1 /\ tail' + i - 1 \in Nat
      BY <3>1, <1>1, <1>2
    <3>5. ASSUME NEW p \in Nat, p = tail' + i - 1
          PROVE  ItemAt(p)' = ItemAt(p)
      BY <1>6
    <3> QED BY <3>2, <3>3, <3>4, <3>5
  <2> QED BY <2>1, <2>2 DEF queueBar
<1>11. handBar[t] = None
  BY <1>1 DEF handBar, InHand, IInv, Local
<1>12. handBar' = [handBar EXCEPT ![t] = Head(queueBar)]
  <2>1. InHand(t)' = data[idx(tail)]
    BY <1>1 DEF InHand, IInv, TypeOK
  <2>2. ASSUME NEW u \in Threads, u # t PROVE InHand(u)' = InHand(u)
    BY <1>1, <2>2 DEF InHand, IInv, TypeOK
  <2> QED BY <2>1, <2>2, <1>9 DEF handBar
<1> QED BY <1>9, <1>10, <1>11, <1>12

(* Publish is the return of a Dequeue; of an Enqueue it is no step. *)
LEMMA PublishReturns ==
  ASSUME IInv, IInv', NEW t \in Threads, Publish(t)
  PROVE  /\ queueBar' = queueBar
         /\ op[t] = "enqueue" => handBar' = handBar
         /\ op[t] = "dequeue" => handBar[t] # None /\ handBar' = [handBar EXCEPT ![t] = None]
<1>1. /\ UNCHANGED <<cursor, data, op, pos>>
      /\ pc[t] = "publish" /\ pc' = [pc EXCEPT ![t] = "idle"]
      /\ item' = [item EXCEPT ![t] = None]
      /\ head' = head /\ tail' = tail /\ op[t] \in Ops
  BY DEF Publish, Goto, head, tail, IInv, TypeOK
<1>2. head \in Nat /\ tail \in Nat
  BY DEF IInv, TypeOK, Ops, head, tail
<1>3. ASSUME NEW p \in Nat PROVE ItemAt(p)' = ItemAt(p)
  <2>1. \A u \in Threads : Holds(u, "enqueue", p)' <=> Holds(u, "enqueue", p) /\ u # t
    BY <1>1 DEF Holds, IInv, TypeOK
  <2>2. CASE Holds(t, "enqueue", p)
    <3>1. ItemAt(p) = item[t]
      BY <2>2, ItemHeld
    <3>2. item[t] = data[idx(p)]
      BY <2>2, <1>1 DEF Holds, IInv, Written
    <3>3. \A u \in Threads : ~ Holds(u, "enqueue", p)'
      BY <2>1, <2>2 DEF Holds, IInv, Unique, Inside
    <3>4. ItemAt(p)' = data'[idx(p)]
      BY <3>3 DEF ItemAt
    <3> QED BY <3>1, <3>2, <3>4, <1>1
  <2>3. CASE ~ Holds(t, "enqueue", p)
    <3>1. \A u \in Threads : Holds(u, "enqueue", p)' <=> Holds(u, "enqueue", p)
      BY <2>1, <2>3
    <3>2. \A u \in Threads : Holds(u, "enqueue", p) => item'[u] = item[u]
      BY <1>1, <2>3 DEF IInv, TypeOK
    <3> QED BY <3>1, <3>2, <1>1, SameItem
  <2> QED BY <2>2, <2>3
<1>4. ASSUME NEW u \in Threads, u # t PROVE InHand(u)' = InHand(u)
  BY <1>1, <1>4 DEF InHand, IInv, TypeOK
<1>5. InHand(t)' = None
  BY <1>1 DEF InHand, IInv, TypeOK
<1>6. op[t] = "enqueue" => InHand(t) = None
  BY DEF InHand
<1>7. op[t] = "dequeue" => InHand(t) # None
  BY <1>1 DEF InHand, IInv, Local
<1>8. queueBar' = queueBar
  <2>1. ASSUME NEW i \in 1..(head - tail) PROVE ItemAt(tail + i - 1)' = ItemAt(tail + i - 1)
    <3>1. tail + i - 1 \in Nat
      BY <1>2
    <3>2. ASSUME NEW p \in Nat, p = tail + i - 1 PROVE ItemAt(p)' = ItemAt(p)
      BY <1>3
    <3> QED BY <3>1, <3>2, <1>1
  <2> QED BY <2>1, <1>1 DEF queueBar
<1>9. handBar' = [u \in Threads |-> IF u = t THEN None ELSE handBar[u]]
  BY <1>4, <1>5 DEF handBar
<1>10. handBar[t] = InHand(t)
  BY DEF handBar
<1> QED BY <1>6, <1>7, <1>8, <1>9, <1>10 DEF handBar

LEMMA StepImplements == IInv /\ IInv' /\ [Next]_vars => [Promise!Next]_<<queueBar, handBar>>
<1> SUFFICES ASSUME IInv, IInv', [Next]_vars
             PROVE  Promise!Next \/ (queueBar' = queueBar /\ handBar' = handBar)
  BY DEF queueBar, handBar
<1>1. ASSUME NEW t \in Threads, Call(t) \/ Step(t)
      PROVE  Promise!Next \/ (queueBar' = queueBar /\ handBar' = handBar)
  <2>1. CASE Call(t) \/ Load(t) \/ Look(t) \/ Again(t) \/ (Swap(t) /\ ~ Swaps(t))
    BY <2>1, OutsideStutters
  <2>2. CASE Write(t) \/ Read(t) \/ Clear(t)
    BY <2>2, InsideStutters
  <2>3. CASE Swap(t) /\ Swaps(t) /\ op[t] = "enqueue"
    <3>1. /\ head - tail < Capacity
          /\ \E x \in Items : queueBar' = Append(queueBar, x)
          /\ handBar' = handBar
      BY <2>3, SwapPuts
    <3>2. Len(queueBar) = head - tail
      BY DEF queueBar, IInv, TypeOK, Window, Ops, head, tail
    <3>3. Promise!Put
      BY <3>1, <3>2 DEF Promise!Put, queueBar, handBar
    <3> QED BY <3>3 DEF Promise!Next
  <2>4. CASE Swap(t) /\ Swaps(t) /\ op[t] = "dequeue"
    <3>1. Promise!Take(t)
      BY <2>4, SwapTakes DEF Promise!Take, queueBar, handBar
    <3> QED BY <3>1 DEF Promise!Next
  <2>5. CASE Publish(t) /\ op[t] = "enqueue"
    BY <2>5, PublishReturns
  <2>6. CASE Publish(t) /\ op[t] = "dequeue"
    <3>1. Promise!Return(t)
      BY <2>6, PublishReturns DEF Promise!Return, queueBar, handBar
    <3> QED BY <3>1 DEF Promise!Next
  <2> QED BY <1>1, <2>1, <2>2, <2>3, <2>4, <2>5, <2>6 DEF Step, IInv, TypeOK, Ops
<1>2. CASE UNCHANGED vars
  BY <1>2 DEF vars, queueBar, handBar, head, tail, ItemAt, InHand, Holds
<1> QED BY <1>1, <1>2 DEF Next

(* The queue implements its promise: first in, first out, bounded, and every *)
(* accepted item is given out once and unchanged.                            *)
THEOREM QueueImplements == Spec => ImplementsQueue
<1>1. Init => Promise!Init
  BY DEF Init, Promise!Init, head, tail, Ops, InHand
<1>2. IInv /\ IInv' /\ [Next]_vars =>
        [Promise!Next]_<<[i \in 1..(head - tail) |-> ItemAt(tail + i - 1)],
                         [t \in Threads |-> InHand(t)]>>
  BY StepImplements DEF queueBar, handBar
<1> QED BY <1>1, <1>2, Invariance, PTL DEF Spec, ImplementsQueue, Promise!Spec
=============================================================================

---------------------------- MODULE BoundedQueue ----------------------------
(***************************************************************************)
(* What MPMC promises its callers: a FIFO queue of bounded length.  An     *)
(* accepted item enters at the end, a thread takes the oldest one and      *)
(* nobody else gets it.  The thread holds what it took until its call      *)
(* returns it.                                                             *)
(***************************************************************************)
EXTENDS Naturals, Sequences

CONSTANTS Threads, Items, None, Capacity

VARIABLES queue,  \* accepted items, oldest first
          hand    \* what each thread has taken and not returned yet

Init == queue = <<>> /\ hand = [t \in Threads |-> None]

Put ==
  /\ Len(queue) < Capacity
  /\ \E x \in Items : queue' = Append(queue, x)
  /\ UNCHANGED hand

Take(t) ==
  /\ queue # <<>> /\ hand[t] = None
  /\ hand' = [hand EXCEPT ![t] = Head(queue)]
  /\ queue' = Tail(queue)

Return(t) ==
  /\ hand[t] # None
  /\ hand' = [hand EXCEPT ![t] = None]
  /\ UNCHANGED queue

Next == Put \/ \E t \in Threads : Take(t) \/ Return(t)

Spec == Init /\ [][Next]_<<queue, hand>>
=============================================================================

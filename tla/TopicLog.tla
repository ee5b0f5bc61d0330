------------------------------ MODULE TopicLog ------------------------------
(***************************************************************************)
(* What a topic promises to the one consumer of a group: records are       *)
(* numbered as they are written, the consumer reads on from its position   *)
(* and never past the end, and a new process goes on from the position     *)
(* that was committed.                                                     *)
(***************************************************************************)
EXTENDS Naturals

VARIABLES written,     \* records in the log, numbered from 0
          position,    \* the next record the consumer reads
          saved        \* the committed position

Init == written = 0 /\ position = 0 /\ saved = 0

Write ==
  /\ written' \in Nat /\ written' > written
  /\ UNCHANGED <<position, saved>>

Read ==
  /\ position' \in (position + 1)..written
  /\ UNCHANGED <<written, saved>>

Save == saved' = position /\ UNCHANGED <<written, position>>

Resume == position' = saved /\ UNCHANGED <<written, saved>>

Next == Write \/ Read \/ Save \/ Resume

Spec == Init /\ [][Next]_<<written, position, saved>>
=============================================================================

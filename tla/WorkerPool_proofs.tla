------------------------- MODULE WorkerPool_proofs -------------------------
(***************************************************************************)
(* Theorems about WorkerPool, for any number of callers and workers, any   *)
(* capacity and any use of Tune.                                           *)
(*                                                                         *)
(* A worker that waits for work is in exactly one place: the stack, the    *)
(* hands of one caller or of the purge goroutine, or behind a token in one *)
(* of its channels (IdleInv, HeldInv, ExpiredInv, TokenInv, PlacedInv).    *)
(* Signal and Broadcast only     *)
(* reach callers that sleep (ListInv), so they take no worker from a       *)
(* caller's hands.                                                         *)
(***************************************************************************)
EXTENDS WorkerPool, FiniteSetTheorems, TLAPS

Idle == {idle[i] : i \in 1..Len(idle)}

Spawning == {c \in Callers : caller[c] = "spawn"}

Live == {w \in Workers : worker[w] # "off"}

ListInv ==
  /\ \A i \in 1..Len(list) : caller[list[i]] = "asleep"
  /\ \A i, j \in 1..Len(list) : list[i] = list[j] => i = j

IdleInv ==
  /\ \A i \in 1..Len(idle) : worker[idle[i]] = "select" /\ idle[i] \notin arg \cup exit
  /\ \A i, j \in 1..Len(idle) : idle[i] = idle[j] => i = j

HeldInv ==
  /\ \A c \in Callers : holds[c] # None <=> caller[c] = "give"
  /\ \A c \in Callers : holds[c] # None =>
       worker[holds[c]] = "select" /\ holds[c] \notin arg \cup exit \cup Idle
  /\ \A c, d \in Callers : holds[c] # None /\ holds[c] = holds[d] => c = d

ExpiredInv ==
  \A w \in expired :
    /\ worker[w] = "select" /\ w \notin arg \cup exit \cup Idle
    /\ \A c \in Callers : holds[c] # w

(* The purge goroutine has told them all before it looks at the stack again. *)
PurgeInv == expired # {} => purge = "finish"

TokenInv ==
  /\ \A w \in arg : worker[w] = "select" /\ w \notin exit
  /\ \A w \in exit : worker[w] = "select"

PlacedInv ==
  \A w \in Workers : worker[w] = "select" =>
    w \in arg \cup exit \cup expired \cup Idle \/ \E c \in Callers : holds[c] = w

CountInv == running = Cardinality(Live)

CapacityInv == capacity \in Capacities

ReleaseInv ==
  /\ closed <=> release # "none"
  /\ release \notin {"none", "reset"} => idle = <<>>

IInv ==
  /\ TypeOK
  /\ ListInv
  /\ IdleInv /\ HeldInv /\ ExpiredInv /\ TokenInv /\ PlacedInv /\ PurgeInv
  /\ CountInv /\ CapacityInv /\ RunningIsBounded
  /\ ReleaseInv

-----------------------------------------------------------------------------
(* Facts about sequences and finite sets the steps cite. *)

LEMMA AppendFacts ==
  ASSUME NEW S, NEW q \in Seq(S), NEW e \in S
  PROVE  /\ Append(q, e) \in Seq(S)
         /\ Len(q) \in Nat /\ Len(Append(q, e)) = Len(q) + 1
         /\ \A i \in 1..Len(q) : Append(q, e)[i] = q[i]
         /\ Append(q, e)[Len(q) + 1] = e
  OBVIOUS

LEMMA TailFacts ==
  ASSUME NEW S, NEW q \in Seq(S), q # <<>>
  PROVE  /\ Tail(q) \in Seq(S)
         /\ Len(q) \in Nat \ {0} /\ Len(Tail(q)) = Len(q) - 1
         /\ \A i \in 1..Len(q) - 1 : Tail(q)[i] = q[i + 1]
  OBVIOUS

LEMMA PartFacts ==
  ASSUME NEW S, NEW q \in Seq(S), NEW n \in 0..Len(q)
  PROVE  /\ SubSeq(q, n + 1, Len(q)) \in Seq(S)
         /\ Len(q) \in Nat /\ Len(SubSeq(q, n + 1, Len(q))) = Len(q) - n
         /\ \A i \in 1..Len(q) - n : SubSeq(q, n + 1, Len(q))[i] = q[n + i]
  OBVIOUS

LEMMA FrontFacts ==
  ASSUME NEW S, NEW q \in Seq(S), q # <<>>
  PROVE  /\ SubSeq(q, 1, Len(q) - 1) \in Seq(S)
         /\ Len(q) \in Nat \ {0} /\ Len(SubSeq(q, 1, Len(q) - 1)) = Len(q) - 1
         /\ \A i \in 1..Len(q) - 1 : SubSeq(q, 1, Len(q) - 1)[i] = q[i]
         /\ q[Len(q)] \in S
<1>1. Len(q) \in Nat \ {0}
  OBVIOUS
<1>2. PICK k \in Nat : k = Len(q) - 1
  BY <1>1
<1>3. SubSeq(q, 1, k) \in Seq(S) /\ Len(SubSeq(q, 1, k)) = k /\ \A i \in 1..k : SubSeq(q, 1, k)[i] = q[i]
  BY <1>1, <1>2
<1> QED
  BY <1>1, <1>2, <1>3

LEMMA EmptyFacts ==
  ASSUME NEW S
  PROVE  <<>> \in Seq(S) /\ Len(<<>>) = 0
  OBVIOUS

LEMMA CountFacts ==
  ASSUME NEW S, IsFiniteSet(S), NEW x
  PROVE  /\ Cardinality(S) \in Nat
         /\ x \notin S => Cardinality(S \cup {x}) = Cardinality(S) + 1
         /\ x \in S => Cardinality(S \ {x}) = Cardinality(S) - 1
         /\ x \in S => Cardinality(S) > 0
<1>1. Cardinality(S) \in Nat
  BY FS_CardinalityType
<1>2. x \notin S => Cardinality(S \cup {x}) = Cardinality(S) + 1
  BY FS_AddElement
<1>3. x \in S => Cardinality(S \ {x}) = Cardinality(S) - 1
  BY FS_RemoveElement
<1>4. x \in S => Cardinality(S) # 0
  BY FS_EmptySet
<1> QED
  BY <1>1, <1>2, <1>3, <1>4

LEMMA Finite ==
  /\ IsFiniteSet(Spawning) /\ Cardinality(Spawning) \in Nat
  /\ Cardinality(Spawning) <= Cardinality(Callers)
  /\ IsFiniteSet(Live) /\ Cardinality(Live) \in Nat
  BY PoolAssumption, FS_Subset, FS_CardinalityType DEF Spawning, Live

-----------------------------------------------------------------------------
(* Signal and Broadcast move sleeping callers and no others. *)

CallersStay ==
  \A c \in Callers :
    caller'[c] = caller[c] \/ (caller[c] = "asleep" /\ caller'[c] = "awake")

LEMMA Wakes ==
  ASSUME TypeOK, ListInv, Signal \/ Broadcast
  PROVE  /\ caller' \in [Callers -> CallerPCs] /\ list' \in Seq(Callers)
         /\ ListInv' /\ CallersStay
<1> USE DEF TypeOK
<1>1. CASE list # <<>> /\ Signal
  <2>1. Len(list) \in Nat \ {0} /\ list[1] \in Callers
    BY <1>1, TailFacts
  <2>2. /\ caller' = Woken(1)
        /\ \A c \in Callers : caller'[c] = IF list[1] = c THEN "awake" ELSE caller[c]
    BY <1>1, <2>1 DEF Signal, Woken
  <2>3. caller' \in [Callers -> CallerPCs]
    BY <2>2 DEF Woken, CallerPCs
  <2>4. CallersStay
    BY <2>1, <2>2 DEF CallersStay, ListInv
  <2>5. list' \in Seq(Callers) /\ Len(list') = Len(list) - 1
        /\ \A i \in 1..Len(list) - 1 : list'[i] = list[i + 1]
    BY <1>1, TailFacts DEF Signal
  <2>6. ASSUME NEW i \in 1..Len(list') PROVE caller'[list'[i]] = "asleep"
    <3>1. i + 1 \in 1..Len(list) /\ list'[i] = list[i + 1] /\ list[i + 1] \in Callers
      BY <2>1, <2>5, <2>6
    <3>2. list[i + 1] # list[1]
      BY <2>1, <3>1 DEF ListInv
    <3> QED
      BY <2>2, <3>1, <3>2 DEF ListInv
  <2>7. ASSUME NEW i \in 1..Len(list'), NEW j \in 1..Len(list'), list'[i] = list'[j]
        PROVE  i = j
    <3>1. i + 1 \in 1..Len(list) /\ j + 1 \in 1..Len(list) /\ list[i + 1] = list[j + 1]
      BY <2>1, <2>5, <2>7
    <3>2. i + 1 = j + 1
      BY <3>1 DEF ListInv
    <3> QED
      BY <2>1, <2>5, <3>2
  <2> QED
    BY <2>3, <2>4, <2>5, <2>6, <2>7 DEF ListInv
<1>2. CASE list = <<>> /\ Signal
  BY <1>2 DEF Signal, ListInv, CallersStay
<1>3. CASE Broadcast
  <2>1. caller' \in [Callers -> CallerPCs] /\ CallersStay
    BY <1>3 DEF Broadcast, Woken, CallerPCs, CallersStay, ListInv
  <2>2. list' = <<>> /\ Len(list') = 0
    BY <1>3, EmptyFacts DEF Broadcast
  <2> QED
    BY <2>1, <2>2, EmptyFacts DEF ListInv
<1> QED
  BY <1>1, <1>2, <1>3

(* The steps that wake callers, and those that leave callers and list alone. *)
WakeStep ==
  \/ \E w \in Workers : Surplus(w) \/ Insert(w)
  \/ LastSignal \/ PurgeWake \/ ReleaseBroadcast \/ TuneWakes

LEMMA WakeSteps ==
  ASSUME TypeOK, ListInv, WakeStep
  PROVE  /\ caller' \in [Callers -> CallerPCs] /\ list' \in Seq(Callers)
         /\ ListInv' /\ CallersStay
<1>1. CASE UNCHANGED <<caller, list>>
  BY <1>1 DEF ListInv, CallersStay, TypeOK
<1>2. CASE Signal \/ Broadcast
  BY <1>2, Wakes
<1> QED
  BY <1>1, <1>2 DEF WakeStep, Surplus, Insert, LastSignal, PurgeWake, ReleaseBroadcast, TuneWakes

-----------------------------------------------------------------------------
(* Type correctness. *)

CallTypes ==
  /\ caller \in [Callers -> CallerPCs] /\ holds \in [Callers -> Workers \cup {None}]
  /\ list \in Seq(Callers)

WorkTypes ==
  /\ worker \in [Workers -> WorkerPCs] /\ arg \subseteq Workers /\ exit \subseteq Workers
  /\ expired \subseteq Workers /\ idle \in Seq(Workers)

CounterTypes ==
  /\ running \in Nat /\ signals \in Nat /\ invokes \in Nat /\ accepted \in Nat
  /\ ended \in Nat /\ panics \in Nat /\ tunes \in Nat

ControlTypes ==
  /\ closed \in BOOLEAN /\ allDone \in BOOLEAN /\ capacity \in Sizes \cup {Size}
  /\ purge \in {"tick", "refresh", "finish", "check", "wake", "done"} /\ dormant \in BOOLEAN
  /\ release \in {"none", "reset", "broadcast", "check", "join", "joined"}
  /\ tune \in {"none", "signal", "broadcast"}

LEMMA TypeParts == TypeOK <=> CallTypes /\ WorkTypes /\ CounterTypes /\ ControlTypes
  BY DEF TypeOK, CallTypes, WorkTypes, CounterTypes, ControlTypes

LEMMA CallTypesStep == TypeOK /\ ListInv /\ [Next]_vars => CallTypes'
<1> SUFFICES ASSUME TypeOK, ListInv, [Next]_vars PROVE CallTypes'
  OBVIOUS
<1> USE DEF TypeOK, CallTypes, CallerPCs
<1>1. ASSUME NEW c \in Callers, Invoke(c) \/ CallerStep(c) PROVE CallTypes'
  <2>1. CASE Detach(c)
    <3>1. idle[Len(idle)] \in Workers
      BY <2>1, TailFacts DEF Detach
    <3> QED
      BY <2>1, <3>1 DEF Detach, Goto
  <2>2. CASE Wait(c)
    BY <2>2, AppendFacts DEF Wait, Goto
  <2>3. CASE Invoke(c) \/ Grow(c) \/ Run(c) \/ Overload(c) \/ DecideToWait(c)
             \/ WokenByRelease(c) \/ Give(c)
    BY <2>3 DEF Invoke, Grow, Run, Overload, DecideToWait, WokenByRelease, Give, Goto
  <2> QED
    BY <1>1, <2>1, <2>2, <2>3 DEF CallerStep
<1>2. CASE WakeStep
  <2>1. UNCHANGED holds
    BY <1>2 DEF WakeStep, Surplus, Insert, LastSignal, PurgeWake, ReleaseBroadcast, TuneWakes
  <2> QED
    BY <1>2, <2>1, WakeSteps
<1>3. CASE UNCHANGED <<caller, holds, list>>
  BY <1>3
<1> QED
  BY <1>1, <1>2, <1>3
     DEF Next, vars, callVars, WakeStep, WorkerStep, Take, Quit, Return, Keep, Leave, Panic,
         PurgeStep, PurgeTick, PurgeRefresh, PurgeFinish, PurgeCheck, PurgeEnds, Release,
         ReleaseStep, ReleaseReset, ReleaseCheck, ReleaseReturns, Tune

LEMMA WorkTypesStep == TypeOK /\ HeldInv /\ [Next]_vars => WorkTypes'
<1> SUFFICES ASSUME TypeOK, HeldInv, [Next]_vars PROVE WorkTypes'
  OBVIOUS
<1> USE DEF TypeOK, WorkTypes, WorkerPCs
<1>1. ASSUME NEW c \in Callers, Invoke(c) \/ CallerStep(c) PROVE WorkTypes'
  <2>1. CASE Detach(c)
    <3>1. idle' \in Seq(Workers)
      BY <2>1, TailFacts, PartFacts DEF Detach
    <3> QED
      BY <2>1, <3>1 DEF Detach, workVars, ctlVars, purgeVars
  <2>2. CASE Give(c)
    BY <2>2, PoolAssumption DEF Give, HeldInv, ctlVars, purgeVars
  <2>3. CASE Run(c)
    BY <2>3 DEF Run, ctlVars, purgeVars
  <2>4. CASE Invoke(c) \/ Grow(c) \/ Overload(c) \/ DecideToWait(c) \/ Wait(c)
             \/ WokenByRelease(c)
    BY <2>4 DEF Invoke, Grow, Overload, DecideToWait, Wait, WokenByRelease, workVars, ctlVars,
                purgeVars
  <2> QED
    BY <1>1, <2>1, <2>2, <2>3, <2>4 DEF CallerStep
<1>2. ASSUME NEW w \in Workers, WorkerStep(w) \/ Panic(w) PROVE WorkTypes'
  <2>1. CASE Insert(w)
    <3>1. Append(idle, w) \in Seq(Workers)
      BY AppendFacts
    <3>3. idle' \in Seq(Workers)
      BY <2>1, <3>1 DEF Insert
    <3>2. worker' \in [Workers -> WorkerPCs]
      BY <2>1 DEF Insert, WorkerGoto
    <3> QED
      BY <2>1, <3>2, <3>3 DEF Insert, ctlVars, purgeVars
  <2>2. CASE Take(w) \/ Quit(w) \/ Return(w) \/ Surplus(w) \/ Keep(w) \/ Leave(w) \/ Panic(w)
    BY <2>2 DEF Take, Quit, Return, Surplus, Keep, Leave, Panic, WorkerGoto, ctlVars,
                purgeVars
  <2> QED
    BY <1>2, <2>1, <2>2 DEF WorkerStep
<1>3. CASE PurgeRefresh
  <2>1. PICK n \in 0..Len(idle) :
          /\ idle' = SubSeq(idle, n + 1, Len(idle))
          /\ expired' = {idle[i] : i \in 1..n}
    BY <1>3 DEF PurgeRefresh, Unexpired
  <2>2. \A i \in 1..n : idle[i] \in Workers
    BY <2>1
  <2> QED
    BY <1>3, <2>1, <2>2, PartFacts DEF PurgeRefresh, workVars
<1>6. ASSUME NEW w \in Workers, PurgeFinish(w) PROVE WorkTypes'
  BY <1>6 DEF PurgeFinish
<1>4. CASE ReleaseReset
  BY <1>4, EmptyFacts DEF ReleaseReset, purgeVars
<1>5. CASE UNCHANGED <<worker, arg, exit, expired, idle>>
  BY <1>5
<1> QED
  BY <1>1, <1>2, <1>3, <1>4, <1>5, <1>6
     DEF Next, vars, workVars, ctlVars, purgeVars, LastSignal, PurgeStep, PurgeTick, PurgeCheck,
         PurgeWake, PurgeEnds, Release, ReleaseStep,
         ReleaseBroadcast, ReleaseCheck, ReleaseReturns, Tune, TuneWakes

LEMMA CounterTypesStep == TypeOK /\ CountInv /\ [Next]_vars => CounterTypes'
<1> SUFFICES ASSUME TypeOK, CountInv, [Next]_vars PROVE CounterTypes'
  OBVIOUS
<1> USE DEF TypeOK, CounterTypes
<1>1. ASSUME NEW c \in Callers, Invoke(c) \/ CallerStep(c) PROVE CounterTypes'
  BY SMTT(20), <1>1 DEF CallerStep, Invoke, Detach, Grow, Run, Overload, DecideToWait, Wait,
              WokenByRelease, Give, workVars, ctlVars
<1>2. ASSUME NEW w \in Workers, WorkerStep(w) \/ Panic(w) PROVE CounterTypes'
  <2>1. CASE Leave(w)
    <3>1. w \in Live
      BY <2>1 DEF Leave, Live
    <3>2. running > 0
      BY <3>1, Finite, CountFacts DEF CountInv
    <3> QED
      BY <2>1, <3>2 DEF Leave, callVars, ctlVars
  <2>2. CASE Take(w) \/ Quit(w) \/ Return(w) \/ Surplus(w) \/ Keep(w) \/ Insert(w) \/ Panic(w)
    BY SMTT(20), <2>2 DEF Take, Quit, Return, Surplus, Keep, Insert, Panic, callVars, ctlVars
  <2> QED
    BY <1>2, <2>1, <2>2 DEF WorkerStep
<1>3. CASE LastSignal
  BY <1>3 DEF LastSignal, ctlVars
<1>4. CASE PurgeStep \/ Release \/ ReleaseStep \/ (\E n \in Sizes : Tune(n)) \/ TuneWakes
  BY <1>4 DEF PurgeStep, PurgeTick, PurgeRefresh, PurgeFinish, PurgeCheck, PurgeWake, PurgeEnds,
              Release, ReleaseStep, ReleaseReset,
              ReleaseBroadcast, ReleaseCheck, ReleaseReturns, Tune, TuneWakes, callVars,
              workVars
<1>5. CASE UNCHANGED vars
  BY <1>5 DEF vars, callVars, workVars, ctlVars
<1> QED
  BY <1>1, <1>2, <1>3, <1>4, <1>5 DEF Next

LEMMA ControlTypesStep == TypeOK /\ [Next]_vars => ControlTypes'
<1> SUFFICES ASSUME TypeOK, [Next]_vars PROVE ControlTypes'
  OBVIOUS
<1> USE DEF TypeOK, ControlTypes
<1>1. CASE UNCHANGED <<closed, allDone, capacity, purge, dormant, release, tune>>
  BY <1>1
<1>2. ASSUME NEW w \in Workers, Leave(w) PROVE ControlTypes'
  BY <1>2 DEF Leave, ctlVars, purgeVars
<1>3. CASE PurgeStep \/ TuneWakes
  <2>1. CASE PurgeRefresh \/ \E w \in Workers : PurgeFinish(w)
    BY <2>1 DEF PurgeRefresh, PurgeFinish, IsDormant, Behind
  <2>2. CASE PurgeTick \/ PurgeCheck \/ PurgeWake \/ PurgeEnds \/ TuneWakes
    BY <2>2 DEF PurgeTick, PurgeCheck, PurgeWake, PurgeEnds, TuneWakes, purgeVars
  <2> QED
    BY <1>3, <2>1, <2>2 DEF PurgeStep
<1>4. CASE Release \/ ReleaseStep
  BY <1>4 DEF Release, ReleaseStep, ReleaseReset, ReleaseBroadcast, ReleaseCheck, ReleaseReturns,
              purgeVars
<1>5. ASSUME NEW n \in Sizes, Tune(n) PROVE ControlTypes'
  BY <1>5 DEF Tune, purgeVars
<1> QED
  BY <1>1, <1>2, <1>3, <1>4, <1>5
     DEF Next, vars, ctlVars, purgeVars, CallerStep, Invoke, Detach, Grow, Run, Overload,
         DecideToWait,
         Wait, WokenByRelease, Give, WorkerStep, Take, Quit, Return, Surplus, Keep, Insert,
         Panic, LastSignal

-----------------------------------------------------------------------------
(* Where workers and callers are. *)

LEMMA ListStep == TypeOK /\ ListInv /\ [Next]_vars => ListInv'
<1> SUFFICES ASSUME TypeOK, ListInv, [Next]_vars PROVE ListInv'
  OBVIOUS
<1> USE DEF TypeOK
<1>1. ASSUME NEW c \in Callers, Invoke(c) \/ CallerStep(c) PROVE ListInv'
  <2>1. CASE Wait(c)
    <3>1. /\ list' = Append(list, c) /\ Len(list) \in Nat /\ Len(list') = Len(list) + 1
          /\ \A i \in 1..Len(list) : list'[i] = list[i] /\ list[i] \in Callers
          /\ list'[Len(list) + 1] = c
      BY <2>1, AppendFacts DEF Wait
    <3>2. \A i \in 1..Len(list) : list[i] # c
      BY <2>1 DEF Wait, ListInv
    <3>3. \A d \in Callers : caller'[d] = IF d = c THEN "asleep" ELSE caller[d]
      BY <2>1 DEF Wait, Goto
    <3>4. \A i \in 1..Len(list') : caller'[list'[i]] = "asleep"
      BY <3>1, <3>3 DEF ListInv
    <3>5. \A i, j \in 1..Len(list') : list'[i] = list'[j] => i = j
      BY <3>1, <3>2 DEF ListInv
    <3> QED
      BY <3>4, <3>5 DEF ListInv
  <2>2. CASE Invoke(c) \/ Detach(c) \/ Grow(c) \/ Run(c) \/ Overload(c) \/ DecideToWait(c)
             \/ WokenByRelease(c) \/ Give(c)
    <3>1. caller[c] # "asleep" /\ list' = list
          /\ \A d \in Callers \ {c} : caller'[d] = caller[d]
      BY <2>2 DEF Invoke, Detach, Grow, Run, Overload, DecideToWait, WokenByRelease, Give, Goto,
                  Retries
    <3>2. \A i \in 1..Len(list) : list[i] \in Callers \ {c}
      BY <3>1 DEF ListInv
    <3> QED
      BY <3>1, <3>2 DEF ListInv
  <2> QED
    BY <1>1, <2>1, <2>2 DEF CallerStep
<1>2. CASE WakeStep
  BY <1>2, WakeSteps
<1>3. CASE UNCHANGED <<caller, list>>
  BY <1>3 DEF ListInv
<1> QED
  BY <1>1, <1>2, <1>3
     DEF Next, vars, callVars, WakeStep, WorkerStep, Take, Quit, Return, Keep, Leave, Panic,
         PurgeStep, PurgeTick, PurgeRefresh, PurgeFinish, PurgeCheck, PurgeEnds, Release,
         ReleaseStep, ReleaseReset, ReleaseCheck, ReleaseReturns, Tune

(* The five parts that say where a worker is are kept together: they all    *)
(* depend on each other.                                                     *)
WhereInv == IdleInv /\ HeldInv /\ ExpiredInv /\ TokenInv /\ PlacedInv

(* A step that leaves the workers where they are. *)
Still ==
  /\ \A c \in Callers : caller'[c] = "give" <=> caller[c] = "give"
  /\ UNCHANGED <<holds, worker, arg, exit, expired, idle>>

LEMMA StillKeeps == WhereInv /\ Still => WhereInv'
  BY DEF WhereInv, Still, IdleInv, HeldInv, ExpiredInv, TokenInv, PlacedInv, Idle

LEMMA IdleType == TypeOK => Idle \subseteq Workers
  BY DEF TypeOK, Idle

LEMMA WhereCaller ==
  ASSUME TypeOK, WhereInv, NEW c \in Callers, Invoke(c) \/ CallerStep(c)
  PROVE  WhereInv'
<1> USE DEF TypeOK
<1>1. CASE Detach(c)
  <2>1. PICK u : u = idle[Len(idle)]
    OBVIOUS
  <2>2. PICK q : q = SubSeq(idle, 1, Len(idle) - 1)
    OBVIOUS
  <2>3. /\ u \in Workers /\ u = idle[Len(idle)] /\ q \in Seq(Workers)
        /\ Len(idle) \in Nat \ {0} /\ Len(q) = Len(idle) - 1
        /\ \A i \in 1..Len(idle) - 1 : q[i] = idle[i]
    BY <1>1, <2>1, <2>2, FrontFacts DEF Detach
  <2>4. /\ holds' = [holds EXCEPT ![c] = u] /\ caller' = [caller EXCEPT ![c] = "give"]
        /\ idle' = q /\ caller[c] # "give" /\ UNCHANGED <<worker, arg, exit, expired>>
    BY <1>1, <2>1, <2>2 DEF Detach, Goto, Retries, workVars, ctlVars, purgeVars
  <2>5. /\ u \in Idle /\ worker[u] = "select" /\ u \notin arg \cup exit \cup expired
        /\ \A d \in Callers : holds[d] # u
    <3>1. Len(idle) \in 1..Len(idle)
      BY <2>3
    <3>2. u \in Idle
      BY <2>3, <3>1 DEF Idle
    <3>3. worker[u] = "select" /\ u \notin arg \cup exit
      BY <2>3, <3>1 DEF WhereInv, IdleInv
    <3> QED
      BY <2>3, <3>2, <3>3, PoolAssumption DEF WhereInv, HeldInv, ExpiredInv
  <2>6. /\ Len(idle') \in Nat
        /\ \A i \in 1..Len(idle') : i \in 1..Len(idle) /\ i # Len(idle) /\ idle'[i] = idle[i]
        /\ \A i \in 1..Len(idle) : i # Len(idle) => i \in 1..Len(idle')
    BY <2>3, <2>4
  <2>7. Idle' = Idle \ {u}
    <3>1. ASSUME NEW i \in 1..Len(idle') PROVE idle'[i] \in Idle \ {u}
      <4>1. i \in 1..Len(idle) /\ Len(idle) \in 1..Len(idle) /\ i # Len(idle) /\ idle'[i] = idle[i]
        BY <2>3, <2>6
      <4>2. idle[i] # idle[Len(idle)]
        BY <4>1 DEF WhereInv, IdleInv
      <4> QED
        BY <2>3, <4>1, <4>2 DEF Idle
    <3>2. ASSUME NEW i \in 1..Len(idle), idle[i] # u PROVE idle[i] \in Idle'
      BY <2>3, <2>6, <3>2 DEF Idle
    <3> QED
      BY <3>1, <3>2 DEF Idle
  <2>8. IdleInv'
    <3>1. \A i \in 1..Len(idle') :
            worker'[idle'[i]] = "select" /\ idle'[i] \notin arg' \cup exit'
      <4>1. ASSUME NEW i \in 1..Len(idle')
            PROVE  worker[idle[i]] = "select" /\ idle[i] \notin arg \cup exit /\ idle'[i] = idle[i]
        <5>1. i \in 1..Len(idle) /\ idle'[i] = idle[i]
          BY <2>6
        <5> QED
          BY <5>1 DEF WhereInv, IdleInv
      <4> QED
        BY <2>4, <4>1
    <3>2. \A i, j \in 1..Len(idle') : idle'[i] = idle'[j] => i = j
      BY <2>6 DEF WhereInv, IdleInv
    <3> QED
      BY <3>1, <3>2 DEF IdleInv
  <2>9. HeldInv'
    BY <2>4, <2>5, <2>7, PoolAssumption DEF WhereInv, HeldInv
  <2>10. PlacedInv'
    BY <2>4, <2>7, PoolAssumption DEF WhereInv, PlacedInv, HeldInv
  <2>11. ExpiredInv'
    BY <2>4, <2>5, <2>7 DEF WhereInv, ExpiredInv
  <2> QED
    BY <2>4, <2>8, <2>9, <2>10, <2>11 DEF WhereInv, TokenInv
<1>2. CASE Run(c)
  <2>1. PICK u \in Workers :
          /\ worker[u] = "off" /\ worker' = [worker EXCEPT ![u] = "select"]
          /\ holds' = [holds EXCEPT ![c] = u]
    BY <1>2 DEF Run
  <2>2. /\ caller' = [caller EXCEPT ![c] = "give"] /\ caller[c] # "give"
        /\ Idle' = Idle /\ UNCHANGED <<arg, exit, expired, idle>>
    BY <1>2 DEF Run, Goto, Idle, ctlVars, purgeVars
  <2>3. /\ u \notin arg \cup exit \cup expired \cup Idle /\ \A d \in Callers : holds[d] # u
    BY <2>1, PoolAssumption DEF WhereInv, IdleInv, HeldInv, ExpiredInv, TokenInv, Idle
  <2>4. IdleInv'
    <3>1. ASSUME NEW i \in 1..Len(idle)
          PROVE  worker'[idle[i]] = "select" /\ idle[i] \notin arg \cup exit
      <4>1. idle[i] \in Idle /\ idle[i] # u
        BY <2>3 DEF Idle
      <4>2. worker[idle[i]] = "select" /\ idle[i] \notin arg \cup exit
        BY DEF WhereInv, IdleInv
      <4>3. worker'[idle[i]] = worker[idle[i]]
        BY <2>1, <4>1, IdleType DEF TypeOK
      <4> QED
        BY <4>2, <4>3
    <3> QED
      BY <2>2, <3>1 DEF WhereInv, IdleInv
  <2>5. HeldInv'
    BY <2>1, <2>2, <2>3, PoolAssumption DEF WhereInv, HeldInv
  <2>6. TokenInv'
    BY <2>1, <2>2, <2>3 DEF WhereInv, TokenInv
  <2>7. PlacedInv'
    BY <2>1, <2>2, <2>3, PoolAssumption DEF WhereInv, PlacedInv, HeldInv
  <2>8. ExpiredInv'
    BY <2>1, <2>2, <2>3 DEF WhereInv, ExpiredInv
  <2> QED
    BY <2>4, <2>5, <2>6, <2>7, <2>8 DEF WhereInv
<1>3. CASE Give(c)
  <2>1. PICK u : u = holds[c]
    OBVIOUS
  <2>2. /\ arg' = arg \cup {u} /\ holds' = [holds EXCEPT ![c] = None]
        /\ caller' = [caller EXCEPT ![c] = "idle"] /\ caller[c] = "give"
        /\ Idle' = Idle /\ UNCHANGED <<worker, exit, expired, idle>>
    BY <1>3, <2>1 DEF Give, Goto, Idle, ctlVars, purgeVars
  <2>3. /\ u \in Workers /\ worker[u] = "select" /\ u \notin exit \cup expired \cup Idle
        /\ \A d \in Callers \ {c} : holds[d] # u
    BY <2>1, <2>2, PoolAssumption DEF WhereInv, HeldInv, ExpiredInv
  <2>4. IdleInv'
    BY <2>2, <2>3 DEF WhereInv, IdleInv, Idle
  <2>5. HeldInv'
    BY <2>1, <2>2, <2>3, PoolAssumption DEF WhereInv, HeldInv
  <2>6. TokenInv'
    BY <2>2, <2>3 DEF WhereInv, TokenInv
  <2>7. PlacedInv'
    BY <2>1, <2>2, <2>3 DEF WhereInv, PlacedInv
  <2>8. ExpiredInv'
    BY <2>2, <2>3, PoolAssumption DEF WhereInv, ExpiredInv
  <2> QED
    BY <2>4, <2>5, <2>6, <2>7, <2>8 DEF WhereInv
<1>4. CASE Invoke(c) \/ Grow(c) \/ Overload(c) \/ DecideToWait(c) \/ Wait(c) \/ WokenByRelease(c)
  <2>1. Still
    BY <1>4 DEF Still, Invoke, Grow, Overload, DecideToWait, Wait, WokenByRelease, Goto, Retries,
                workVars, ctlVars, purgeVars
  <2> QED
    BY <2>1, StillKeeps
<1> QED
  BY <1>1, <1>2, <1>3, <1>4 DEF CallerStep

LEMMA WhereWorker ==
  ASSUME TypeOK, ListInv, WhereInv, NEW w \in Workers, WorkerStep(w) \/ Panic(w)
  PROVE  WhereInv'
<1> USE DEF TypeOK
<1>1. CASE Take(w)
  <2>1. /\ worker' = [worker EXCEPT ![w] = "busy"] /\ worker[w] = "select" /\ w \in arg
        /\ arg' = arg \ {w} /\ Idle' = Idle /\ UNCHANGED <<caller, holds, exit, expired, idle>>
    BY <1>1 DEF Take, WorkerGoto, callVars, ctlVars, purgeVars, Idle
  <2>2. w \notin exit \cup expired \cup Idle /\ \A c \in Callers : holds[c] # w
    BY <2>1, PoolAssumption DEF WhereInv, IdleInv, HeldInv, ExpiredInv, TokenInv, Idle
  <2>3. \A i \in 1..Len(idle) : idle[i] # w
    BY <2>2 DEF Idle
  <2>4. IdleInv'
    BY <2>1, <2>3 DEF WhereInv, IdleInv
  <2>5. HeldInv'
    BY <2>1, <2>2, PoolAssumption DEF WhereInv, HeldInv
  <2>6. TokenInv'
    BY <2>1, <2>2 DEF WhereInv, TokenInv
  <2>7. PlacedInv'
    BY <2>1 DEF WhereInv, PlacedInv
  <2>8. ExpiredInv'
    BY <2>1, <2>2 DEF WhereInv, ExpiredInv
  <2> QED
    BY <2>4, <2>5, <2>6, <2>7, <2>8 DEF WhereInv
<1>2. CASE Quit(w)
  <2>1. /\ worker' = [worker EXCEPT ![w] = "leave"] /\ worker[w] = "select" /\ w \in exit
        /\ exit' = exit \ {w} /\ Idle' = Idle /\ UNCHANGED <<caller, holds, arg, expired, idle>>
    BY <1>2 DEF Quit, WorkerGoto, callVars, ctlVars, purgeVars, Idle
  <2>2. w \notin arg \cup expired \cup Idle /\ \A c \in Callers : holds[c] # w
    BY <2>1, PoolAssumption DEF WhereInv, IdleInv, HeldInv, ExpiredInv, TokenInv, Idle
  <2>3. \A i \in 1..Len(idle) : idle[i] # w
    BY <2>2 DEF Idle
  <2>4. IdleInv'
    BY <2>1, <2>3 DEF WhereInv, IdleInv
  <2>5. HeldInv'
    BY <2>1, <2>2, PoolAssumption DEF WhereInv, HeldInv
  <2>6. TokenInv'
    BY <2>1, <2>2 DEF WhereInv, TokenInv
  <2>7. PlacedInv'
    BY <2>1 DEF WhereInv, PlacedInv
  <2>8. ExpiredInv'
    BY <2>1, <2>2 DEF WhereInv, ExpiredInv
  <2> QED
    BY <2>4, <2>5, <2>6, <2>7, <2>8 DEF WhereInv
<1>3. CASE Return(w) \/ Surplus(w) \/ Keep(w) \/ Leave(w) \/ Panic(w)
           \/ (Insert(w) /\ UNCHANGED idle)
  <2>1. /\ worker[w] # "select" /\ UNCHANGED <<holds, arg, exit, expired, idle>> /\ Idle' = Idle
        /\ \E pc \in WorkerPCs \ {"select"} : worker' = [worker EXCEPT ![w] = pc]
    <3>1. CASE Insert(w) /\ UNCHANGED idle
      <4>1. idle # Append(idle, w)
        BY AppendFacts
      <4> QED
        BY <3>1, <4>1 DEF Insert, WorkerGoto, WorkerPCs, Idle, ctlVars, purgeVars
    <3> QED
      BY <1>3, <3>1 DEF Return, Surplus, Keep, Leave, Panic, WorkerGoto, WorkerPCs, callVars, Idle,
                        ctlVars, purgeVars
  <2>2. \A c \in Callers : caller'[c] = "give" <=> caller[c] = "give"
    <3>1. CASE CallersStay
      BY <3>1 DEF CallersStay
    <3>2. CASE UNCHANGED caller
      BY <3>2
    <3> QED
      BY <1>3, <3>1, <3>2, WakeSteps DEF WakeStep, Return, Keep, Leave, Panic, callVars
  <2>3. w \notin arg \cup exit \cup expired \cup Idle /\ \A c \in Callers : holds[c] # w
    BY <2>1, PoolAssumption DEF WhereInv, IdleInv, HeldInv, ExpiredInv, TokenInv, Idle
  <2> QED
    BY <2>1, <2>2, <2>3, PoolAssumption
       DEF WhereInv, IdleInv, HeldInv, ExpiredInv, TokenInv, PlacedInv, Idle
<1>4. CASE Insert(w) /\ idle' # idle
  <2>1. /\ worker' = [worker EXCEPT ![w] = "select"] /\ worker[w] = "insert"
        /\ idle' = Append(idle, w) /\ UNCHANGED <<holds, arg, exit, expired>>
        /\ \A c \in Callers : caller'[c] = "give" <=> caller[c] = "give"
    BY <1>4, WakeSteps DEF WakeStep, Insert, WorkerGoto, CallersStay, ctlVars, purgeVars
  <2>2. w \notin arg \cup exit \cup expired \cup Idle /\ \A c \in Callers : holds[c] # w
    BY <2>1, PoolAssumption DEF WhereInv, IdleInv, HeldInv, ExpiredInv, TokenInv, Idle
  <2>3. /\ Len(idle) \in Nat /\ Len(idle') = Len(idle) + 1 /\ idle'[Len(idle) + 1] = w
        /\ \A i \in 1..Len(idle) : idle'[i] = idle[i] /\ idle[i] # w
    BY <2>1, <2>2, AppendFacts DEF Idle
  <2>4. Idle' = Idle \cup {w}
    BY <2>3 DEF Idle
  <2>5. IdleInv'
    BY <2>1, <2>2, <2>3 DEF WhereInv, IdleInv
  <2> QED
    BY <2>1, <2>2, <2>4, <2>5, PoolAssumption
       DEF WhereInv, HeldInv, ExpiredInv, TokenInv, PlacedInv
<1> QED
  BY <1>1, <1>2, <1>3, <1>4 DEF WorkerStep

(* The expired workers go from the stack into the hands of the purge         *)
(* goroutine...                                                              *)
LEMMA WhereRefresh ==
  ASSUME TypeOK, WhereInv, PurgeInv, PurgeRefresh
  PROVE  WhereInv'
<1> USE DEF TypeOK
<1>1. PICK n \in 0..Len(idle) :
        /\ idle' = SubSeq(idle, n + 1, Len(idle))
        /\ expired' = {idle[i] : i \in 1..n}
  BY DEF PurgeRefresh, Unexpired
<1>2. /\ Len(idle) \in Nat /\ Len(idle') = Len(idle) - n
      /\ \A i \in 1..Len(idle) - n : idle'[i] = idle[n + i]
  BY <1>1, PartFacts
<1>3. UNCHANGED <<caller, holds, worker, arg, exit>> /\ expired = {}
  BY DEF PurgeRefresh, PurgeInv, callVars, workVars
<1>4. /\ Idle = Idle' \cup {idle[i] : i \in 1..n}
      /\ \A i \in 1..n : idle[i] \notin Idle'
  <2>1. ASSUME NEW j \in 1..Len(idle') PROVE idle'[j] \in Idle
    <3>1. n + j \in 1..Len(idle) /\ idle'[j] = idle[n + j]
      BY <1>2
    <3> QED
      BY <3>1 DEF Idle
  <2>2. ASSUME NEW i \in 1..Len(idle), i > n PROVE idle[i] \in Idle'
    <3>1. i - n \in 1..Len(idle') /\ idle'[i - n] = idle[i]
      BY <1>2, <2>2
    <3> QED
      BY <3>1 DEF Idle
  <2>3. ASSUME NEW i \in 1..n, NEW j \in 1..Len(idle') PROVE idle'[j] # idle[i]
    <3>1. n + j \in 1..Len(idle) /\ i \in 1..Len(idle) /\ n + j # i /\ idle'[j] = idle[n + j]
      BY <1>2
    <3> QED
      BY <3>1 DEF WhereInv, IdleInv
  <2>4. ASSUME NEW i \in 1..Len(idle) PROVE idle[i] \in Idle' \cup {idle[k] : k \in 1..n}
    <3>1. CASE i > n
      BY <2>2, <3>1
    <3>2. CASE ~(i > n)
      <4>1. i \in 1..n
        BY <1>2, <3>2
      <4> QED
        BY <4>1
    <3> QED
      BY <3>1, <3>2
  <2>5. ASSUME NEW i \in 1..n PROVE idle[i] \in Idle
    <3>1. i \in 1..Len(idle)
      BY <1>2
    <3> QED
      BY <3>1 DEF Idle
  <2>6. Idle = Idle' \cup {idle[k] : k \in 1..n}
    BY <2>1, <2>4, <2>5 DEF Idle
  <2> QED
    BY <2>3, <2>6 DEF Idle
<1>5. IdleInv'
  <2>1. ASSUME NEW i \in 1..Len(idle'), NEW j \in 1..Len(idle'), idle'[i] = idle'[j]
        PROVE  i = j
    <3>1. /\ n + i \in 1..Len(idle) /\ n + j \in 1..Len(idle) /\ idle[n + i] = idle[n + j]
      BY <1>2, <2>1
    <3>2. n + i = n + j
      BY <3>1 DEF WhereInv, IdleInv
    <3> QED
      BY <1>2, <3>2
  <2>2. ASSUME NEW i \in 1..Len(idle')
        PROVE  worker'[idle'[i]] = "select" /\ idle'[i] \notin arg' \cup exit'
    <3>1. n + i \in 1..Len(idle) /\ idle'[i] = idle[n + i] /\ idle'[i] \in Idle'
      BY <1>2 DEF Idle
    <3> QED
      BY <1>1, <1>3, <1>4, <3>1 DEF WhereInv, IdleInv
  <2> QED
    BY <2>1, <2>2 DEF IdleInv
<1>6. HeldInv' /\ PlacedInv' /\ TokenInv'
  BY <1>1, <1>3, <1>4 DEF WhereInv, HeldInv, PlacedInv, TokenInv
<1>7. ExpiredInv'
  <2>1. ASSUME NEW i \in 1..n
        PROVE  /\ worker[idle[i]] = "select" /\ idle[i] \notin arg \cup exit \cup Idle'
               /\ \A c \in Callers : holds[c] # idle[i]
    <3>1. i \in 1..Len(idle) /\ idle[i] \in Workers
      BY <1>2
    <3>2. idle[i] \in Idle
      BY <3>1 DEF Idle
    <3> QED
      BY <1>4, <3>1, <3>2, PoolAssumption DEF WhereInv, IdleInv, HeldInv
  <2> QED
    BY <1>1, <1>3, <2>1 DEF ExpiredInv
<1> QED
  BY <1>5, <1>6, <1>7 DEF WhereInv

(* ...and out of them one by one, each behind a token.                       *)
LEMMA WhereFinish ==
  ASSUME TypeOK, WhereInv, NEW w \in Workers, PurgeFinish(w)
  PROVE  WhereInv'
<1>1. /\ w \in expired /\ exit' = exit \cup {w} /\ expired' = expired \ {w} /\ Idle' = Idle
      /\ UNCHANGED <<caller, holds, worker, arg, idle>>
  BY DEF PurgeFinish, callVars, Idle
<1>2. /\ worker[w] = "select" /\ w \notin arg \cup Idle
      /\ \A c \in Callers : holds[c] # w
  BY <1>1 DEF WhereInv, ExpiredInv
<1>3. IdleInv'
  BY <1>1, <1>2 DEF WhereInv, IdleInv, Idle
<1>4. HeldInv' /\ ExpiredInv' /\ TokenInv' /\ PlacedInv'
  BY <1>1, <1>2 DEF WhereInv, HeldInv, ExpiredInv, TokenInv, PlacedInv
<1> QED
  BY <1>3, <1>4 DEF WhereInv

LEMMA WhereStep == TypeOK /\ ListInv /\ WhereInv /\ PurgeInv /\ [Next]_vars => WhereInv'
<1> SUFFICES ASSUME TypeOK, ListInv, WhereInv, PurgeInv, [Next]_vars PROVE WhereInv'
  OBVIOUS
<1>1. CASE ReleaseReset
  <2>1. /\ idle' = <<>> /\ exit' = exit \cup Idle /\ Idle' = {}
        /\ UNCHANGED <<caller, holds, worker, arg, expired>>
    BY <1>1, EmptyFacts DEF ReleaseReset, Idle, callVars, purgeVars
  <2>2. IdleInv'
    BY <2>1, EmptyFacts DEF IdleInv
  <2>3. HeldInv' /\ ExpiredInv' /\ TokenInv' /\ PlacedInv'
    BY <2>1 DEF WhereInv, IdleInv, HeldInv, ExpiredInv, TokenInv, PlacedInv, Idle
  <2> QED
    BY <2>2, <2>3 DEF WhereInv
<1>2. CASE Still
  BY <1>2, StillKeeps
<1>3. CASE LastSignal \/ PurgeWake \/ ReleaseBroadcast \/ TuneWakes
  <2>1. \A c \in Callers : caller'[c] = "give" <=> caller[c] = "give"
    BY <1>3, WakeSteps DEF WakeStep, CallersStay
  <2>2. UNCHANGED <<holds, worker, arg, exit, expired, idle>>
    BY <1>3 DEF LastSignal, PurgeWake, ReleaseBroadcast, TuneWakes, workVars, ctlVars, purgeVars
  <2> QED
    BY <1>2, <2>1, <2>2 DEF Still
<1>4. CASE PurgeTick \/ PurgeCheck \/ PurgeEnds \/ Release \/ ReleaseCheck \/ ReleaseReturns
           \/ (\E n \in Sizes : Tune(n))
           \/ UNCHANGED vars
  <2>1. Still
    BY <1>4 DEF Still, PurgeTick, PurgeCheck, PurgeEnds, Release, ReleaseCheck, ReleaseReturns,
                Tune, vars, callVars, workVars, ctlVars, purgeVars
  <2> QED
    BY <1>2, <2>1
<1> QED
  BY <1>1, <1>3, <1>4, WhereCaller, WhereWorker, WhereRefresh, WhereFinish
     DEF Next, PurgeStep, ReleaseStep

LEMMA PurgeInvStep == PurgeInv /\ [Next]_vars => PurgeInv'
<1> SUFFICES ASSUME PurgeInv, [Next]_vars PROVE PurgeInv'
  OBVIOUS
<1>1. CASE UNCHANGED <<purge, expired>>
  BY <1>1 DEF PurgeInv
<1>2. CASE PurgeStep
  BY <1>2 DEF PurgeStep, PurgeTick, PurgeRefresh, PurgeFinish, PurgeCheck, PurgeWake, PurgeEnds,
              PurgeInv, Behind
<1> QED
  BY <1>1, <1>2
     DEF Next, vars, ctlVars, purgeVars, CallerStep, Invoke, Detach, Grow, Run, Overload,
         DecideToWait, Wait, WokenByRelease, Give, WorkerStep, Take, Quit, Return, Surplus, Keep,
         Insert, Leave, Panic, LastSignal, Release, ReleaseStep, ReleaseReset, ReleaseBroadcast,
         ReleaseCheck, ReleaseReturns, Tune, TuneWakes

-----------------------------------------------------------------------------
(* Counts, capacity and the progress of Release. *)

LEMMA CountStep == TypeOK /\ CountInv /\ [Next]_vars => CountInv'
<1> SUFFICES ASSUME TypeOK, CountInv, [Next]_vars PROVE CountInv'
  OBVIOUS
<1> USE DEF TypeOK
<1>1. ASSUME NEW c \in Callers, Run(c) PROVE CountInv'
  <2>1. PICK u \in Workers : worker[u] = "off" /\ worker' = [worker EXCEPT ![u] = "select"]
    BY <1>1 DEF Run
  <2>2. Live' = Live \cup {u} /\ u \notin Live
    BY <2>1 DEF Live
  <2>3. running' = running + 1
    BY <1>1 DEF Run
  <2> QED
    BY <2>2, <2>3, Finite, CountFacts DEF CountInv
<1>2. ASSUME NEW w \in Workers, WorkerStep(w) \/ Panic(w) PROVE CountInv'
  <2>1. CASE Leave(w)
    <3>1. Live' = Live \ {w} /\ w \in Live
      BY <2>1 DEF Leave, WorkerGoto, Live
    <3>2. running' = running - 1
      BY <2>1 DEF Leave
    <3> QED
      BY <3>1, <3>2, Finite, CountFacts DEF CountInv
  <2>2. CASE ~Leave(w)
    <3>1. /\ UNCHANGED running /\ worker[w] # "off"
          /\ \E pc \in WorkerPCs \ {"off"} : worker' = [worker EXCEPT ![w] = pc]
      BY <1>2, <2>2 DEF WorkerStep, Take, Quit, Return, Surplus, Keep, Insert, Panic, WorkerGoto,
                        WorkerPCs
    <3>2. Live' = Live
      BY <3>1 DEF Live
    <3> QED
      BY <3>1, <3>2 DEF CountInv
  <2> QED
    BY <2>1, <2>2
<1>3. CASE UNCHANGED <<worker, running>>
  BY <1>3 DEF CountInv, Live
<1> QED
  BY <1>1, <1>2, <1>3
     DEF Next, vars, workVars, CallerStep, Invoke, Detach, Grow, Overload, DecideToWait, Wait,
         WokenByRelease, Give, LastSignal, PurgeStep, PurgeTick, PurgeRefresh, PurgeFinish,
         PurgeCheck, PurgeWake, PurgeEnds, Release, ReleaseStep, ReleaseReset, ReleaseBroadcast,
         ReleaseCheck, ReleaseReturns, Tune,
         TuneWakes

LEMMA CapacityStep ==
  TypeOK /\ CapacityInv /\ [Next]_vars => CapacityInv' /\ Capacities \subseteq Capacities'
<1> SUFFICES ASSUME TypeOK, CapacityInv, [Next]_vars
             PROVE  CapacityInv' /\ Capacities \subseteq Capacities'
  OBVIOUS
<1>1. ASSUME NEW n \in Sizes, Tune(n) PROVE CapacityInv' /\ Capacities \subseteq Capacities'
  <2>1. capacity' = n /\ tunes' = tunes + 1 /\ tunes \in Nat
    BY <1>1 DEF Tune, TypeOK
  <2>2. tunes' # 0
    BY <2>1
  <2> QED
    BY <2>1, <2>2 DEF CapacityInv, Capacities
<1>2. CASE UNCHANGED <<capacity, tunes>>
  BY <1>2 DEF CapacityInv, Capacities
<1> QED
  BY <1>1, <1>2
     DEF Next, vars, ctlVars, CallerStep, Invoke, Detach, Grow, Run, Overload, DecideToWait,
         Wait, WokenByRelease, Give, WorkerStep, Take, Quit, Return, Surplus, Keep, Insert,
         Leave, Panic, LastSignal, PurgeStep, PurgeTick, PurgeRefresh, PurgeFinish, PurgeCheck,
         PurgeWake, PurgeEnds, Release, ReleaseStep,
         ReleaseReset, ReleaseBroadcast, ReleaseCheck, ReleaseReturns, TuneWakes

(* A caller that saw room is one of at most as many as there are callers.    *)
LEMMA RunningStep ==
  TypeOK /\ ListInv /\ CountInv /\ CapacityInv /\ RunningIsBounded /\ [Next]_vars
    => RunningIsBounded'
<1> SUFFICES ASSUME TypeOK, ListInv, CountInv, CapacityInv, RunningIsBounded, [Next]_vars
             PROVE  RunningIsBounded'
  OBVIOUS
<1> USE DEF TypeOK
<1> DEFINE Within(n) == running + Cardinality(Spawning) < n + Cardinality(Callers)
<1>1. PICK n \in Capacities : Within(n)
  BY DEF RunningIsBounded, Spawning
<1>2. Capacities \subseteq Capacities' /\ CapacityInv' /\ running' \in Nat
  BY CapacityStep, CounterTypesStep DEF CounterTypes
<1>3. \A m \in Capacities : m \in Nat \ {0}
  BY PoolAssumption DEF Capacities
<1>4. /\ Cardinality(Spawning) \in Nat /\ Cardinality(Spawning)' \in Nat
      /\ Cardinality(Callers) \in Nat /\ Cardinality(Spawning)' <= Cardinality(Callers)
  BY Finite, PoolAssumption, FS_Subset, FS_CardinalityType DEF Spawning
<1>5. ASSUME running' <= running, Spawning' \subseteq Spawning PROVE RunningIsBounded'
  <2>1. Cardinality(Spawning') <= Cardinality(Spawning)
    BY <1>5, Finite, FS_Subset
  <2>2. Within(n)'
    BY <1>1, <1>2, <1>3, <1>4, <1>5, <2>1
  <2> QED
    BY <1>2, <2>2 DEF RunningIsBounded, Spawning
<1>6. ASSUME NEW c \in Callers, Invoke(c) \/ CallerStep(c) PROVE RunningIsBounded'
  <2>1. CASE Grow(c)
    <3>1. running < capacity /\ running' = running /\ capacity \in Nat
      BY <2>1, <1>3 DEF Grow, HasRoom, CapacityInv
    <3>2. running' + Cardinality(Spawning)' < capacity + Cardinality(Callers)
      BY <1>2, <1>4, <3>1
    <3> QED
      BY <1>2, <3>2 DEF RunningIsBounded, CapacityInv, Spawning
  <2>2. CASE Run(c)
    <3>1. running' = running + 1
      BY <2>2 DEF Run
    <3>2. c \in Spawning /\ Spawning' = Spawning \ {c}
      BY <2>2 DEF Run, Goto, Spawning
    <3>3. Cardinality(Spawning') = Cardinality(Spawning) - 1
      BY <3>2, Finite, CountFacts
    <3>4. Within(n)'
      BY <1>1, <1>2, <1>3, <1>4, <3>1, <3>3
    <3> QED
      BY <1>2, <3>4 DEF RunningIsBounded, Spawning
  <2>3. CASE Invoke(c) \/ Detach(c) \/ Overload(c) \/ DecideToWait(c) \/ Wait(c)
             \/ WokenByRelease(c) \/ Give(c)
    <3>1. running' = running /\ Spawning' \subseteq Spawning
      BY <2>3 DEF Invoke, Detach, Overload, DecideToWait, Wait, WokenByRelease, Give, Goto, Spawning
    <3> QED
      BY <1>5, <3>1
  <2> QED
    BY <1>6, <2>1, <2>2, <2>3 DEF CallerStep
<1>7. CASE WakeStep
  <2>1. running' = running
    BY <1>7 DEF WakeStep, Surplus, Insert, LastSignal, PurgeWake, ReleaseBroadcast, TuneWakes
  <2>2. Spawning' \subseteq Spawning
    BY <1>7, WakeSteps DEF CallersStay, Spawning
  <2> QED
    BY <1>5, <2>1, <2>2
<1>8. ASSUME UNCHANGED caller, running' \in {running, running - 1} PROVE RunningIsBounded'
  <2>1. running' <= running /\ Spawning' \subseteq Spawning
    BY <1>8 DEF Spawning
  <2> QED
    BY <1>5, <2>1
<1> QED
  BY <1>6, <1>7, <1>8
     DEF Next, vars, callVars, WakeStep, WorkerStep, Take, Quit, Return, Keep, Leave, Panic,
         PurgeStep, PurgeTick, PurgeRefresh, PurgeFinish, PurgeCheck, PurgeEnds, Release,
         ReleaseStep, ReleaseReset, ReleaseCheck, ReleaseReturns, Tune

LEMMA ReleaseInvStep == TypeOK /\ ReleaseInv /\ [Next]_vars => ReleaseInv'
<1> SUFFICES ASSUME TypeOK, ReleaseInv, [Next]_vars PROVE ReleaseInv'
  OBVIOUS
<1> USE DEF TypeOK, ReleaseInv
<1>1. ASSUME NEW c \in Callers, Invoke(c) \/ CallerStep(c) PROVE ReleaseInv'
  <2>1. CASE Detach(c)
    BY <2>1 DEF Detach, ctlVars
  <2>2. CASE ~Detach(c)
    <3>1. UNCHANGED <<closed, release, idle>>
      BY <1>1, <2>2 DEF CallerStep, Invoke, Grow, Run, Overload, DecideToWait, Wait,
                        WokenByRelease, Give, ctlVars
    <3> QED
      BY <3>1
  <2> QED
    BY <2>1, <2>2
<1>2. ASSUME NEW w \in Workers, Insert(w) PROVE ReleaseInv'
  BY <1>2 DEF Insert, TooLate, ctlVars
<1>3. CASE PurgeRefresh
  <2>1. PICK k \in 0..Len(idle) : idle' = SubSeq(idle, k + 1, Len(idle))
    BY <1>3 DEF PurgeRefresh, Unexpired
  <2>2. idle = <<>> => idle' = <<>>
    <3>1. ASSUME idle = <<>> PROVE Len(idle') = 0 /\ idle' \in Seq(Workers)
      BY <2>1, <3>1, PartFacts, EmptyFacts
    <3> QED
      BY <3>1
  <2> QED
    BY <1>3, <2>2 DEF PurgeRefresh
<1>4. CASE Release \/ ReleaseStep
  BY <1>4 DEF Release, ReleaseStep, ReleaseReset, ReleaseBroadcast, ReleaseCheck, ReleaseReturns
<1>5. CASE UNCHANGED <<closed, release, idle>>
  BY <1>5
<1> QED
  BY <1>1, <1>2, <1>3, <1>4, <1>5
     DEF Next, vars, ctlVars, WorkerStep, Take, Quit, Return, Surplus, Keep, Leave, Panic,
         LastSignal, PurgeStep, PurgeTick, PurgeFinish, PurgeCheck, PurgeWake, PurgeEnds, Tune,
         TuneWakes

-----------------------------------------------------------------------------
(* The invariant and what follows from it. *)

LEMMA InitInv == Init => IInv
<1> SUFFICES ASSUME Init PROVE IInv
  OBVIOUS
<1> USE DEF Init
<1>1. TypeOK
  BY EmptyFacts, PoolAssumption DEF TypeOK, CallerPCs, WorkerPCs
<1>2. ListInv /\ IdleInv /\ ExpiredInv /\ TokenInv /\ PlacedInv /\ PurgeInv
  BY EmptyFacts DEF ListInv, IdleInv, ExpiredInv, TokenInv, PlacedInv, PurgeInv
<1>3. HeldInv
  BY PoolAssumption DEF HeldInv
<1>4. Live = {} /\ Spawning = {}
  BY DEF Live, Spawning
<1>5. CountInv
  BY <1>4, FS_EmptySet DEF CountInv
<1>6. CapacityInv
  BY DEF CapacityInv, Capacities
<1>7. RunningIsBounded
  <2>1. /\ Size \in Capacities /\ Size \in Nat \ {0} /\ Cardinality(Callers) \in Nat
        /\ Cardinality({c \in Callers : caller[c] = "spawn"}) = 0
    BY <1>4, PoolAssumption, FS_EmptySet, FS_CardinalityType DEF Capacities, Spawning
  <2>2. running + Cardinality({c \in Callers : caller[c] = "spawn"}) < Size + Cardinality(Callers)
    BY <2>1
  <2> QED
    BY <2>1, <2>2 DEF RunningIsBounded
<1>8. ReleaseInv
  BY DEF ReleaseInv
<1> QED
  BY <1>1, <1>2, <1>3, <1>5, <1>6, <1>7, <1>8 DEF IInv

LEMMA StepInv == IInv /\ [Next]_vars => IInv'
<1> SUFFICES ASSUME IInv, [Next]_vars PROVE IInv'
  OBVIOUS
<1>1. TypeOK' /\ ListInv' /\ CountInv' /\ CapacityInv' /\ RunningIsBounded' /\ ReleaseInv'
  BY CallTypesStep, WorkTypesStep, CounterTypesStep, ControlTypesStep, TypeParts, ListStep,
     CountStep, CapacityStep, RunningStep, ReleaseInvStep
     DEF IInv, TypeOK, CallTypes, WorkTypes, CounterTypes, ControlTypes
<1>2. WhereInv' /\ PurgeInv'
  BY WhereStep, PurgeInvStep DEF IInv, WhereInv
<1> QED
  BY <1>1, <1>2 DEF IInv, WhereInv

(* The invariant holds of every behaviour of the pool. *)
THEOREM Inductive == Spec => []IInv
  BY InitInv, StepInv, PTL DEF Spec

(* The variables of the pool keep their types; running counts the goroutines *)
(* and so never goes below zero.                                             *)
THEOREM TypeCorrect == Spec => []TypeOK
<1>1. IInv => TypeOK
  BY DEF IInv
<1> QED
  BY <1>1, Inductive, PTL

(* Neither the purge goroutine nor Release nor a reused worker object leaves *)
(* a job in a channel that nobody reads.                                     *)
THEOREM NoJobLeftBehind == Spec => []NoJobIsStranded
<1>1. IInv => NoJobIsStranded
  BY DEF IInv, TokenInv, ExpiredInv, NoJobIsStranded
<1> QED
  BY <1>1, Inductive, PTL

(* The capacity check of retrieveWorker and the later incRunning together    *)
(* exceed the capacity by less than the number of callers.                   *)
THEOREM PoolStaysSmall == Spec => []RunningIsBounded
<1>1. IInv => RunningIsBounded
  BY DEF IInv
<1> QED
  BY <1>1, Inductive, PTL

(* After reset, every waiting worker was told to leave, or will be by the    *)
(* purge goroutine, or is still in the hands of a caller or a job.           *)
THEOREM ReleaseMissesNoWorker == Spec => []ReleaseReachesAll
<1>1. IInv => ReleaseReachesAll
  <2> SUFFICES ASSUME IInv, release \notin {"none", "reset"} PROVE Idle = {} /\ PlacedInv
    BY DEF ReleaseReachesAll, PlacedInv
  <2>1. idle = <<>>
    BY DEF IInv, ReleaseInv
  <2> QED
    BY <2>1, EmptyFacts DEF IInv, Idle
<1> QED
  BY <1>1, Inductive, PTL
=============================================================================

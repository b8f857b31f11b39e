-------------------------- MODULE PrefQueueProofs --------------------------
(***************************************************************************)
(* The UL1 prefetch request queue, for every ring size, schedule, knob and *)
(* number of cores.                                                        *)
(*                                                                         *)
(* NoLineTwice is not inductive: a request that was sent leaves its line   *)
(* behind, and the add filter matches that too, so the invariant is about  *)
(* all slots (OneSlotPerLine).  Nor is BoundedOvertaking: what bounds the  *)
(* number of requests sent before the one in slot s is how far send_pos    *)
(* still has to walk to reach s (WalkBound).                               *)
(***************************************************************************)
EXTENDS PrefQueue, TLAPS

Distance(s) == IF s >= send_pos THEN s - send_pos ELSE s + QueueSize - send_pos

OneSlotPerLine ==
  AddFilterOn =>
    \A s, t \in Slots :
      /\ ul1req_queue[s].line_index # NoLine
      /\ ul1req_queue[s].line_index = ul1req_queue[t].line_index
      => s = t

WalkBound ==
  \A s \in Slots :
    IF ul1req_queue[s].valid THEN passed[s] + Distance(s) < QueueSize
                             ELSE passed[s] = 0

IInv == TypeOK /\ OneSlotPerLine /\ WalkBound /\ RoomForDemands

----------------------------------------------------------------------------
(* The ring and the loop.                                                  *)

\* The position after a slot, or after "none yet", is a slot.
LEMMA SuccIsSlot == \A i \in Slots \cup {-1} : Succ(i) \in Slots
  BY QueueAssumption DEF Slots, Succ

\* The request at the head belongs to a core.
LEMMA HeadHasCore ==
  ASSUME TypeOK, Head.valid
  PROVE  HeadCore \in Cores
  BY QueueAssumption DEF TypeOK, Head, HeadCore, Slots

\* A step of send_pos brings it one closer to every other slot.
LEMMA StepCloser ==
  ASSUME send_pos \in Slots, send_pos' = Succ(send_pos),
         NEW s \in Slots, s # send_pos
  PROVE  Distance(s)' = Distance(s) - 1
  BY QueueAssumption DEF Slots, Succ, Distance

\* A slot is less than a full turn away.
LEMMA DistanceBound ==
  ASSUME send_pos \in Slots, NEW s \in Slots
  PROVE  Distance(s) \in Nat /\ Distance(s) < QueueSize
  BY QueueAssumption DEF Slots, Distance

----------------------------------------------------------------------------
LEMMA InitIInv == Init => IInv
<1> SUFFICES ASSUME Init PROVE IInv OBVIOUS
<1>1. TypeOK
  BY QueueAssumption DEF Init, TypeOK, Slots, Free, Count
<1>2. OneSlotPerLine
  BY DEF Init, OneSlotPerLine, Free
<1>3. WalkBound
  BY DEF Init, WalkBound, Free
<1>4. RoomForDemands
  BY DEF Init, RoomForDemands
<1> QED BY <1>1, <1>2, <1>3, <1>4 DEF IInv

\* Three of the calls' outcomes leave everything as it is.
LEMMA StutterStep ==
  ASSUME IInv, UNCHANGED vars
  PROVE  IInv'
BY DEF vars, queueVars, memoryVars, IInv, TypeOK, OneSlotPerLine, WalkBound,
       RoomForDemands, Distance, Count

LEMMA AddQueuedStep ==
  ASSUME IInv, NEW line \in Lines, AddQueued(line)
  PROVE  IInv'
<1> DEFINE new == Succ(req_pos)
<1>1. new \in Slots
  BY SuccIsSlot DEF IInv, TypeOK
<1>2. /\ ul1req_queue' = [ul1req_queue EXCEPT ![new] =
                            [valid |-> TRUE, line_index |-> line]]
      /\ passed' = [passed EXCEPT ![new] = 0]
      /\ req_pos' = new
      /\ UNCHANGED <<send_pos, turns, buffer, others>>
  BY DEF AddQueued, memoryVars
<1>3. AddFilterOn => ~ Matches(line)
  BY DEF AddQueued
<1>4. TypeOK
  BY DEF IInv
<1> HIDE DEF new
<1>5. TypeOK'
  BY <1>1, <1>2, <1>4, QueueAssumption DEF TypeOK, Count
<1>6. OneSlotPerLine'
  BY <1>1, <1>2, <1>3, <1>4 DEF IInv, OneSlotPerLine, Matches, TypeOK
<1>7. WalkBound'
  <2> SUFFICES ASSUME NEW s \in Slots
               PROVE  (IF ul1req_queue[s].valid
                         THEN passed[s] + Distance(s) < QueueSize
                         ELSE passed[s] = 0)'
    BY DEF WalkBound
  <2>1. Distance(s)' = Distance(s)
    BY <1>2 DEF Distance
  <2>2. Distance(s) \in Nat /\ Distance(s) < QueueSize
    BY <1>4, DistanceBound DEF TypeOK
  <2>3. CASE s = new
    BY <1>1, <1>2, <1>4, <2>1, <2>2, <2>3 DEF TypeOK
  <2>4. CASE s # new
    BY <1>1, <1>2, <1>4, <2>1, <2>4 DEF TypeOK, IInv, WalkBound
  <2> QED BY <2>3, <2>4
<1>8. RoomForDemands'
  BY <1>2 DEF IInv, RoomForDemands
<1> QED BY <1>5, <1>6, <1>7, <1>8 DEF IInv

\* The loop starts, stalls or is refused: only turns changes.
LEMMA LoopStep ==
  ASSUME IInv, StartUpdate \/ Stall \/ SendRejected
  PROVE  IInv'
<1>1. /\ UNCHANGED <<ul1req_queue, req_pos, send_pos, buffer, others, passed>>
      /\ turns' \in {0, ScheduleNum}
  BY DEF StartUpdate, Stall, SendRejected, queueVars
<1>2. TypeOK'
  <2>1. turns' \in 0 .. ScheduleNum
    BY <1>1, QueueAssumption
  <2> QED BY <1>1, <2>1 DEF IInv, TypeOK, Count
<1>3. (OneSlotPerLine /\ WalkBound /\ RoomForDemands)'
  BY <1>1 DEF IInv, OneSlotPerLine, WalkBound, RoomForDemands, Distance
<1> QED BY <1>2, <1>3 DEF IInv

LEMMA FreeSlotStep ==
  ASSUME IInv, LookAtFreeSlot
  PROVE  IInv'
<1>1. /\ UNCHANGED <<ul1req_queue, req_pos, buffer, others, passed>>
      /\ send_pos' = Succ(send_pos)
      /\ turns > 0 /\ turns' = turns - 1
      /\ ~ ul1req_queue[send_pos].valid
  BY DEF LookAtFreeSlot, queueVars, Head, NextSlot
<1>2. TypeOK
  BY DEF IInv
<1>3. TypeOK'
  BY <1>1, <1>2, SuccIsSlot, QueueAssumption DEF TypeOK, Count
<1>4. WalkBound'
  <2> SUFFICES ASSUME NEW s \in Slots
               PROVE  (IF ul1req_queue[s].valid
                         THEN passed[s] + Distance(s) < QueueSize
                         ELSE passed[s] = 0)'
    BY DEF WalkBound
  <2>1. CASE s = send_pos
    BY <1>1, <2>1 DEF IInv, WalkBound
  <2>2. CASE s # send_pos
    <3>1. Distance(s)' = Distance(s) - 1
      BY <1>1, <1>2, <2>2, StepCloser DEF TypeOK
    <3>2. Distance(s) \in Nat /\ passed[s] \in Nat
      BY <1>2, DistanceBound DEF TypeOK
    <3> QED BY <1>1, <3>1, <3>2, QueueAssumption DEF IInv, WalkBound
  <2> QED BY <2>1, <2>2
<1>5. (OneSlotPerLine /\ RoomForDemands)'
  BY <1>1 DEF IInv, OneSlotPerLine, RoomForDemands
<1> QED BY <1>3, <1>4, <1>5 DEF IInv

LEMMA DropStep ==
  ASSUME IInv, Drop
  PROVE  IInv'
<1>1. /\ ul1req_queue' = [ul1req_queue EXCEPT ![send_pos].valid = FALSE]
      /\ passed' = [passed EXCEPT ![send_pos] = 0]
      /\ turns' = 0
      /\ UNCHANGED <<req_pos, send_pos, buffer, others>>
  BY DEF Drop
<1>2. TypeOK
  BY DEF IInv
<1>3. TypeOK'
  <2>1. ul1req_queue' \in
          [Slots -> [valid: BOOLEAN, line_index: Lines \cup {NoLine}]]
    BY <1>1, <1>2 DEF TypeOK
  <2>2. \A s \in Slots : ul1req_queue'[s].valid
          => ul1req_queue'[s].line_index # NoLine
    BY <1>1, <1>2 DEF TypeOK
  <2>3. passed' \in [Slots -> Nat] /\ turns' \in 0 .. ScheduleNum
    BY <1>1, <1>2, QueueAssumption DEF TypeOK
  <2> QED BY <1>1, <1>2, <2>1, <2>2, <2>3 DEF TypeOK, Count
<1>4. \A s \in Slots :
        ul1req_queue'[s].line_index = ul1req_queue[s].line_index
  BY <1>1, <1>2 DEF TypeOK
<1>5. OneSlotPerLine'
  BY <1>4 DEF IInv, OneSlotPerLine
<1>6. WalkBound'
  BY <1>1, <1>2 DEF IInv, WalkBound, TypeOK, Distance
<1>7. RoomForDemands'
  BY <1>1 DEF IInv, RoomForDemands
<1> QED BY <1>3, <1>5, <1>6, <1>7 DEF IInv

\* What the two accepted sends have in common.
LEMMA SentQueue ==
  ASSUME IInv, turns > 0, Sent
  PROVE  /\ (OneSlotPerLine /\ WalkBound)'
         /\ UNCHANGED <<req_pos, others>>
         /\ ul1req_queue' \in
              [Slots -> [valid: BOOLEAN, line_index: Lines \cup {NoLine}]]
         /\ \A s \in Slots : ul1req_queue'[s].valid
              => ul1req_queue'[s].line_index # NoLine
         /\ send_pos' \in Slots
         /\ turns' \in 0 .. ScheduleNum
         /\ passed' \in [Slots -> Nat]
<1>1. /\ ul1req_queue' = [ul1req_queue EXCEPT ![send_pos].valid = FALSE]
      /\ passed' = [s \in Slots |->
                      IF s # send_pos /\ ul1req_queue[s].valid
                        THEN passed[s] + 1 ELSE 0]
      /\ send_pos' = Succ(send_pos)
      /\ turns' = turns - 1
      /\ UNCHANGED <<req_pos, others>>
  BY DEF Sent, NextSlot
<1>2. TypeOK
  BY DEF IInv
<1>3. \A s \in Slots :
        /\ ul1req_queue'[s].line_index = ul1req_queue[s].line_index
        /\ ul1req_queue'[s].valid = (s # send_pos /\ ul1req_queue[s].valid)
  BY <1>1, <1>2 DEF TypeOK
<1>4. OneSlotPerLine'
  BY <1>3 DEF IInv, OneSlotPerLine
<1>5. WalkBound'
  <2> SUFFICES ASSUME NEW s \in Slots
               PROVE  (IF ul1req_queue[s].valid
                         THEN passed[s] + Distance(s) < QueueSize
                         ELSE passed[s] = 0)'
    BY DEF WalkBound
  <2>1. CASE s = send_pos \/ ~ ul1req_queue[s].valid
    BY <1>1, <1>3, <2>1
  <2>2. CASE s # send_pos /\ ul1req_queue[s].valid
    <3>1. Distance(s)' = Distance(s) - 1
      BY <1>1, <1>2, <2>2, StepCloser DEF TypeOK
    <3>2. Distance(s) \in Nat /\ passed[s] \in Nat
      BY <1>2, DistanceBound DEF TypeOK
    <3>3. passed[s] + Distance(s) < QueueSize
      BY <2>2 DEF IInv, WalkBound
    <3>4. passed'[s] = passed[s] + 1
      BY <1>1, <2>2
    <3>5. (passed[s] + Distance(s))' < QueueSize
      BY <3>1, <3>2, <3>3, <3>4, QueueAssumption
    <3> QED BY <1>3, <2>2, <3>5
  <2> QED BY <2>1, <2>2
<1>6. ul1req_queue' \in
        [Slots -> [valid: BOOLEAN, line_index: Lines \cup {NoLine}]]
  BY <1>1, <1>2 DEF TypeOK
<1>7. \A s \in Slots : ul1req_queue'[s].valid
        => ul1req_queue'[s].line_index # NoLine
  BY <1>2, <1>3 DEF TypeOK
<1>8. send_pos' \in Slots /\ turns' \in 0 .. ScheduleNum
  BY <1>1, <1>2, SuccIsSlot, QueueAssumption DEF TypeOK
<1>9. passed' \in [Slots -> Nat]
  BY <1>1, <1>2 DEF TypeOK
<1> QED BY <1>1, <1>4, <1>5, <1>6, <1>7, <1>8, <1>9

LEMMA SendMatchedStep ==
  ASSUME IInv, SendMatched
  PROVE  IInv'
<1>1. turns > 0 /\ Sent /\ UNCHANGED buffer
  BY DEF SendMatched
<1>2. TypeOK'
  BY <1>1, SentQueue DEF IInv, TypeOK, Count
<1>3. RoomForDemands'
  BY <1>1 DEF IInv, RoomForDemands
<1> QED BY <1>1, <1>2, <1>3, SentQueue DEF IInv

LEMMA SendAllocatedStep ==
  ASSUME IInv, SendAllocated
  PROVE  IInv'
<1> DEFINE c == HeadCore
<1>1. /\ turns > 0 /\ Sent
      /\ ~ Stalled(c) /\ CanAllocate(c)
      /\ buffer' = [buffer EXCEPT ![c].prefetch = buffer[c].prefetch + 1]
  BY DEF SendAllocated
<1>2. c \in Cores
  BY HeadHasCore DEF IInv, SendAllocated
<1> HIDE DEF c
<1>3. buffer \in [Cores -> [prefetch: Nat, other: Nat]]
  BY DEF IInv, TypeOK
<1>4. /\ buffer' \in [Cores -> [prefetch: Nat, other: Nat]]
      /\ buffer'[c].prefetch = buffer[c].prefetch + 1
      /\ buffer'[c].other = buffer[c].other
      /\ \A d \in Cores \ {c} : buffer'[d] = buffer[d]
  BY <1>1, <1>2, <1>3
<1>5. /\ buffer[c].prefetch \in Nat /\ buffer[c].other \in Nat
      /\ Count(c) = buffer[c].prefetch + buffer[c].other
  BY <1>2, <1>3 DEF Count
<1>6. \A d \in Cores : Count(d)' =< Entries
  <2> SUFFICES ASSUME NEW d \in Cores PROVE Count(d)' =< Entries
    OBVIOUS
  <2>1. CASE d = c
    BY <1>1, <1>4, <1>5, <2>1, QueueAssumption DEF Count, CanAllocate
  <2>2. CASE d # c
    BY <1>4, <2>2 DEF Count, IInv, TypeOK
  <2> QED BY <2>1, <2>2
<1>7. TypeOK'
  BY <1>1, <1>4, <1>6, SentQueue DEF IInv, TypeOK
<1>8. RoomForDemands'
  <2> SUFFICES ASSUME NEW d \in Cores,
                      NEW room \in {PrefWatermark, WBValve, 1,
                                    DemandReserve - 1},
                      buffer'[d].prefetch > 0
               PROVE  buffer'[d].prefetch + room =< Entries
    BY DEF RoomForDemands
  <2>1. CASE d = c
    <3>1. buffer[c].prefetch + PrefWatermark < Entries
      BY <1>1, <1>5, QueueAssumption DEF CanAllocate
    <3>2. buffer[c].prefetch + WBValve < Entries
      BY <1>1, <1>5, QueueAssumption DEF CanAllocate
    <3>3. buffer[c].prefetch + 1 < Entries
      BY <1>1, <1>5, QueueAssumption DEF CanAllocate
    <3>4. buffer[c].prefetch + DemandReserve =< Entries
      BY <1>1, <1>5, QueueAssumption DEF Stalled
    <3> QED BY <1>4, <1>5, <2>1, <3>1, <3>2, <3>3, <3>4, QueueAssumption
  <2>2. CASE d # c
    BY <1>4, <2>2 DEF IInv, RoomForDemands
  <2> QED BY <2>1, <2>2
<1> QED BY <1>1, <1>7, <1>8, SentQueue DEF IInv

\* Between two runs of the loop: no prefetch is added to a buffer.
LEMMA MemoryStep ==
  ASSUME IInv, NEW c \in Cores, NEW b \in [prefetch: Nat, other: Nat],
         Memory(c, b), b.prefetch =< buffer[c].prefetch,
         b.prefetch + b.other =< Entries, others' \in 0 .. MaxOthers
  PROVE  IInv'
<1>1. /\ buffer' = [buffer EXCEPT ![c] = b]
      /\ UNCHANGED <<ul1req_queue, req_pos, passed, send_pos, turns>>
  BY DEF Memory, queueVars
<1>2. buffer \in [Cores -> [prefetch: Nat, other: Nat]]
  BY DEF IInv, TypeOK
<1>3. /\ buffer' \in [Cores -> [prefetch: Nat, other: Nat]]
      /\ buffer'[c] = b
      /\ \A d \in Cores \ {c} : buffer'[d] = buffer[d]
  BY <1>1, <1>2
<1>4. \A d \in Cores : Count(d)' =< Entries
  BY <1>3 DEF Count, IInv, TypeOK
<1>5. TypeOK'
  BY <1>1, <1>3, <1>4 DEF IInv, TypeOK
<1>6. (OneSlotPerLine /\ WalkBound)'
  BY <1>1 DEF IInv, OneSlotPerLine, WalkBound, Distance
<1>7. RoomForDemands'
  <2> SUFFICES ASSUME NEW d \in Cores,
                      NEW room \in {PrefWatermark, WBValve, 1,
                                    DemandReserve - 1},
                      buffer'[d].prefetch > 0
               PROVE  buffer'[d].prefetch + room =< Entries
    BY DEF RoomForDemands
  <2>1. CASE d = c
    <3>1. /\ buffer[c].prefetch \in Nat /\ b.prefetch \in Nat
          /\ room \in Int /\ Entries \in Int
      BY <1>2, QueueAssumption
    <3>2. buffer[c].prefetch > 0
      BY <1>3, <2>1, <3>1
    <3>3. buffer[c].prefetch + room =< Entries
      BY <3>2 DEF IInv, RoomForDemands
    <3> QED BY <1>3, <2>1, <3>1, <3>3
  <2>2. CASE d # c
    BY <1>3, <2>2 DEF IInv, RoomForDemands
  <2> QED BY <2>1, <2>2
<1> QED BY <1>5, <1>6, <1>7 DEF IInv

LEMMA EnvironmentStep ==
  ASSUME IInv, NEW c \in Cores, Occupy(c) \/ Promote(c) \/ Complete(c)
  PROVE  IInv'
<1> DEFINE p == buffer[c].prefetch
           o == buffer[c].other
<1>1. /\ buffer[c] \in [prefetch: Nat, other: Nat]
      /\ p \in Nat /\ o \in Nat /\ p + o =< Entries
      /\ others \in 0 .. MaxOthers
  BY DEF IInv, TypeOK, Count
<1>2. CASE Occupy(c)
  <2>1. Memory(c, [prefetch |-> p, other |-> o + 1])
    BY <1>1, <1>2 DEF Occupy
  <2>2. p + (o + 1) =< Entries
    BY <1>1, <1>2, QueueAssumption DEF Occupy, Count
  <2>3. others' \in 0 .. MaxOthers
    BY <1>1, <1>2, QueueAssumption DEF Occupy
  <2> HIDE DEF p, o
  <2> QED BY <1>1, <2>1, <2>2, <2>3, MemoryStep DEF p
<1>3. CASE Promote(c)
  <2>1. /\ Memory(c, [prefetch |-> p - 1, other |-> o + 1])
        /\ p > 0 /\ others' = others
    BY <1>3 DEF Promote
  <2>2. p - 1 \in Nat /\ (p - 1) + (o + 1) =< Entries /\ p - 1 =< p
    BY <1>1, <2>1, QueueAssumption
  <2> QED BY <1>1, <2>1, <2>2, MemoryStep
<1>4. CASE Complete(c)
  <2>1. others' \in 0 .. MaxOthers
    BY <1>1, <1>4 DEF Complete
  <2>2. CASE p > 0 /\ Memory(c, [buffer[c] EXCEPT !.prefetch = p - 1])
    <3>1. Memory(c, [prefetch |-> p - 1, other |-> o])
      BY <1>1, <2>2
    <3>2. p - 1 \in Nat /\ (p - 1) + o =< Entries /\ p - 1 =< p
      BY <1>1, <2>2, QueueAssumption
    <3> QED BY <1>1, <2>1, <3>1, <3>2, MemoryStep
  <2>3. CASE o > 0 /\ Memory(c, [buffer[c] EXCEPT !.other = o - 1])
    <3>1. Memory(c, [prefetch |-> p, other |-> o - 1])
      BY <1>1, <2>3
    <3>2. o - 1 \in Nat /\ p + (o - 1) =< Entries
      BY <1>1, <2>3, QueueAssumption
    <3> QED BY <1>1, <2>1, <3>1, <3>2, MemoryStep
  <2> QED BY <1>4, <2>2, <2>3 DEF Complete
<1> QED BY <1>2, <1>3, <1>4

----------------------------------------------------------------------------
LEMMA NextIInv == IInv /\ [Next]_vars => IInv'
<1> SUFFICES ASSUME IInv, [Next]_vars PROVE IInv' OBVIOUS
<1>1. CASE AddZero
  BY <1>1, StutterStep DEF AddZero
<1>2. ASSUME NEW line \in Lines, Add(line) PROVE IInv'
  <2>1. CASE AddMatched(line)
    BY <2>1, StutterStep DEF AddMatched
  <2>2. CASE AddRefused(line)
    BY <2>2, StutterStep DEF AddRefused
  <2>3. CASE AddQueued(line)
    BY <2>3, AddQueuedStep
  <2> QED BY <1>2, <2>1, <2>2, <2>3 DEF Add
<1>3. CASE Update
  BY <1>3, LoopStep, FreeSlotStep, DropStep, SendMatchedStep,
     SendAllocatedStep DEF Update, Accept
<1>4. ASSUME NEW c \in Cores, Occupy(c) \/ Promote(c) \/ Complete(c)
      PROVE  IInv'
  BY <1>4, EnvironmentStep
<1>5. CASE UNCHANGED vars
  BY <1>5, StutterStep
<1> QED BY <1>1, <1>2, <1>3, <1>4, <1>5 DEF Next

\* The inductive invariant holds throughout.
THEOREM QueueInvariance == Spec => []IInv
  BY InitIInv, NextIInv, PTL DEF Spec

\* The queue, its positions and the counts of the request buffers keep their
\* types; no core's buffer holds more than its entries.
THEOREM QueueTypeCorrect == Spec => []TypeOK
<1>1. IInv => TypeOK
  BY DEF IInv
<1> QED BY <1>1, QueueInvariance, PTL

\* pref_addto_ul1req_queue never queues a line that is already waiting.
THEOREM NoDuplicateRequests == Spec => []NoLineTwice
<1>1. IInv => NoLineTwice
  BY DEF IInv, OneSlotPerLine, NoLineTwice, TypeOK
<1> QED BY <1>1, QueueInvariance, PTL

\* pref_update sends at most QueueSize - 1 requests before a waiting one.
THEOREM OvertakingBounded == Spec => []BoundedOvertaking
<1>1. IInv => BoundedOvertaking
  <2> SUFFICES ASSUME IInv, NEW s \in Slots PROVE passed[s] < QueueSize
    BY DEF BoundedOvertaking
  <2>1. passed[s] \in Nat /\ Distance(s) \in Nat
    BY DistanceBound DEF IInv, TypeOK
  <2> QED BY <2>1, QueueAssumption DEF IInv, WalkBound
<1> QED BY <1>1, QueueInvariance, PTL

\* Prefetches leave the reserved entries of every request buffer alone.
THEOREM ReserveRespected == Spec => []RoomForDemands
<1>1. IInv => RoomForDemands
  BY DEF IInv
<1> QED BY <1>1, QueueInvariance, PTL
=============================================================================

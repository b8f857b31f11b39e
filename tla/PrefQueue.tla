----------------------------- MODULE PrefQueue -----------------------------
(***************************************************************************)
(* The UL1 prefetch request queue of the prefetch framework                *)
(* (pref_common.c): a ring of request slots that the prefetchers fill and  *)
(* pref_update drains, a few slots per cycle, into the memory request      *)
(* buffers of the cores that share the queue.                              *)
(*                                                                         *)
(* The ring is not a FIFO: send_pos walks over free slots too, past        *)
(* req_pos, so it may stand anywhere when a request arrives.  One thread   *)
(* runs it all: requests arrive, and memory moves, between two runs of the *)
(* loop, never inside one.                                                 *)
(***************************************************************************)
EXTENDS Integers, FiniteSets

CONSTANTS
  Cores, Lines,     \* the cores that share this queue, the lines they want
  CoreOf,           \* line -> core, the top bits of the line address
  NoLine,           \* line_index 0: "no address", and what calloc leaves
  QueueSize,        \* PREF_UL1REQ_QUEUE_SIZE
  ScheduleNum,      \* PREF_UL1SCHEDULE_NUM
  AddFilterOn, OverwriteOnFull, ReqDrop,     \* knobs of pref.param.def
  DemandReserve,    \* PREF_L1Q_DEMAND_RESERVE
  Entries,          \* MEM_REQ_BUFFER_ENTRIES, of each core
  PrefWatermark,    \* MEM_REQ_BUFFER_PREF_WATERMARK
  WBValve,          \* MEM_REQ_BUFFER_WB_VALVE
  MaxOthers         \* bound: requests of the cores themselves

ASSUME QueueAssumption ==
  /\ QueueSize \in Nat \ {0} /\ ScheduleNum \in Nat \ {0}
  /\ NoLine \notin Lines
  /\ CoreOf \in [Lines -> Cores]
  /\ {AddFilterOn, OverwriteOnFull, ReqDrop} \subseteq BOOLEAN
  /\ DemandReserve \in Nat /\ Entries \in Nat
  /\ PrefWatermark \in Nat /\ WBValve \in Nat /\ MaxOthers \in Nat

VARIABLES
  ul1req_queue,  \* the slots
  req_pos,       \* last slot filled, -1 before the first
  send_pos,      \* next slot to look at
  turns,         \* iterations left in this pref_update, 0 outside of it
  buffer,        \* request buffer of each core: prefetches and others in it
  others,        \* requests the cores themselves have made (bound)
  passed         \* history: requests sent since the slot was filled

queueVars == <<ul1req_queue, req_pos, passed>>
memoryVars == <<buffer, others>>
vars == <<queueVars, send_pos, turns, memoryVars>>

Slots == 0 .. QueueSize - 1
Free == [valid |-> FALSE, line_index |-> NoLine]

Succ(i) == IF i + 1 = QueueSize THEN 0 ELSE i + 1

Pending == {ul1req_queue[s].line_index :
              s \in {t \in Slots : ul1req_queue[t].valid}}

Count(c) == buffer[c].prefetch + buffer[c].other

Init ==
  /\ ul1req_queue = [s \in Slots |-> Free]
  /\ req_pos = -1
  /\ send_pos = 0
  /\ turns = 0
  /\ buffer = [c \in Cores |-> [prefetch |-> 0, other |-> 0]]
  /\ others = 0
  /\ passed = [s \in Slots |-> 0]

(***************************************************************************)
(* pref_addto_ul1req_queue                                                 *)
(***************************************************************************)

\* Slip: the search stops one slot short.
Matches_OffByOne(line) ==
  \E s \in 0 .. QueueSize - 2 : ul1req_queue[s].line_index = line

\* The filter looks at the line only: a slot whose request has been sent
\* goes on matching until it is filled again.
Matches(line) == \E s \in Slots : ul1req_queue[s].line_index = line

AddMatched(line) ==
  /\ turns = 0
  /\ AddFilterOn /\ Matches(line)
  /\ UNCHANGED vars

AddRefused(line) ==
  /\ turns = 0
  /\ ~ (AddFilterOn /\ Matches(line))
  /\ ul1req_queue[Succ(req_pos)].valid /\ ~ OverwriteOnFull
  /\ UNCHANGED vars

AddQueued(line) ==
  /\ turns = 0
  /\ ~ (AddFilterOn /\ Matches(line))
  /\ ul1req_queue[Succ(req_pos)].valid => OverwriteOnFull
  /\ req_pos' = Succ(req_pos)
  /\ ul1req_queue' = [ul1req_queue EXCEPT ![Succ(req_pos)] =
                        [valid |-> TRUE, line_index |-> line]]
  /\ passed' = [passed EXCEPT ![Succ(req_pos)] = 0]
  /\ UNCHANGED <<send_pos, turns, memoryVars>>

\* Slip: address 0 is treated like any other.
AddZero_NoReturn == AddMatched(NoLine) \/ AddQueued(NoLine)

\* No address, nothing to prefetch.
AddZero ==
  /\ turns = 0
  /\ UNCHANGED vars

(***************************************************************************)
(* pref_update_core: one action per outcome of an iteration                *)
(***************************************************************************)

Head == ul1req_queue[send_pos]
HeadCore == CoreOf[Head.line_index]

StartUpdate ==
  /\ turns = 0
  /\ turns' = ScheduleNum
  /\ UNCHANGED <<ul1req_queue, req_pos, send_pos, buffer, others, passed>>

\* Slip: the position is never moved.
NextSlot_Stays == send_pos

NextSlot == Succ(send_pos)

\* Slip: the position waits at a free slot, as if the ring were a FIFO.
LookAtFreeSlot_Waits ==
  /\ turns > 0
  /\ ~ Head.valid
  /\ turns' = 0
  /\ UNCHANGED <<send_pos, buffer, others, queueVars>>

LookAtFreeSlot ==
  /\ turns > 0
  /\ ~ Head.valid
  /\ send_pos' = NextSlot
  /\ turns' = turns - 1
  /\ UNCHANGED <<buffer, others, queueVars>>

\* Slip: the reserve is one entry short.
Stalled_OffByOne(c) == Entries + 1 - Count(c) < DemandReserve

Stalled(c) == Entries - Count(c) < DemandReserve

\* No room above the demand reserve: the loop ends.
Stall ==
  /\ turns > 0
  /\ Head.valid /\ Stalled(HeadCore)
  /\ ~ (ReqDrop /\ Count(HeadCore) = Entries)
  /\ turns' = 0
  /\ UNCHANGED <<send_pos, buffer, others, queueVars>>

\* ... and PREF_REQ_DROP gives the request up, without moving on.
Drop ==
  /\ turns > 0
  /\ Head.valid /\ Stalled(HeadCore)
  /\ ReqDrop /\ Count(HeadCore) = Entries
  /\ ul1req_queue' = [ul1req_queue EXCEPT ![send_pos].valid = FALSE]
  /\ passed' = [passed EXCEPT ![send_pos] = 0]
  /\ turns' = 0
  /\ UNCHANGED <<req_pos, send_pos, buffer, others>>

Sent ==
  /\ ul1req_queue' = [ul1req_queue EXCEPT ![send_pos].valid = FALSE]
  /\ passed' = [s \in Slots |->
                  IF s # send_pos /\ ul1req_queue[s].valid
                    THEN passed[s] + 1 ELSE 0]
  /\ send_pos' = NextSlot
  /\ turns' = turns - 1
  /\ UNCHANGED <<req_pos, others>>

\* new_mem_req finds a request for the line and takes the prefetch in.
SendMatched ==
  /\ turns > 0
  /\ Head.valid /\ ~ Stalled(HeadCore)
  /\ Count(HeadCore) > 0
  /\ Sent
  /\ UNCHANGED buffer

\* Slip: the entry kept for the last writeback is given away.
CanAllocate_Last(c) == Count(c) < Entries

\* mem_can_allocate_req_buffer, for a prefetch and private buffers
CanAllocate(c) ==
  /\ Count(c) + PrefWatermark < Entries
  /\ Count(c) + WBValve < Entries
  /\ Count(c) + 1 < Entries

SendAllocated ==
  /\ turns > 0
  /\ Head.valid /\ ~ Stalled(HeadCore)
  /\ CanAllocate(HeadCore)
  /\ Sent
  /\ buffer' = [buffer EXCEPT ![HeadCore].prefetch = @ + 1]

\* new_mem_req refuses: no entry, or no room in the L1 queue.
SendRejected ==
  /\ turns > 0
  /\ Head.valid /\ ~ Stalled(HeadCore)
  /\ turns' = 0
  /\ UNCHANGED <<send_pos, buffer, others, queueVars>>

(***************************************************************************)
(* The memory system between two runs of the loop, reduced to the counts   *)
(* of request buffers: the rest of update_memory, and the stages.          *)
(***************************************************************************)

Memory(c, b) ==
  /\ turns = 0
  /\ buffer' = [buffer EXCEPT ![c] = b]
  /\ UNCHANGED <<send_pos, turns, queueVars>>

\* A demand or a writeback takes an entry, by mem_allocate_req_buffer.  What is
\* granted to one of them at least is what is granted to a writeback of the L1,
\* which may take the last entry.
Occupy(c) ==
  /\ others < MaxOthers /\ Count(c) < Entries
  /\ others' = others + 1
  /\ Memory(c, [buffer[c] EXCEPT !.other = @ + 1])

\* A demand matches a prefetch in the buffer, which becomes a demand
\* (mem_adjust_matching_request).
Promote(c) ==
  /\ buffer[c].prefetch > 0
  /\ Memory(c, [prefetch |-> buffer[c].prefetch - 1,
                other |-> buffer[c].other + 1])
  /\ UNCHANGED others

\* A request has been served, or given up: mem_free_reqbuf.
Complete(c) ==
  /\ UNCHANGED others
  /\ \/ /\ buffer[c].prefetch > 0
        /\ Memory(c, [buffer[c] EXCEPT !.prefetch = @ - 1])
     \/ /\ buffer[c].other > 0
        /\ Memory(c, [buffer[c] EXCEPT !.other = @ - 1])

----------------------------------------------------------------------------
Add(line) == AddMatched(line) \/ AddRefused(line) \/ AddQueued(line)
Accept == SendMatched \/ SendAllocated
Update == \/ StartUpdate \/ LookAtFreeSlot \/ Stall \/ Drop
          \/ Accept \/ SendRejected

Next ==
  \/ AddZero
  \/ \E line \in Lines : Add(line)
  \/ Update
  \/ \E c \in Cores : Occupy(c) \/ Promote(c) \/ Complete(c)

Spec == Init /\ [][Next]_vars

\* pref_update runs every cycle, buffered requests complete, and memory does
\* not refuse for ever what it could take again and again.
Fairness ==
  /\ WF_vars(Update)
  /\ SF_vars(Accept)
  /\ \A c \in Cores : SF_vars(Complete(c))

FairSpec == Spec /\ Fairness

----------------------------------------------------------------------------
TypeOK ==
  /\ ul1req_queue \in
       [Slots -> [valid: BOOLEAN, line_index: Lines \cup {NoLine}]]
  /\ \A s \in Slots : ul1req_queue[s].valid => ul1req_queue[s].line_index # NoLine
  /\ req_pos \in Slots \cup {-1}
  /\ send_pos \in Slots
  /\ turns \in 0 .. ScheduleNum
  /\ buffer \in [Cores -> [prefetch: Nat, other: Nat]]
  /\ \A c \in Cores : Count(c) =< Entries
  /\ others \in 0 .. MaxOthers
  /\ passed \in [Slots -> Nat]

\* With the add filter no line waits in two slots, wherever the positions
\* have walked and however requests were sent, dropped or overwritten.
NoLineTwice ==
  AddFilterOn =>
    \A s, t \in Slots :
      /\ ul1req_queue[s].valid /\ ul1req_queue[t].valid
      /\ ul1req_queue[s].line_index = ul1req_queue[t].line_index
      => s = t

\* The ring keeps no order of arrival, yet a request sees at most
\* QueueSize - 1 others sent before it.
BoundedOvertaking == \A s \in Slots : passed[s] < QueueSize

\* Prefetches, whatever the schedule, never fill a core's request buffer:
\* above each of the four limits there is room for demands and writebacks.
RoomForDemands ==
  \A c \in Cores, room \in {PrefWatermark, WBValve, 1, DemandReserve - 1} :
    buffer[c].prefetch > 0 => buffer[c].prefetch + room =< Entries

\* Every queued prefetch leaves the queue, although another core's full
\* buffer may hold up the shared queue.
QueuedLeaves == \A line \in Lines : line \in Pending ~> line \notin Pending
=============================================================================

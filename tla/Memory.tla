------------------------------- MODULE Memory -------------------------------
(***************************************************************************)
(* The memory hierarchy below the core (memory/memory.c), for one core and *)
(* without a mid-level cache: the request buffers, the L1 (the last-level  *)
(* cache), the fill queues and the way to and from Ramulator.              *)
(*                                                                         *)
(* A queue is the set of requests whose field queue names it, as the       *)
(* program's req->queue does; "RAM" stands for the NULL it holds while     *)
(* Ramulator has the request.  The order of a queue is left out: any ready *)
(* request may be the next.  A cycle of the program is several steps here. *)
(***************************************************************************)
EXTENDS Ramulator, CacheSets

CONSTANTS
  NoLine,          \* the line of what is not valid
  Waiters,         \* what a request may have in op_ptrs and op_uniques
  Entries,         \* MEM_REQ_BUFFER_ENTRIES
  PrefWatermark,   \* MEM_REQ_BUFFER_PREF_WATERMARK
  WBValve,         \* MEM_REQ_BUFFER_WB_VALVE
  L1FillEntries,   \* MEM_L1_FILL_QUEUE_ENTRIES
  L1Ways           \* ways of the one L1 set

ASSUME MemoryAssumption ==
  /\ NoLine \notin Lines
  /\ Ids = 1 .. Entries /\ Entries \in Nat \ {0}
  /\ PrefWatermark \in Nat /\ WBValve \in Nat /\ L1FillEntries \in Nat \ {0}
  /\ L1Ways \in SUBSET Nat /\ L1Ways # {}

VARIABLES
  req,     \* the request buffers
  l1       \* the L1

memVars == <<req, l1, dramVars>>

Demands == {"IFETCH", "DFETCH", "DSTORE"}
Types == Demands \cup {"DPRF", "WB"}
States == {"INV", "L1_NEW", "L1_WAIT", "L1_HIT_DONE", "MEM_NEW", "FILL_L1",
           "FILL_DONE"}
Final == {"L1_HIT_DONE", "FILL_DONE"}
Queues == {"none", "L1", "RAM", "L1FILL", "CORE_FILL"}

\* sent and useful are histories: how often the prefetcher was told that
\* this prefetch went out, and that it was useful; counted up to CountMax.
CountMax == 2
Up(n) == IF n < CountMax THEN n + 1 ELSE n

Request ==
  [state : States, queue : Queues, type : Types, addr : Lines \cup {NoLine},
   done_func : {"NULL", "dcache", "icache"}, ops : SUBSET Waiters,
   dirty_l0 : BOOLEAN, demand_match_prefetch : BOOLEAN,
   prefetcher : BOOLEAN, sent : 0 .. CountMax, useful : 0 .. CountMax]

FreeBuffer ==
  [state |-> "INV", queue |-> "none", type |-> "DPRF", addr |-> NoLine,
   done_func |-> "NULL", ops |-> {}, dirty_l0 |-> FALSE,
   demand_match_prefetch |-> FALSE, prefetcher |-> FALSE,
   sent |-> 0, useful |-> 0]

L1Data ==
  [valid : BOOLEAN, line : Lines \cup {NoLine}, dirty : BOOLEAN,
   prefetch : BOOLEAN, seen_prefetch : BOOLEAN, useful : 0 .. CountMax]

NoData == [valid |-> FALSE, line |-> NoLine, dirty |-> FALSE,
           prefetch |-> FALSE, seen_prefetch |-> FALSE, useful |-> 0]

\* The queue a request is in follows from its state, but for the last.
QueuesOf(state) ==
  CASE state = "INV" -> {"none"}
    [] state \in {"L1_NEW", "L1_WAIT"} -> {"L1"}
    [] state = "L1_HIT_DONE" -> {"CORE_FILL"}
    [] state = "MEM_NEW" -> {"RAM"}
    [] state = "FILL_L1" -> {"L1FILL"}
    [] state = "FILL_DONE" -> {"L1FILL", "CORE_FILL"}

MemTypeOK ==
  /\ req \in [Ids -> Request]
  /\ \A i \in Ids : /\ req[i].queue \in QueuesOf(req[i].state)
                    /\ req[i].state = "INV" => req[i] = FreeBuffer
  /\ l1 \in [L1Ways -> L1Data]
  /\ DramTypeOK

MemInit ==
  /\ req = [i \in Ids |-> FreeBuffer]
  /\ l1 = [w \in L1Ways |-> NoData]
  /\ DramInit

Live == {i \in Ids : req[i].state # "INV"}
In(queue) == {i \in Ids : req[i].queue = queue}

(***************************************************************************)
(* Searching and adjusting: a request for a line on its way joins it       *)
(***************************************************************************)

\* The new type may join a request of the old one in a queue of Scarab.
\* ALLOW_TYPE_MATCHES, off by default, is left out: only a writeback joins
\* a writeback.
Joins(new, old) ==
  \/ new = old
  \/ old = "DFETCH" /\ new \in {"DSTORE", "DPRF"}
  \/ old = "DSTORE" /\ new \in {"DFETCH", "DPRF"}
  \/ old = "DPRF" /\ new \in {"DFETCH", "DSTORE"}

SearchQueue(queue, line, type) ==
  {i \in In(queue) : /\ req[i].addr = line
                     /\ req[i].state \notin Final
                     /\ Joins(type, req[i].type)}

\* Slip: a request of the line is a request of the line.
SearchRamulator_AnyType(line, type) ==
  Range(inflight[line]) \cup {j \in Range(resp) : req[j].addr = line}

\* In Ramulator instruction and data requests are told apart, no more.
SearchRamulator(line, type) ==
  {i \in Range(inflight[line]) \cup {j \in Range(resp) : req[j].addr = line} :
     (req[i].type = "IFETCH") = (type = "IFETCH")}

\* Slip: requests are not looked for in Ramulator.
Matching_Queues(line, type) ==
  SearchQueue("L1FILL", line, type) \cup SearchQueue("L1", line, type)

\* The first queue to hold one wins; none of them holds two.
Matching(line, type) ==
  CASE SearchQueue("L1FILL", line, type) # {} ->
         SearchQueue("L1FILL", line, type)
    [] SearchRamulator(line, type) # {} -> SearchRamulator(line, type)
    [] OTHER -> SearchQueue("L1", line, type)

\* A demand's op finds a prefetch: the prefetch is late.
Late(r, type, ops) == ops # {} /\ r.type = "DPRF" /\ type \in Demands

\* Slip: the request is not marked as a prefetch a demand came for.
Adjusted_Unmarked(r, type, ops, store, done) ==
  [r EXCEPT !.ops = r.ops \cup ops,
            !.dirty_l0 = r.dirty_l0 \/ store,
            !.useful = IF Late(r, type, ops) /\ r.prefetcher
                       THEN Up(r.useful) ELSE r.useful,
            !.type = IF Late(r, type, ops) THEN type ELSE r.type,
            !.done_func = IF ops # {} /\ (Late(r, type, ops)
                                            \/ r.done_func = "NULL")
                          THEN done ELSE r.done_func]

\* Slip: the op is added, but a prefetch keeps filling the L1 only.
Adjusted_NoDone(r, type, ops, store, done) ==
  [r EXCEPT !.ops = r.ops \cup ops,
            !.dirty_l0 = r.dirty_l0 \/ store,
            !.demand_match_prefetch =
              r.demand_match_prefetch \/ Late(r, type, ops),
            !.useful = IF Late(r, type, ops) /\ r.prefetcher
                       THEN Up(r.useful) ELSE r.useful,
            !.type = IF Late(r, type, ops) THEN type ELSE r.type]

\* mem_adjust_matching_request.  A request without op (of the icache, of a
\* prefetcher, a writeback) changes nothing.  The promotion of a queued
\* request's type by its priority is left out: what an op finds is a
\* prefetch, promoted here, or of its own type, or a load a store came for.
Adjusted(r, type, ops, store, done) ==
  [r EXCEPT !.ops = r.ops \cup ops,
            !.dirty_l0 = r.dirty_l0 \/ store,
            !.demand_match_prefetch =
              r.demand_match_prefetch \/ Late(r, type, ops),
            !.useful = IF Late(r, type, ops) /\ r.prefetcher
                       THEN Up(r.useful) ELSE r.useful,
            !.type = IF Late(r, type, ops) THEN type ELSE r.type,
            !.done_func = IF ops # {} /\ (Late(r, type, ops)
                                            \/ r.done_func = "NULL")
                          THEN done ELSE r.done_func]

(***************************************************************************)
(* Allocating a buffer                                                     *)
(***************************************************************************)
Used == Cardinality(Live)

\* Slip: no buffer is kept back from the requests that are no writebacks.
CanAllocate_NoValve(type, for_l1_writeback) ==
  /\ type = "DPRF" => Used + PrefWatermark < Entries
  /\ ~ for_l1_writeback => Used + 1 < Entries
  /\ Used < Entries

\* mem_can_allocate_req_buffer.  The queues are as long as there are
\* buffers, so that having a buffer is having room in the L1 queue.
CanAllocate(type, for_l1_writeback) ==
  /\ type = "DPRF" => Used + PrefWatermark < Entries
  /\ type # "WB" => Used + WBValve < Entries
  /\ ~ for_l1_writeback => Used + 1 < Entries
  /\ Used < Entries

\* Which free buffer it is makes no difference.
NewId == Min(Ids \ Live)

\* mem_init_new_req
NewRequest(type, line, ops, store, done, prefetcher) ==
  [state |-> "L1_NEW", queue |-> "L1", type |-> type, addr |-> line,
   done_func |-> done, ops |-> ops, dirty_l0 |-> store,
   demand_match_prefetch |-> FALSE, prefetcher |-> prefetcher,
   sent |-> 0, useful |-> 0]

\* new_mem_req: TRUE or FALSE ...
Accepts(type, line) == Matching(line, type) # {} \/ CanAllocate(type, FALSE)

\* ... and the buffers once it is TRUE.
NewMemReq(type, line, ops, store, done, prefetcher) ==
  /\ Accepts(type, line)
  /\ IF Matching(line, type) # {}
     THEN \E i \in Matching(line, type) :
            req' = [req EXCEPT ![i] =
                           Adjusted(req[i], type, ops, store, done)]
     ELSE req' = [req EXCEPT ![NewId] =
                    NewRequest(type, line, ops, store, done, prefetcher)]
  /\ UNCHANGED <<l1, dramVars>>

\* new_mem_dc_wb_req: a writeback from the data cache.  Neither Ramulator
\* nor, as no writeback is ever in it, the fill queue can hold another.
WritebackQueued(line) == SearchQueue("L1", line, "WB") # {}
WritebackAccepted(line) == WritebackQueued(line) \/ CanAllocate("WB", FALSE)

AfterWriteback(line) ==
  IF WritebackQueued(line) THEN req
  ELSE [req EXCEPT ![NewId] =
          NewRequest("WB", line, {}, FALSE, "NULL", FALSE)]

(***************************************************************************)
(* mem_process_l1_reqs                                                     *)
(***************************************************************************)

\* Slip: the lists of the request are not cleared.
Freed_KeepsLists(bufs, i) ==
  [bufs EXCEPT ![i] = [FreeBuffer EXCEPT !.ops = bufs[i].ops]]

\* mem_free_reqbuf
Freed(bufs, i) == [bufs EXCEPT ![i] = FreeBuffer]

\* The buffers once a request is in another state or queue.
Moved(i, state, queue) ==
  [req EXCEPT ![i] = [req[i] EXCEPT !.state = state, !.queue = queue]]

\* mem_start_l1_access
StartL1(i) ==
  /\ req[i].state = "L1_NEW"
  /\ req' = Moved(i, "L1_WAIT", "L1")
  /\ UNCHANGED <<l1, dramVars>>

FirstUse(type, data) ==
  type \in Demands /\ data.prefetch /\ ~ data.seen_prefetch

Accessed(type, data) ==
  [data EXCEPT !.seen_prefetch = data.seen_prefetch \/ FirstUse(type, data),
               !.useful = IF FirstUse(type, data) THEN Up(data.useful)
                          ELSE data.useful,
               !.dirty = data.dirty \/ type = "WB"]

\* mem_process_l1_hit_access
L1Hit(i) ==
  /\ req[i].state = "L1_WAIT"
  /\ Hit(l1, req[i].addr)
  /\ LET way == HitWay(l1, req[i].addr)
     IN  l1' = [l1 EXCEPT ![way] = Accessed(req[i].type, l1[way])]
  /\ req' = IF req[i].done_func = "NULL" THEN Freed(req, i)
            ELSE Moved(i, "L1_HIT_DONE", "CORE_FILL")
  /\ UNCHANGED dramVars

\* Slip: a late prefetch fills a line nobody has used yet.
Filled_Unseen(r) ==
  [valid |-> TRUE, line |-> r.addr,
   dirty |-> r.type = "WB" /\ r.state # "FILL_L1",
   prefetch |-> r.type = "DPRF" \/ r.demand_match_prefetch,
   seen_prefetch |-> FALSE, useful |-> r.useful]

\* What l1_fill_line makes of the entry.
Filled(r) ==
  [valid |-> TRUE, line |-> r.addr,
   dirty |-> r.type = "WB" /\ r.state # "FILL_L1",
   prefetch |-> r.type = "DPRF" \/ r.demand_match_prefetch,
   seen_prefetch |-> r.demand_match_prefetch, useful |-> r.useful]

\* Slip: the line goes although its writeback was not taken.
FillLine_Drop(i, way) ==
  /\ way \in Replaceable(l1)
  /\ IF l1[way].valid /\ l1[way].dirty /\ CanAllocate("WB", TRUE)
        /\ WriteAccepted
     THEN SendWrite(l1[way].line) ELSE UNCHANGED dramVars
  /\ l1' = Insert(l1, way, Filled(req[i]))

\* l1_fill_line with new_mem_l1_wb_req: a dirty line to be replaced goes to
\* Ramulator first.  The writeback needs a buffer, gives it back at once,
\* and when Ramulator refuses it nothing has happened.
FillLine(i, way) ==
  /\ way \in Replaceable(l1)
  /\ IF l1[way].valid /\ l1[way].dirty
     THEN CanAllocate("WB", TRUE) /\ SendWrite(l1[way].line)
     ELSE UNCHANGED dramVars
  /\ l1' = Insert(l1, way, Filled(req[i]))

\* A writeback that misses is written into the L1.
L1MissWB(i) ==
  /\ req[i].state = "L1_WAIT" /\ req[i].type = "WB"
  /\ ~ Hit(l1, req[i].addr)
  /\ \E way \in L1Ways : FillLine(i, way)
  /\ req' = Freed(req, i)

IsPrefetch(r) == (r.type = "DPRF" \/ r.demand_match_prefetch) /\ r.prefetcher

Reported(r) == IF IsPrefetch(r) THEN Up(r.sent) ELSE r.sent

\* Any other request that misses goes to Ramulator, and the prefetcher is
\* told that its prefetch was sent.
L1MissSent(i) ==
  /\ req[i].state = "L1_WAIT" /\ req[i].type # "WB"
  /\ ~ Hit(l1, req[i].addr)
  /\ SendRead(req[i].addr, i)
  /\ req' = [req EXCEPT ![i] =
               [req[i] EXCEPT !.state = "MEM_NEW", !.queue = "RAM",
                              !.sent = Reported(req[i])]]
  /\ UNCHANGED l1

\* Ramulator has no room.  The request stays to try again next cycle, yet
\* the prefetcher is told all the same.
L1MissRejected(i) ==
  /\ req[i].state = "L1_WAIT" /\ req[i].type # "WB"
  /\ ~ Hit(l1, req[i].addr)
  /\ ~ ReadAccepted(req[i].addr)
  /\ IsPrefetch(req[i])
  /\ req' = [req EXCEPT ![i] = [req[i] EXCEPT !.sent = Reported(req[i])]]
  /\ UNCHANGED <<l1, dramVars>>

(***************************************************************************)
(* Back from Ramulator: mem_complete_bus_in_access, then                   *)
(* mem_process_l1_fill_reqs                                                *)
(***************************************************************************)
CompleteBusIn ==
  /\ Deliver
  /\ Cardinality(In("L1FILL")) < L1FillEntries
  /\ req' = Moved(Head(resp), "FILL_L1", "L1FILL")
  /\ UNCHANGED l1

FillL1(i) ==
  /\ req[i].state = "FILL_L1"
  /\ \E way \in L1Ways : FillLine(i, way)
  /\ req' = Moved(i, "FILL_DONE", "L1FILL")

LeaveL1Fill(i) ==
  /\ req[i].state = "FILL_DONE" /\ req[i].queue = "L1FILL"
  /\ req' = IF req[i].done_func = "NULL" THEN Freed(req, i)
            ELSE Moved(i, "FILL_DONE", "CORE_FILL")
  /\ UNCHANGED <<l1, dramVars>>

MemStep ==
  \/ \E i \in Ids : \/ StartL1(i)
                    \/ L1Hit(i)
                    \/ L1MissWB(i)
                    \/ L1MissSent(i)
                    \/ L1MissRejected(i)
                    \/ FillL1(i)
                    \/ LeaveL1Fill(i)
  \/ CompleteBusIn
  \/ DramStep /\ UNCHANGED <<req, l1>>
=============================================================================

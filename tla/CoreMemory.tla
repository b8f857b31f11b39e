----------------------------- MODULE CoreMemory -----------------------------
(***************************************************************************)
(* A core above the memory hierarchy: ops that access the data cache       *)
(* (dcache_stage.c), an instruction fetch (icache_stage.c), a prefetcher   *)
(* that sends into the L1 (pref_common.c), and recoveries that flush ops   *)
(* while the memory works for them.                                        *)
(*                                                                         *)
(* An op slot is reused: each use has a unique number of its own, and a    *)
(* request remembers slot and number.  Here numbers come back once no      *)
(* request remembers them.  The contents of the instruction cache are left *)
(* out: any fetch may miss.                                                *)
(***************************************************************************)
EXTENDS Memory

CONSTANTS
  Ops,                  \* slots of the op pool
  OpTypes,              \* kinds of ops issued
  MaxUnique,            \* bound: numbers a slot's uses may have
  DcacheWays,           \* ways of the one set of the data cache
  OffPathOps,           \* FETCH_OFF_PATH_OPS
  StoresDoNotBlock,     \* STORES_DO_NOT_BLOCK_WINDOW
  SwitchFetch,          \* SWITCH_IC_FETCH_ON_RECOVERY
  Fetches, Prefetches   \* lines the icache and the prefetcher may ask for

ASSUME CoreAssumption ==
  /\ OpTypes \subseteq {"LD", "ST", "PF"}
  /\ MaxUnique \in Nat \ {0}
  /\ Waiters = Ops \X (1 .. MaxUnique)
  /\ DcacheWays \in SUBSET Nat /\ DcacheWays # {}
  /\ {OffPathOps, StoresDoNotBlock, SwitchFetch} \subseteq BOOLEAN
  /\ Fetches \subseteq Lines /\ Prefetches \subseteq Lines

VARIABLES
  dcache,   \* the data cache
  op,       \* the ops
  ic        \* the instruction fetch

vars == <<dcache, op, ic, memVars>>

Op == [state : {"OS_MISS", "OS_WAIT_MEM"}, mem_type : OpTypes, va : Lines,
       off_path : BOOLEAN, unique_num : 1 .. MaxUnique]

\* A slot without op, or with one that needs nothing of the memory.
NoOp == [state |-> "none"]

Line == [valid : BOOLEAN, line : Lines \cup {NoLine}, dirty : BOOLEAN]
Fetching == [state |-> "IC_FETCH", line_addr |-> NoLine]

Init ==
  /\ dcache = [w \in DcacheWays |->
                 [valid |-> FALSE, line |-> NoLine, dirty |-> FALSE]]
  /\ op = [o \in Ops |-> NoOp]
  /\ ic = Fetching
  /\ MemInit

Active == {o \in Ops : op[o] # NoOp}

(***************************************************************************)
(* update_dcache_stage                                                     *)
(***************************************************************************)
Unused(o) == {u \in 1 .. MaxUnique : \A i \in Live : <<o, u>> \notin req[i].ops}

MissType(mem_type) == CASE mem_type = "LD" -> "DFETCH"
                        [] mem_type = "ST" -> "DSTORE"
                        [] mem_type = "PF" -> "DPRF"

Modifies(a) == a.mem_type = "ST" /\ ~ a.off_path

\* scan_stores: a store on its way to the line, in whatever state.
StoreInFlight(line) ==
  \E i \in Live : req[i].type = "DSTORE" /\ req[i].addr = line

DcacheHit(o, a) ==
  /\ Hit(dcache, a.va)
  /\ dcache' = IF Modifies(a)
               THEN [dcache EXCEPT ![HitWay(dcache, a.va)].dirty = TRUE]
               ELSE dcache
  /\ op' = [op EXCEPT ![o] = NoOp]
  /\ UNCHANGED <<ic, memVars>>

Forwarded(o, a) ==
  /\ ~ Hit(dcache, a.va)
  /\ a.mem_type = "LD" /\ StoreInFlight(a.va)
  /\ op' = [op EXCEPT ![o] = NoOp]
  /\ UNCHANGED <<dcache, ic, memVars>>

Misses(a) ==
  /\ ~ Hit(dcache, a.va)
  /\ ~ (a.mem_type = "LD" /\ StoreInFlight(a.va))

\* Prefetch ops, and stores that do not block, are done once their request
\* is taken: the request will not find them again.
Blocks(a) == a.mem_type = "LD" \/ (a.mem_type = "ST" /\ ~ StoresDoNotBlock)

DcacheMiss(o, a) ==
  /\ Misses(a)
  /\ NewMemReq(MissType(a.mem_type), a.va, {<<o, a.unique_num>>}, Modifies(a),
               "dcache", FALSE)
  /\ op' = [op EXCEPT ![o] = IF Blocks(a) THEN [a EXCEPT !.state = "OS_MISS"]
                             ELSE NoOp]
  /\ UNCHANGED <<dcache, ic>>

\* No buffer: the op waits until one is free and accesses the cache again.
Denied(o, a) ==
  /\ Misses(a) /\ ~ Accepts(MissType(a.mem_type), a.va)
  /\ op' = [op EXCEPT ![o] = a]
  /\ UNCHANGED <<dcache, ic, memVars>>

Access(o, a) == DcacheHit(o, a) \/ Forwarded(o, a) \/ DcacheMiss(o, a)

Issue(o) ==
  /\ o \notin Active
  /\ \E t \in OpTypes, line \in Lines, off \in {FALSE, OffPathOps} :
       \E u \in Unused(o) :
         LET a == [state |-> "OS_WAIT_MEM", mem_type |-> t, va |-> line,
                   off_path |-> off, unique_num |-> u]
         IN  /\ \A x \in Unused(o) : u =< x
             /\ Access(o, a) \/ Denied(o, a)

Retry(o) ==
  /\ o \in Active /\ op[o].state = "OS_WAIT_MEM"
  /\ Access(o, op[o])

(***************************************************************************)
(* dcache_fill_line                                                        *)
(***************************************************************************)

\* Slip: the slot is enough to know an op by.
Woken_AnyUse(i) ==
  {o \in Active : \E u \in 1 .. MaxUnique : <<o, u>> \in req[i].ops}

\* Ops that were flushed, or are done, have given their slot away.
Woken(i) == {o \in Active : <<o, op[o].unique_num>> \in req[i].ops}

\* The writeback of the line that goes is taken before the buffer of the
\* one that comes is free.
DcacheFill(i) ==
  /\ req[i].queue = "CORE_FILL" /\ req[i].done_func = "dcache"
  /\ \E way \in Replaceable(dcache) :
       LET dirty == dcache[way].valid /\ dcache[way].dirty
       IN  /\ dirty => WritebackAccepted(dcache[way].line)
           /\ dcache' = Insert(dcache, way,
                               [valid |-> TRUE, line |-> req[i].addr,
                                dirty |-> req[i].dirty_l0])
           /\ req' = Freed(IF dirty THEN AfterWriteback(dcache[way].line)
                           ELSE req, i)
  /\ op' = [o \in Ops |-> IF o \in Woken(i) THEN NoOp ELSE op[o]]
  /\ UNCHANGED <<ic, l1, dramVars>>

(***************************************************************************)
(* icache_stage.c                                                          *)
(***************************************************************************)
IcacheFetch(line) ==
  /\ ic.state = "IC_FETCH"
  /\ NewMemReq("IFETCH", line, {}, FALSE, "icache", FALSE)
  /\ ic' = [state |-> "IC_WAIT_FOR_MISS", line_addr |-> line]
  /\ UNCHANGED <<dcache, op>>

\* icache_fill_line: a line fetched before a recovery may come when another
\* one, or none, is waited for.
IcacheFill(i) ==
  /\ req[i].queue = "CORE_FILL" /\ req[i].done_func = "icache"
  /\ ic' = IF ic.line_addr = req[i].addr THEN Fetching ELSE ic
  /\ req' = Freed(req, i)
  /\ UNCHANGED <<dcache, op, l1, dramVars>>

(***************************************************************************)
(* The prefetcher, and recoveries                                          *)
(***************************************************************************)

\* pref_update_core sends the request at the head of its queue.
Prefetch(line) ==
  /\ NewMemReq("DPRF", line, {}, FALSE, "NULL", TRUE)
  /\ UNCHANGED <<dcache, op, ic>>

\* A branch recovers: ops off the path are flushed, those of an older
\* branch not; their requests go on.
Recover(flushed) ==
  /\ flushed \subseteq {o \in Active : op[o].off_path}
  /\ op' = [o \in Ops |-> IF o \in flushed THEN NoOp ELSE op[o]]
  /\ ic' = IF SwitchFetch THEN Fetching ELSE ic
  /\ UNCHANGED <<dcache, memVars>>

CoreStep ==
  \/ \E o \in Ops : Issue(o) \/ Retry(o)
  \/ \E line \in Fetches : IcacheFetch(line)
  \/ \E line \in Prefetches : Prefetch(line)
  \/ \E flushed \in SUBSET Ops : Recover(flushed)

Next ==
  \/ CoreStep
  \/ \E i \in Ids : DcacheFill(i) \/ IcacheFill(i)
  \/ MemStep /\ UNCHANGED <<dcache, op, ic>>

Spec == Init /\ [][Next]_vars

\* What the cycle of the program guarantees.  Each stage of the memory looks
\* at all its requests, so that what is possible and stays so is done.  A
\* demand that competes, for a place in a queue of Ramulator or a buffer,
\* does so in the order of priorities, older demands before younger ones,
\* and cannot be passed over for ever; nor can a read among the reads, as
\* FRFCFS_Cap bounds row hits.  A writeback or a prefetch has the lowest
\* priority: it is only not forgotten while nothing competes with it.  No
\* op, fetch, prefetch or recovery is ever promised.
Step(i) ==
  \/ /\ StartL1(i) \/ L1Hit(i) \/ L1MissWB(i) \/ L1MissSent(i)
        \/ FillL1(i) \/ LeaveL1Fill(i)
     /\ UNCHANGED <<dcache, op, ic>>
  \/ DcacheFill(i)
  \/ IcacheFill(i)

DramOnly == UNCHANGED <<req, l1, dcache, op, ic>>

MemFairness ==
  /\ \A i \in Ids : /\ WF_vars(Step(i))
                    /\ SF_vars(req[i].type \in Demands /\ Step(i))
  /\ WF_vars(CompleteBusIn /\ UNCHANGED <<dcache, op, ic>>)
  /\ WF_vars((SwitchMode \/ \E i \in DOMAIN writeq : ServeWrite(i))
               /\ DramOnly)
  /\ \A line \in Lines : SF_vars((ServeRead(line) \/ Complete(line))
                                   /\ DramOnly)

FairSpec == Spec /\ MemFairness

-----------------------------------------------------------------------------
(***************************************************************************)
(* Properties                                                              *)
(***************************************************************************)

\* Every variable keeps its type, a request is in the queue its state says,
\* and a freed buffer has forgotten everything.
TypeOK ==
  /\ MemTypeOK
  /\ dcache \in [DcacheWays -> Line]
  /\ op \in [Ops -> Op \cup {NoOp}]
  /\ \/ ic = Fetching
     \/ ic \in [state : {"IC_WAIT_FOR_MISS"}, line_addr : Fetches]

\* No lost wakeup: an op that waits for a miss (OS_MISS) is remembered, by
\* slot and number, by exactly one request, which is for its line, will fill
\* the data cache, and will make the line dirty if the op is a store that
\* counts; an op without buffer is remembered by none; and the line the
\* icache waits for is on its way to it.
NobodyForgotten ==
  /\ \A o \in Active :
       LET mine == {i \in Live : <<o, op[o].unique_num>> \in req[i].ops}
       IN  IF op[o].state = "OS_WAIT_MEM" THEN mine = {}
           ELSE \E i \in mine :
                  /\ mine = {i}
                  /\ req[i].addr = op[o].va /\ req[i].done_func = "dcache"
                  /\ Modifies(op[o]) => req[i].dirty_l0
  /\ ic.state = "IC_WAIT_FOR_MISS" =>
       \E i \in Live : req[i].addr = ic.line_addr
                         /\ req[i].type = "IFETCH"

\* A line is read from memory for at most one data request and one
\* instruction request at a time (ramulator_send asserts as much of its
\* list): whatever a miss could have joined, it did.
OneReadPerClass ==
  \A i, j \in Live :
    /\ i # j
    /\ req[i].addr = req[j].addr
    /\ {req[i].type, req[j].type} \cap {"WB"} = {}
    /\ {req[i].state, req[j].state} \cap Final = {}
    => (req[i].type = "IFETCH") # (req[j].type = "IFETCH")

\* Scarab and Ramulator agree on what is out: a request that was sent waits
\* for its line or is among the answers, once; and a line somebody waits for
\* is with the controller in exactly one place, so that enqueue_response is
\* called for it once and finds whom to answer.
RamulatorAgrees ==
  /\ readq \cap pending = {}
  /\ \A line \in Lines :
       /\ IsInjective(inflight[line] \o resp)
       /\ Range(inflight[line]) \cup {i \in Range(resp) : req[i].addr = line}
            = {i \in In("RAM") : req[i].addr = line}
       /\ (inflight[line] = <<>>) = (line \notin readq \cup pending)

\* A prefetch the prefetcher asked for and that went to memory was counted
\* as sent, also when a demand met it on its way and it is no prefetch any
\* more by its type.
SentIsCounted ==
  \A i \in Live :
    req[i].prefetcher
      /\ req[i].state \in {"MEM_NEW", "FILL_L1", "FILL_DONE"}
    => req[i].sent > 0

\* What the prefetcher is told is what happened: a prefetch reported as sent
\* "went out on the bus" (pref_common.c).  A rejected one waits in the L1
\* queue, and each of its attempts is reported.
SentWentOut ==
  \A i \in Live : req[i].sent > 0 => req[i].state # "L1_WAIT"

\* A prefetch is counted as useful once: by the demand that met it on its
\* way or by the first to hit its line, not by both.
UsefulOnce ==
  /\ \A i \in Ids : req[i].useful =< 1
  /\ \A w \in L1Ways : l1[w].useful =< 1

\* A line of the L1 can be replaced: by new_mem_l1_wb_req, if it is dirty.
RoomInL1 ==
  \E way \in Replaceable(l1) :
    l1[way].valid /\ l1[way].dirty => CanAllocate("WB", TRUE) /\ WriteAccepted

\* A line of the data cache can be, by new_mem_dc_wb_req.
RoomInDcache ==
  \E way \in Replaceable(dcache) :
    dcache[way].valid /\ dcache[way].dirty => WritebackAccepted(dcache[way].line)

\* The request has what it waits for, by its state, type and done_func.
CanMove(i) ==
  \/ req[i].state = "L1_NEW"
  \/ req[i].state = "L1_WAIT"
       /\ \/ Hit(l1, req[i].addr)
          \/ req[i].type = "WB" /\ RoomInL1
          \/ req[i].type # "WB" /\ ReadAccepted(req[i].addr)
  \/ req[i].state = "FILL_L1" /\ RoomInL1
  \/ req[i].state = "FILL_DONE" /\ req[i].queue = "L1FILL"
  \/ req[i].queue = "CORE_FILL" /\ req[i].done_func = "dcache" /\ RoomInDcache
  \/ req[i].queue = "CORE_FILL" /\ req[i].done_func = "icache"

CanAnswer == resp # <<>> /\ Cardinality(In("L1FILL")) < L1FillEntries

\* The controller changes its mode, or has something to do in the next one.
CanServe ==
  \/ NextMode # write_mode
  \/ ~ NextMode /\ readq # {}
  \/ NextMode /\ writeq # <<>>
  \/ pending # {}

\* Deadlock freedom: while a request is alive, the memory can get on with
\* one.  Everyone can wait for everyone: a fill of the data cache for the
\* buffer of its writeback, that writeback for one in the L1, that one for
\* room in Ramulator's write queue.
NeverWedged ==
  Live # {} => (\E i \in Ids : CanMove(i)) \/ CanAnswer \/ CanServe

\* What NeverWedged says can be done is what the actions do: no handler of
\* a request, of an answer or of the controller waits for anything else, and
\* none does less than wait for it.
WaitsForNothingElse ==
  /\ \A i \in Ids :
       CanMove(i) <=> ENABLED (\/ StartL1(i) \/ L1Hit(i) \/ L1MissWB(i)
                               \/ L1MissSent(i) \/ FillL1(i) \/ LeaveL1Fill(i)
                               \/ DcacheFill(i) \/ IcacheFill(i))
  /\ CanAnswer <=> ENABLED CompleteBusIn
  /\ CanServe <=> ENABLED DramStep

\* Where the memory of a store can be that no memory has yet.
Modified(line) ==
  \/ \E w \in DcacheWays : dcache[w] = [valid |-> TRUE, line |-> line,
                                        dirty |-> TRUE]
  \/ \E w \in L1Ways : l1[w].valid /\ l1[w].line = line /\ l1[w].dirty
  \/ \E i \in Live : req[i].addr = line /\ (req[i].dirty_l0
                                              \/ req[i].type = "WB")

\* A store is never forgotten: from the cache or the request that holds it
\* it goes to another one, or to Ramulator's write queue.
StoresReachMemory ==
  [][\A line \in Lines :
       Modified(line) => Modified(line)' \/ writeq' = Append(writeq, line)]_vars

\* An op on the path whose wait for a miss ends finds its line in the data
\* cache: it is not woken by a request of an earlier use of its slot.
WokenWithLine ==
  [][\A o \in Active :
       /\ op[o].state = "OS_MISS" /\ ~ op[o].off_path
       /\ op[o]' = NoOp
       => Hit(dcache', op[o].va)]_vars

(***************************************************************************)
(* The service refined: ops that wait for a miss are its clients           *)
(***************************************************************************)
Missing == {o \in Active : op[o].state = "OS_MISS"}

\* Who waits for what, who may be flushed.
waitsBar == [o \in Ops |-> IF o \in Missing THEN op[o].va ELSE NoLine]
revocableBar == {o \in Missing : op[o].off_path}
presentBar == {line \in Lines : Hit(dcache, line)}

Abstract == INSTANCE MemoryService
  WITH Clients <- Ops, waits <- waitsBar, revocable <- revocableBar,
       present <- presentBar

\* The detailed memory implements the service: every fill wakes ops that
\* wait for its line and only those, no other event ends a wait but a flush
\* of an op off the path, and every wait ends.
ImplementsService == Abstract!Service

\* The icache does not wait for ever.
FetchServed == ic.state = "IC_WAIT_FOR_MISS" ~> ic.state = "IC_FETCH"
=============================================================================

------------------------------ MODULE Pipeline ------------------------------
(***************************************************************************)
(* One core's pipeline: cmp_model.c and its stages.  A cycle runs through  *)
(* the phases of cmp_cycle in their order (the streams are recovered or    *)
(* redirected, the memory answers, then the stages from the data cache     *)
(* back to fetch, then scheduling); a loop over ops takes one step per op. *)
(* Time is left out: a latency, a port, a cache hit, a free miss buffer    *)
(* are choices.  The branch predictor is a choice made at fetch.           *)
(***************************************************************************)
EXTENDS RegisterMap, FiniteSets

CONSTANTS
    Insts,              \* the instructions the frontend may deliver
    ProgramLength,      \* how many of them are on the path
    FetchLimit,         \* the number of the last op fetched off the path
    IssueWidth,         \* ISSUE_WIDTH, the width of a packet
    NodeTableSize,      \* NODE_TABLE_SIZE, the reorder buffer
    RetWidth,           \* NODE_RET_WIDTH
    FillWidth,          \* RS_FILL_WIDTH, 0 for no limit
    Stations,           \* the reservation stations, 1 .. NUM_RS
    StationSize,        \* RS_SIZES, the same for all of them
    FUs,                \* the functional units, all of the same type
    MissBuffers         \* how many ops may wait for a fill of the data cache

ASSUME InstsAssumption ==
    Insts \subseteq [mem : {"none", "load", "store"}, cf : {"none", "direct", "indirect"},
                     srcs : SUBSET Regs, dests : SUBSET Regs, addr : Addrs,
                     bar : SUBSET {"issue", "fetch"}]

\* uop_generator.c: a "store has no dest regs".
ASSUME StoresAssumption == \A inst \in Insts : inst.mem = "store" => inst.dests = {}

ASSUME StationsAssumption == Stations \subseteq Nat \ {0} /\ StationSize \in Nat

VARIABLES
    ops,        \* the valid ops of the pool, by slot
    regMap, storeMap,
    fetch,      \* icache stage: next_state, off_path, back_on_path and op_count
    recovery,   \* bp_recovery_info: the op number to recover from, 0 for none
    redirect,   \* bp_recovery_info: the op to fetch behind, slot 0 for none
    retOp,      \* the number of the next op to retire
    nextIntoRS, \* the slot of next_op_into_rs, 0 for NULL
    ready,      \* the ready list
    rsCount,    \* rs_op_count of each station
    sched,      \* what the scheduler hands to each functional unit
    exec,       \* the memory op in each functional unit
    dc,         \* the op stalled in the data cache stage, per functional unit
    misses,     \* the ops that the requests in flight were made for
    phase,
    todo,       \* the functional units the phase has still to visit
    count       \* the ops the phase's loop has handled

maps    == <<regMap, storeMap>>
streams == <<fetch, recovery, redirect>>
window  == <<nextIntoRS, ready, rsCount>>
units   == <<sched, exec, dc, misses>>
vars    == <<ops, maps, streams, retOp, window, units, phase, todo, count>>

NoRecovery == [num |-> 0, offPath |-> FALSE]
NoRedirect == [slot |-> 0, num |-> 0, due |-> FALSE]

In(stage) == {s \in DOMAIN ops : ops[s].stage = stage}
Node == In("node")

Init ==
    /\ ops = [s \in {} |-> 0]
    /\ regMap = RegMapInit
    /\ storeMap = StoreMapInit
    /\ fetch = [next |-> "FETCH", offPath |-> FALSE, backOnPath |-> FALSE, opCount |-> 1]
    /\ recovery = NoRecovery
    /\ redirect = NoRedirect
    /\ retOp = 1
    /\ nextIntoRS = 0
    /\ ready = {}
    /\ rsCount = [r \in Stations |-> 0]
    /\ sched = [f \in FUs |-> 0]
    /\ exec = [f \in FUs |-> 0]
    /\ dc = [f \in FUs |-> 0]
    /\ misses = {}
    /\ phase = "istreams"
    /\ todo = {}
    /\ count = 0

-----------------------------------------------------------------------------
(* cmp_istreams                                                             *)

\* Slip: a flushed op that was ready keeps its place.
InStationWaiting(state) == state = "IN_RS"

\* flush_window: what a flushed op in this state gives back.
InStation(state) == state \in {"IN_RS", "READY"}

\* cmp_recover, at some cycle after the branch that failed was executed: every
\* younger op leaves every stage and the maps go back to the survivors.
Recover ==
    /\ phase = "istreams"
    /\ recovery.num > 0
    /\ LET gone == {s \in DOMAIN ops : ops[s].num > recovery.num}
           live == [s \in DOMAIN ops \ gone |->
                      [ops[s] EXCEPT !.recoverySched =
                          @ /\ ~(ops[s].stage = "node" /\ ops[s].num = recovery.num)]]
           Kept(s) == IF s \in gone THEN 0 ELSE s
       IN /\ ops' = live
          /\ regMap' = RecoverRegs(regMap, live)
          /\ storeMap' = FreeStores(RecoverStores(storeMap, live), gone)
          /\ rsCount' = [r \in Stations |-> rsCount[r] -
                 Cardinality({s \in gone \cap Node :
                                  ops[s].rs = r /\ InStation(ops[s].state)})]
          /\ ready' = ready \ gone
          /\ nextIntoRS' = Kept(nextIntoRS)
          /\ sched' = [f \in FUs |-> Kept(sched[f])]
          /\ exec' = [f \in FUs |-> Kept(exec[f])]
          /\ dc' = [f \in FUs |-> Kept(dc[f])]
    /\ fetch' = [fetch EXCEPT !.next = "FETCH",
                              !.backOnPath = ~recovery.offPath,
                              !.opCount = recovery.num + 1]
    /\ recovery' = NoRecovery
    /\ redirect' = NoRedirect
    /\ phase' = "memory"
    /\ UNCHANGED <<retOp, misses, todo, count>>

\* cmp_redirect: fetch goes on behind the op it stopped at.
Redirect ==
    /\ phase = "istreams"
    /\ redirect.slot # 0
    /\ ops' = [ops EXCEPT ![redirect.slot].redirectSched = FALSE]
    /\ fetch' = [fetch EXCEPT !.next = "FETCH",
                              !.backOnPath = ~(ops[redirect.slot].offPath
                                               \/ ops[redirect.slot].wrong)]
    /\ redirect' = NoRedirect
    /\ phase' = "memory"
    /\ UNCHANGED <<maps, recovery, retOp, window, units, todo, count>>

\* Nothing is due this cycle.  A redirect scheduled by the decode stage is due in
\* the cycle after it; the others wait for the branch's latency.
NoStream ==
    /\ phase = "istreams"
    /\ ~redirect.due
    /\ phase' = "memory"
    /\ UNCHANGED <<ops, maps, streams, retOp, window, units, todo, count>>

-----------------------------------------------------------------------------
(* update_memory: the fills that reach the caches of the core.              *)

\* Op s has its data and wakes the ops that wait for it; a store has no register.
Supply(s) ==
    LET done == [ops EXCEPT ![s].state = "SCHEDULED", ![s].done = TRUE]
        after == IF ops[s].inst.mem = "store" THEN done ELSE WakeUpOps(done, s, "reg")
    IN /\ ops' = after
       /\ ready' = ready \cup NewlyReady(done, after)

\* dcache_fill_line, for one of the ops a request was made for.  The op may have been
\* flushed since, and its slot used again.
DcacheFill(ref) ==
    /\ phase = "memory"
    /\ ref \in misses
    /\ misses' = misses \ {ref}
    /\ IF Valid(ops, ref) THEN Supply(ref.slot) ELSE UNCHANGED <<ops, ready>>
    /\ UNCHANGED <<maps, streams, retOp, nextIntoRS, rsCount, sched, exec, dc, phase, todo, count>>

IcacheFill ==
    /\ phase = "memory"
    /\ fetch.next = "WAIT_MISS"
    /\ fetch' = [fetch EXCEPT !.next = "FETCH"]
    /\ UNCHANGED <<ops, maps, recovery, redirect, retOp, window, units, phase, todo, count>>

MemoryDone ==
    /\ phase = "memory"
    /\ phase' = "dcache"
    /\ todo' = FUs
    /\ UNCHANGED <<ops, maps, streams, retOp, window, units, count>>

-----------------------------------------------------------------------------
(* update_dcache_stage                                                      *)

\* The op the stage handles for unit f: a stalled one keeps its place.
AtDcache(f) == IF dc[f] # 0 THEN dc[f] ELSE exec[f]

\* What becomes of it: its address is not there yet, it hits (in the cache or, a
\* load, in the store buffer), it misses and a request is taken, it finds no port,
\* or it misses and finds no request buffer.
Outcomes == {"late", "hit", "miss", "port", "buffer"}

DcacheAccess(f, outcome) ==
    /\ phase = "dcache"
    /\ f \in todo
    /\ AtDcache(f) # 0
    /\ todo' = todo \ {f}
    /\ IF outcome = "late"
       THEN /\ dc[f] = 0
            /\ UNCHANGED <<ops, ready, exec, dc, misses>>
       ELSE LET s == AtDcache(f) IN
            /\ exec' = IF dc[f] # 0 THEN exec ELSE [exec EXCEPT ![f] = 0]
            /\ dc' = [dc EXCEPT ![f] =
                         IF outcome \in {"port", "buffer"} THEN s ELSE 0]
            /\ \/ outcome = "hit" /\ Supply(s)
               \/ /\ outcome # "hit"
                  /\ ops' = [ops EXCEPT ![s].state = CASE outcome = "miss"   -> "MISS"
                                                       [] outcome = "port"   -> "WAIT_DCACHE"
                                                       [] outcome = "buffer" -> "WAIT_MEM"]
                  /\ UNCHANGED ready
            /\ misses' = IF outcome = "miss" THEN misses \cup {RefTo(ops, s)} ELSE misses
    /\ outcome = "miss" => Cardinality(misses) < MissBuffers
    /\ UNCHANGED <<maps, streams, retOp, nextIntoRS, rsCount, sched, phase, count>>

DcacheDone ==
    /\ phase = "dcache"
    /\ \A f \in todo : AtDcache(f) = 0
    /\ phase' = "exec"
    /\ todo' = FUs
    /\ UNCHANGED <<ops, maps, streams, retOp, window, units, count>>

-----------------------------------------------------------------------------
(* update_exec_stage                                                        *)

\* Slip: the younger branch wins.
RecoveryOfYounger(s) == ops[s].wrong /\ (recovery.num = 0 \/ ops[s].num >= recovery.num)

\* bp_sched_recovery and bp_sched_redirect take the older of two branches.
RecoveryTaken(s) == ops[s].wrong /\ (recovery.num = 0 \/ ops[s].num <= recovery.num)

RedirectTaken(s) == redirect.slot = 0 \/ ops[s].num < redirect.num

\* The unit takes the op it was handed.  A memory op keeps the unit until the data
\* cache has seen it; the others broadcast their result.  A branch now knows
\* whether fetch went the right way, and where to, if the predictor did not.
Latch(f) ==
    /\ phase = "exec"
    /\ f \in todo
    /\ sched[f] # 0
    /\ exec[f] = 0
    /\ LET s      == sched[f]
           op     == ops[s]
           type   == IF op.inst.mem = "store" THEN "data" ELSE "reg"
           wakes  == op.inst.mem = "none" \/ (op.inst.mem = "store" /\ ~op.executed)
           after  == IF wakes THEN WakeUpOps(ops, s, type) ELSE ops
           target == /\ ~op.wrong
                     /\ op.inst.cf = "indirect" /\ op.btb = "noTarget"
                     /\ RedirectTaken(s)
       IN /\ ops' = [after EXCEPT
                        ![s].state = "SCHEDULED",
                        ![s].executed = TRUE,
                        ![s].done = op.inst.mem = "none",
                        ![s].recoverySched = @ \/ (op.wrong /\ ~op.offPath),
                        ![s].redirectSched = @ \/ target]
          /\ ready' = ready \cup NewlyReady(ops, after)
          /\ exec' = IF op.inst.mem = "none" THEN exec ELSE [exec EXCEPT ![f] = s]
          /\ recovery' = IF RecoveryTaken(s) THEN [num |-> op.num, offPath |-> op.offPath]
                         ELSE recovery
          /\ redirect' = IF target THEN [slot |-> s, num |-> op.num, due |-> FALSE]
                         ELSE redirect
    /\ sched' = [sched EXCEPT ![f] = 0]
    /\ todo' = todo \ {f}
    /\ UNCHANGED <<maps, fetch, retOp, nextIntoRS, rsCount, dc, misses, phase, count>>

\* The unit is busy, with an earlier op's latency or with a memory op: the op stays
\* in the ready list and has to be scheduled again.
Reject(f) ==
    /\ phase = "exec"
    /\ f \in todo
    /\ sched[f] # 0
    /\ sched' = [sched EXCEPT ![f] = 0]
    /\ todo' = todo \ {f}
    /\ UNCHANGED <<ops, maps, streams, retOp, window, exec, dc, misses, phase, count>>

ExecDone ==
    /\ phase = "exec"
    /\ \A f \in todo : sched[f] = 0
    /\ phase' = "issue"
    /\ todo' = {}
    /\ UNCHANGED <<ops, maps, streams, retOp, window, units, count>>

-----------------------------------------------------------------------------
(* update_node_stage                                                        *)

\* node_issue moves ops into the reorder buffer, the oldest first.  A
\* synchronizing op enters an empty buffer only, and no op follows it this cycle.
CanIssue ==
    /\ In("map") # {}
    /\ Cardinality(Node) < NodeTableSize
    /\ "issue" \in ops[Oldest(ops, In("map"))].inst.bar => Node = {}

Issue ==
    /\ phase = "issue"
    /\ CanIssue
    /\ LET s == Oldest(ops, In("map")) IN
       /\ ops' = [ops EXCEPT ![s].stage = "node", ![s].state = "ISSUED"]
       /\ nextIntoRS' = IF nextIntoRS = 0 THEN s ELSE nextIntoRS
       /\ phase' = IF "issue" \in ops[s].inst.bar THEN "handle" ELSE "issue"
    /\ UNCHANGED <<maps, streams, retOp, ready, rsCount, units, todo, count>>

IssueDone ==
    /\ phase = "issue"
    /\ ~CanIssue
    /\ phase' = "handle"
    /\ UNCHANGED <<ops, maps, streams, retOp, window, units, todo, count>>

\* node_handle_scheduled_ops: what was scheduled for good leaves its station.
HandleScheduled ==
    /\ phase = "handle"
    /\ LET leaving == {s \in ready : ops[s].state \in {"SCHEDULED", "MISS"}} IN
       /\ ready' = ready \ leaving
       /\ rsCount' = [r \in Stations |->
                         rsCount[r] - Cardinality({s \in leaving : ops[s].rs = r})]
    /\ phase' = "fill"
    /\ UNCHANGED <<ops, maps, streams, retOp, nextIntoRS, units, todo, count>>

\* Slip: one op more than there are places.
EmptiestOverfull(r) ==
    /\ rsCount[r] <= StationSize
    /\ \A q \in Stations : rsCount[r] < rsCount[q] \/ (rsCount[r] = rsCount[q] /\ r <= q)

\* find_emptiest_rs: the first of the stations with the most room, if one has room.
Emptiest(r) ==
    /\ rsCount[r] < StationSize
    /\ \A q \in Stations : rsCount[r] < rsCount[q] \/ (rsCount[r] = rsCount[q] /\ r <= q)

NextNode(s) ==
    LET younger == {t \in Node : ops[t].num > ops[s].num}
    IN IF younger = {} THEN 0 ELSE Oldest(ops, younger)

\* One turn of node_fill_rs.  When the width is reached the loop is left before it
\* moves on, so next_op_into_rs stays at the op that was just filled.
FillRS(r) ==
    /\ phase = "fill"
    /\ nextIntoRS # 0
    /\ Emptiest(r)
    /\ LET s    == nextIntoRS
           last == count + 1 = FillWidth
       IN /\ ops' = [ops EXCEPT ![s].rs = r,
                                ![s].state = IF ops[s].notRdy = {} THEN "READY" ELSE "IN_RS"]
          /\ ready' = IF ops[s].notRdy = {} THEN ready \cup {s} ELSE ready
          /\ rsCount' = [rsCount EXCEPT ![r] = @ + 1]
          /\ nextIntoRS' = IF last THEN s ELSE NextNode(s)
          /\ phase' = IF last THEN "retire" ELSE "fill"
          /\ count' = IF last \/ FillWidth = 0 THEN 0 ELSE count + 1
    /\ UNCHANGED <<maps, streams, retOp, units, todo>>

FillDone ==
    /\ phase = "fill"
    /\ nextIntoRS = 0 \/ \A r \in Stations : ~Emptiest(r)
    /\ phase' = "retire"
    /\ count' = 0
    /\ UNCHANGED <<ops, maps, streams, retOp, window, units, todo>>

\* Slip: a mispredicted branch retires, and its successors with it.
CanRetireWhenDone(s) == ops[s].done /\ ~ops[s].redirectSched

\* node_retire frees the oldest op once it is done, on the path, and owes fetch
\* nothing.  An op's done_cycle may lie ahead, so the loop may stop at any op.
CanRetire(s) ==
    /\ ops[s].done
    /\ ~ops[s].offPath
    /\ ~ops[s].recoverySched
    /\ ~ops[s].redirectSched

Retire ==
    /\ phase = "retire"
    /\ count < RetWidth
    /\ Node # {}
    /\ LET s == Oldest(ops, Node) IN
       /\ CanRetire(s)
       /\ ops' = [t \in DOMAIN ops \ {s} |-> ops[t]]
       /\ storeMap' = FreeStores(storeMap, {s})
    /\ retOp' = retOp + 1
    /\ count' = count + 1
    /\ UNCHANGED <<regMap, streams, window, units, phase, todo>>

RetireDone ==
    /\ phase = "retire"
    /\ phase' = "map"
    /\ count' = 0
    /\ UNCHANGED <<ops, maps, streams, retOp, window, units, todo>>

-----------------------------------------------------------------------------
(* update_map_stage and update_decode_stage, one stage deep as by default.  *)

MapStage ==
    /\ phase = "map"
    /\ ops' = IF In("map") # {} THEN ops
              ELSE AddToWakeUpLists([s \in DOMAIN ops |->
                     [ops[s] EXCEPT !.stage = IF @ = "dec" THEN "map" ELSE @]], In("dec"))
    /\ phase' = "decode"
    /\ UNCHANGED <<maps, streams, retOp, window, units, todo, count>>

\* The stage knows the target of a direct branch, and of an indirect one if the
\* target predictor did: if the BTB missed, fetch can go on.
ResumesFetch(op) ==
    /\ "fetch" \notin op.inst.bar
    /\ \/ op.inst.cf = "direct" /\ op.btb # "hit"
       \/ op.inst.cf = "indirect" /\ op.btb = "miss"

DecodeStage ==
    /\ phase = "decode"
    /\ LET decoded == IF In("dec") = {} THEN In("ic") ELSE {}
           resume  == {s \in decoded : ResumesFetch(ops[s])}
           taken   == resume # {} /\ RedirectTaken(Oldest(ops, resume))
       IN /\ ops' = [s \in DOMAIN ops |->
                       [ops[s] EXCEPT
                          !.stage = IF s \in decoded THEN "dec" ELSE @,
                          !.redirectSched = @ \/ (taken /\ s = Oldest(ops, resume))]]
          /\ redirect' = IF ~taken THEN redirect
                         ELSE [slot |-> Oldest(ops, resume),
                               num |-> ops[Oldest(ops, resume)].num, due |-> TRUE]
    /\ phase' = "icache"
    /\ UNCHANGED <<maps, fetch, recovery, retOp, window, units, todo, count>>

-----------------------------------------------------------------------------
(* update_icache_stage                                                      *)

\* The stage has room for a packet, or goes on with the one it has begun.
CanFetch ==
    /\ phase = "icache"
    /\ fetch.next = "FETCH"
    /\ count > 0 \/ In("ic") = {}

\* off_path &= !back_on_path
OffPath == fetch.offPath /\ ~fetch.backOnPath

InProgram == fetch.opCount <= IF OffPath THEN FetchLimit ELSE ProgramLength

\* What bp_predict_op may say of a branch.  Behind a fetch barrier nothing it says
\* is used.
Predictions(inst) ==
    IF inst.cf = "none" \/ "fetch" \in inst.bar
    THEN {[wrong |-> FALSE, btb |-> "hit"]}
    ELSE [wrong : BOOLEAN,
          btb : IF inst.cf = "direct" THEN {"hit", "miss"} ELSE {"hit", "miss", "noTarget"}]

References ==
    {ops[s].unique : s \in DOMAIN ops}
    \cup {regMap[r].on.unique : r \in Regs} \cup {regMap[r].off.unique : r \in Regs}
    \cup {ref.unique : ref \in misses}
    \cup UNION {{d.ref.unique : d \in ops[s].notRdy \cup ops[s].wakeUp} : s \in DOMAIN ops}

\* alloc_op: the pool grows when no slot is free; which free one is taken does not
\* matter.  The unique number only ever grows in the code; here it is the least one
\* that nothing mentions any more.
FirstFree(n, used) == n \notin used /\ \A m \in 1 .. n - 1 : m \in used

NewOp(inst, prediction, unique) ==
    [unique |-> unique, num |-> fetch.opCount, inst |-> inst, offPath |-> OffPath,
     wrong |-> prediction.wrong, btb |-> prediction.btb,
     state |-> "FETCHED", stage |-> "ic", rs |-> 0,
     notRdy |-> Deps(regMap, storeMap, ops, inst), wakeUp |-> {}, signaled |-> {},
     executed |-> FALSE, done |-> FALSE, recoverySched |-> FALSE, redirectSched |-> FALSE]

\* One turn of icache_issue_ops.  Behind a wrong prediction fetch is off the path;
\* behind a BTB miss it waits to be redirected, behind a barrier for an empty machine.
FetchOp(inst, prediction) ==
    /\ CanFetch
    /\ InProgram
    /\ Cardinality(In("ic")) < IssueWidth
    /\ \E s \in 1 .. Cardinality(DOMAIN ops) + 1, unique \in 1 .. Cardinality(References) + 1 :
          LET op  == NewOp(inst, prediction, unique)
              ref == [slot |-> s, unique |-> unique]
          IN
          /\ FirstFree(s, DOMAIN ops) /\ FirstFree(unique, References)
          /\ ops' = [t \in DOMAIN ops \cup {s} |-> IF t = s THEN op ELSE ops[t]]
          /\ regMap' = WriteRegs(regMap, inst.dests, ref, OffPath)
          /\ storeMap' = IF inst.mem = "store"
                         THEN WriteStore(storeMap, inst.addr, s, OffPath) ELSE storeMap
    /\ LET next == IF prediction.btb # "hit" THEN "WAIT_REDIRECT"
                   ELSE IF "fetch" \in inst.bar THEN "WAIT_EMPTY_ROB" ELSE "FETCH"
           last == next # "FETCH" \/ Cardinality(In("ic")) + 1 = IssueWidth
       IN /\ fetch' = [next |-> next, offPath |-> OffPath \/ prediction.wrong,
                       backOnPath |-> FALSE, opCount |-> fetch.opCount + 1]
          /\ phase' = IF last THEN "sched" ELSE "icache"
          /\ count' = IF last THEN 0 ELSE count + 1
    /\ UNCHANGED <<recovery, redirect, retOp, window, units, todo>>

\* The packet ends: the line does, the branches allowed per cycle are used up, or
\* the program is over.
FetchEnd ==
    /\ CanFetch
    /\ count > 0 \/ ~InProgram
    /\ fetch' = [fetch EXCEPT !.offPath = OffPath, !.backOnPath = FALSE]
    /\ phase' = "sched"
    /\ count' = 0
    /\ UNCHANGED <<ops, maps, recovery, redirect, retOp, window, units, todo>>

\* The instruction cache misses; next cycle it waits for the line, or tries again if
\* the memory system did not take the request.
FetchMiss(next) ==
    /\ CanFetch
    /\ fetch' = [fetch EXCEPT !.offPath = OffPath, !.backOnPath = FALSE, !.next = next]
    /\ phase' = "sched"
    /\ count' = 0
    /\ UNCHANGED <<ops, maps, recovery, redirect, retOp, window, units, todo>>

\* Slip: nobody lifts the barrier.
FetchIdleForever ==
    /\ phase = "icache"
    /\ ~CanFetch
    /\ phase' = "sched"
    /\ UNCHANGED <<ops, maps, streams, retOp, window, units, todo, count>>

\* Nothing to fetch, or no room for it.  Behind a barrier fetch goes on when the list of
\* ops in flight is empty.
FetchIdle ==
    /\ phase = "icache"
    /\ ~CanFetch
    /\ fetch' = IF fetch.next = "WAIT_EMPTY_ROB" /\ ops = [s \in {} |-> 0]
                THEN [fetch EXCEPT !.next = "FETCH"] ELSE fetch
    /\ phase' = "sched"
    /\ UNCHANGED <<ops, maps, recovery, redirect, retOp, window, units, todo, count>>

-----------------------------------------------------------------------------
(* node_sched_ops: some of the ops of the ready list are offered to units.  *)
(* Ops whose data arrives later than next cycle are passed over, so any of  *)
(* them may be.                                                             *)

Schedule(pick) ==
    /\ phase = "sched"
    /\ \A f, g \in FUs : pick[f] = pick[g] => pick[f] = 0 \/ f = g
    /\ sched' = pick
    /\ phase' = "istreams"
    /\ UNCHANGED <<ops, maps, streams, retOp, window, exec, dc, misses, todo, count>>

-----------------------------------------------------------------------------

Next ==
    \/ Recover \/ Redirect \/ NoStream
    \/ (\E ref \in misses : DcacheFill(ref)) \/ IcacheFill \/ MemoryDone
    \/ (\E f \in FUs, outcome \in Outcomes : DcacheAccess(f, outcome)) \/ DcacheDone
    \/ (\E f \in FUs : Latch(f) \/ Reject(f)) \/ ExecDone
    \/ Issue \/ IssueDone
    \/ HandleScheduled
    \/ (\E r \in Stations : FillRS(r)) \/ FillDone
    \/ Retire \/ RetireDone
    \/ MapStage \/ DecodeStage
    \/ (\E inst \in Insts : \E prediction \in Predictions(inst) : FetchOp(inst, prediction))
    \/ FetchEnd \/ (\E next \in {"FETCH", "WAIT_MISS"} : FetchMiss(next)) \/ FetchIdle
    \/ (\E pick \in [FUs -> ready \cup {0}] : Schedule(pick))

Spec == Init /\ [][Next]_vars

-----------------------------------------------------------------------------
(* Properties                                                               *)

Ref == [slot : Nat, unique : Nat]
Dep == [ref : Ref, type : DepTypes]

Op == [unique : Nat \ {0}, num : Nat \ {0}, inst : Insts, offPath : BOOLEAN,
       wrong : BOOLEAN, btb : {"hit", "miss", "noTarget"},
       state : {"FETCHED", "ISSUED", "IN_RS", "READY", "SCHEDULED", "MISS",
                "WAIT_DCACHE", "WAIT_MEM"},
       stage : {"ic", "dec", "map", "node"}, rs : Stations \cup {0},
       notRdy : SUBSET Dep, wakeUp : SUBSET Dep, signaled : SUBSET DepTypes,
       executed : BOOLEAN, done : BOOLEAN,
       recoverySched : BOOLEAN, redirectSched : BOOLEAN]

\* What points into the pool: a pointer without a unique number is to an op in flight.
Pointer == DOMAIN ops \cup {0}

\* Every variable holds what the code's types and assertions allow; a station never
\* holds more ops than it has places (find_emptiest_rs asserts it).
TypeOK ==
    /\ DOMAIN ops \subseteq Nat \ {0}
    /\ IsFiniteSet(DOMAIN ops)
    /\ ops \in [DOMAIN ops -> Op]
    /\ regMap \in [Regs -> [on : Ref, off : Ref, flag : BOOLEAN]]
    /\ storeMap \in [Addrs -> [on : Pointer, off : Pointer, flag : BOOLEAN]]
    /\ recovery \in [num : Nat, offPath : BOOLEAN]
    /\ redirect \in [slot : Nat, num : Nat, due : BOOLEAN]
    /\ fetch \in [next : {"FETCH", "WAIT_MISS", "WAIT_REDIRECT", "WAIT_EMPTY_ROB"},
                  offPath : BOOLEAN, backOnPath : BOOLEAN, opCount : Nat \ {0}]
    /\ retOp \in Nat \ {0}
    /\ nextIntoRS \in Pointer
    /\ ready \subseteq DOMAIN ops
    /\ rsCount \in [Stations -> 0 .. StationSize]
    /\ sched \in [FUs -> Pointer]
    /\ exec \in [FUs -> Pointer]
    /\ dc \in [FUs -> Pointer]
    /\ misses \subseteq Ref
    /\ phase \in {"istreams", "memory", "dcache", "exec", "issue", "handle", "fill",
                  "retire", "map", "decode", "icache", "sched"}
    /\ todo \subseteq FUs
    /\ count \in Nat

\* An op at the map stage or behind it waits only for what will come: the source is
\* in flight, older, has not signaled, and has the op in its wake-up list.  What
\* waits for nothing is not left in a station, and what is ready is on the list.
NoLostWakeup ==
    \A s \in DOMAIN ops :
        /\ ops[s].stage \in {"map", "node"} =>
             \A d \in ops[s].notRdy :
                /\ Valid(ops, d.ref)
                /\ ops[d.ref.slot].num < ops[s].num
                /\ d.type \notin ops[d.ref.slot].signaled
                /\ [ref |-> RefTo(ops, s), type |-> d.type] \in ops[d.ref.slot].wakeUp
        /\ ops[s].state = "IN_RS" => ops[s].notRdy # {}
        /\ ops[s].state = "READY" => s \in ready /\ ops[s].notRdy = {}

Writers(r) == {s \in DOMAIN ops : r \in ops[s].inst.dests}
Stores(a) == {s \in DOMAIN ops : ops[s].inst.mem = "store" /\ ops[s].inst.addr = a}

\* The maps name the youngest op in flight that writes a register or an address, or
\* no op in flight.
MapsNameYoungest ==
    /\ \A r \in Regs :
         IF Writers(r) = {} THEN ~Valid(ops, ReadReg(regMap, r))
         ELSE ReadReg(regMap, r) = RefTo(ops, Youngest(ops, Writers(r)))
    /\ \A a \in Addrs :
         ReadStore(storeMap, a) = IF Stores(a) = {} THEN 0 ELSE Youngest(ops, Stores(a))

Before(S, s) == {t \in S : ops[t].num < ops[s].num}

\* The op of S that matters to s, if there is one, has run and given out its result.
Delivered(S, s, type) ==
    Before(S, s) # {} => LET t == Youngest(ops, Before(S, s))
                         IN ops[t].executed /\ type \in ops[t].signaled

\* An op executes with the values of the program: the last op before it that writes
\* one of its sources, or the last store to the address it loads, has delivered.
DataFlow ==
    \A s \in {t \in DOMAIN ops : ops[t].executed} :
        /\ \A r \in ops[s].inst.srcs : Delivered(Writers(r), s, "reg")
        /\ ops[s].inst.mem = "load" => Delivered(Stores(ops[s].inst.addr), s, "data")

\* The ops that hold a place in station r.
Held(r) == {s \in Node : ops[s].rs = r /\ (ops[s].state = "IN_RS" \/ s \in ready)}

\* node_stage.h: rs_op_count is the "number of ops in this reservation station".
RSCountExact == \A r \in Stations : rsCount[r] = Cardinality(Held(r))

\* node_stage.h: next_op_into_rs is the "oldest issued op not yet in the scheduling
\* window (RS)"; node_fill_rs asserts that the op it fills was issued.
NextIntoRSIsOldestIssued ==
    LET issued == {s \in Node : ops[s].state = "ISSUED"}
    IN nextIntoRS = IF issued = {} THEN 0 ELSE Oldest(ops, issued)

\* No place in a station is lost or given twice, and no op is left out of them.
StationsExact == RSCountExact /\ NextIntoRSIsOldestIssued

\* The branches that sent fetch off the path and have not brought it back.
Unresolved == {s \in DOMAIN ops : /\ ops[s].wrong /\ ~ops[s].offPath
                                  /\ ~ops[s].executed \/ ops[s].recoverySched}

\* An op is off the path if and only if it was fetched behind such a branch, and
\* fetch is off the path as long as there is one.
PathMarked ==
    /\ \A s \in DOMAIN ops : ops[s].offPath <=> Before(Unresolved, s) # {}
    /\ OffPath <=> Unresolved # {}

\* Whatever waits for the front end will hear from it, and fetch waits for an op
\* that is in flight: for the branch it stopped at, which is the youngest op and has
\* yet to be decoded or executed or has its redirection or recovery pending, or
\* behind a barrier no younger op has passed.  A miss has its request.
WaitsAnswered ==
    /\ \A s \in DOMAIN ops :
         /\ ops[s].recoverySched => recovery = [num |-> ops[s].num, offPath |-> FALSE]
         /\ ops[s].redirectSched => redirect.slot = s /\ redirect.num = ops[s].num
         /\ "fetch" \in ops[s].inst.bar => s = Youngest(ops, DOMAIN ops)
         /\ ops[s].state = "MISS" <=> RefTo(ops, s) \in misses
    /\ recovery.num > 0 => \E s \in DOMAIN ops : ops[s].num = recovery.num /\ ops[s].wrong
    /\ redirect.slot # 0 => /\ redirect.slot \in DOMAIN ops
                            /\ fetch.next = "WAIT_REDIRECT"
    /\ fetch.next = "WAIT_REDIRECT" =>
         /\ DOMAIN ops # {}
         /\ LET s == Youngest(ops, DOMAIN ops)
            IN /\ ops[s].btb # "hit"
               /\ \/ redirect.slot = s
                  \/ recovery.num > 0
                  \/ ops[s].stage = "ic" \/ ~ops[s].executed

\* Fetch and the ops in flight agree on the path and on who waits for whom.
FrontEndInStep == PathMarked /\ WaitsAnswered

-----------------------------------------------------------------------------
(* The pipeline as an in-order machine.                                     *)

OnPath == {s \in DOMAIN ops : ~ops[s].offPath}

\* The on-path instructions in flight, by number.
InFlight == [n \in {ops[s].num : s \in OnPath} |->
                 ops[CHOOSE s \in OnPath : ops[s].num = n].inst]

Machine == INSTANCE InOrder WITH retired <- retOp - 1, inFlight <- InFlight

ImplementsInOrder == Machine!Spec

(* Fairness.  Each cycle goes on; what an on-path op needs happens if it is  *)
(* possible again and again: latencies are finite, a functional unit, a      *)
(* port, a request buffer and an instruction line come free.                 *)

Advance ==
    \/ ~recovery.offPath /\ Recover
    \/ redirect.slot # 0 /\ ~ops[redirect.slot].offPath /\ Redirect
    \/ \E ref \in misses : Valid(ops, ref) /\ ~ops[ref.slot].offPath /\ DcacheFill(ref)
    \/ \E f \in FUs : sched[f] \in OnPath /\ Latch(f)
    \/ Retire
    \/ /\ ~OffPath
       /\ \E inst \in Insts : \E prediction \in Predictions(inst) : FetchOp(inst, prediction)

Serve == \E f \in FUs, outcome \in {"hit", "miss"} : DcacheAccess(f, outcome)

Offer == \E pick \in [FUs -> ready \cup {0}] :
            (\E f \in FUs : pick[f] \in OnPath) /\ Schedule(pick)

FairSpec ==
    /\ Spec /\ WF_vars(Next)
    /\ SF_vars(\E ref \in misses : DcacheFill(ref))
    /\ SF_vars(Advance) /\ SF_vars(IcacheFill) /\ SF_vars(Serve) /\ SF_vars(Offer)

\* The whole program retires.
Finishes == <>(retOp = ProgramLength + 1)

=============================================================================

---------------------------- MODULE RegisterMap ----------------------------
(***************************************************************************)
(* The register and store maps of map.c and the op pool of op_pool.c, as   *)
(* operators.  Every op in flight lives in a slot of the pool, which is    *)
(* used again as soon as the op retires or is flushed, so nothing that     *)
(* names an op by its slot alone may be trusted: a reference carries the   *)
(* op's unique number too.  `live` is the set of valid ops, a function     *)
(* from slots to ops; an op has the fields Pipeline gives it.              *)
(***************************************************************************)
EXTENDS Integers

CONSTANTS
    Regs,       \* NUM_REG_IDS
    Addrs       \* the addresses of loads and stores, one map entry each

DepTypes == {"reg", "data"}

Nobody == [slot |-> 0, unique |-> 0]

RefTo(live, s) == [slot |-> s, unique |-> live[s].unique]

\* op_pool_valid && unique_num == the number the reference was made with.
Valid(live, ref) == ref.slot \in DOMAIN live /\ live[ref.slot].unique = ref.unique

Youngest(live, S) == CHOOSE s \in S : \A t \in S : live[t].num <= live[s].num
Oldest(live, S)   == CHOOSE s \in S : \A t \in S : live[s].num <= live[t].num

-----------------------------------------------------------------------------
(* The register map: the last writer on the path and the last one off it,   *)
(* and the flag that tells which of them is the current one.                *)

RegMapInit == [r \in Regs |-> [on |-> Nobody, off |-> Nobody, flag |-> FALSE]]

ReadReg(map, r) == IF map[r].flag THEN map[r].off ELSE map[r].on

WriteRegs(map, dests, ref, offPath) ==
    [r \in Regs |->
        IF r \notin dests THEN map[r]
        ELSE IF offPath THEN [map[r] EXCEPT !.off = ref, !.flag = TRUE]
        ELSE [map[r] EXCEPT !.on = ref, !.flag = FALSE]]

OffWriters(live, r) == {s \in DOMAIN live : live[s].offPath /\ r \in live[s].inst.dests}

\* Slip: the off-path ops that survive the recovery are forgotten.
FlagsOnly(map, live) == [r \in Regs |-> [map[r] EXCEPT !.flag = FALSE]]

\* recover_map: the flags fall, then the off-path ops still in flight write
\* their entries again, in the order they were fetched.
RecoverRegs(map, live) ==
    [r \in Regs |->
        IF OffWriters(live, r) = {} THEN [map[r] EXCEPT !.flag = FALSE]
        ELSE [map[r] EXCEPT !.off = RefTo(live, Youngest(live, OffWriters(live, r))),
                            !.flag = TRUE]]

-----------------------------------------------------------------------------
(* The store map, one entry per address.  Its pointers carry no unique      *)
(* number: a store takes its pointers out when it is freed, and the entry   *)
(* goes with the last of them.                                              *)

StoreMapInit == [a \in Addrs |-> [on |-> 0, off |-> 0, flag |-> FALSE]]

ReadStore(map, a) == IF map[a].flag THEN map[a].off ELSE map[a].on

WriteStore(map, a, s, offPath) ==
    [map EXCEPT ![a] = IF offPath THEN [@ EXCEPT !.off = s, !.flag = TRUE]
                       ELSE [@ EXCEPT !.on = s, !.flag = FALSE]]

\* delete_store_hash_entry for every store of `gone`.
FreeStores(map, gone) ==
    [a \in Addrs |->
        LET on  == IF map[a].on \in gone THEN 0 ELSE map[a].on
            off == IF map[a].off \in gone THEN 0 ELSE map[a].off
        IN [on |-> on, off |-> off, flag |-> map[a].flag /\ <<on, off>> # <<0, 0>>]]

OffStores(live, a) ==
    {s \in DOMAIN live : /\ live[s].offPath
                         /\ live[s].inst.mem = "store" /\ live[s].inst.addr = a}

RecoverStores(map, live) ==
    [a \in Addrs |->
        IF OffStores(live, a) = {} THEN [map[a] EXCEPT !.flag = FALSE]
        ELSE [map[a] EXCEPT !.off = Youngest(live, OffStores(live, a)), !.flag = TRUE]]

-----------------------------------------------------------------------------
(* Dependences and wake-up lists.                                           *)

\* Slip: an op reads the writers on the path only.
OnPathDeps(regMap, storeMap, live, inst) ==
    {[ref |-> regMap[r].on, type |-> "reg"] : r \in inst.srcs}

\* The sources of a fetched instruction: the last writer of each register it
\* reads, ready or not, and the last store a load may take its value from.
Deps(regMap, storeMap, live, inst) ==
    {[ref |-> ReadReg(regMap, r), type |-> "reg"] : r \in inst.srcs}
    \cup (IF inst.mem = "load" /\ ReadStore(storeMap, inst.addr) # 0
          THEN {[ref |-> RefTo(live, ReadStore(storeMap, inst.addr)), type |-> "data"]}
          ELSE {})

\* Slip: an op waits for a source that has already woken the others.
JoinTooLate(live, S) ==
    [t \in DOMAIN live |->
        [live[t] EXCEPT
            !.notRdy = IF t \in S THEN {d \in @ : Valid(live, d.ref)} ELSE @,
            !.wakeUp = @ \cup {e \in [ref : {RefTo(live, s) : s \in S}, type : DepTypes] :
                                  [ref |-> RefTo(live, t), type |-> e.type]
                                      \in live[e.ref.slot].notRdy}]]

\* add_to_wake_up_lists for the ops S that reach the map stage: an op joins the
\* list of every source still in flight and stops waiting for the others.
AddToWakeUpLists(live, S) ==
    [t \in DOMAIN live |->
        [live[t] EXCEPT
            !.notRdy = IF t \notin S THEN @
                       ELSE {d \in @ : /\ Valid(live, d.ref)
                                       /\ d.type \notin live[d.ref.slot].signaled},
            !.wakeUp = @ \cup {e \in [ref : {RefTo(live, s) : s \in S}, type : DepTypes] :
                                  [ref |-> RefTo(live, t), type |-> e.type]
                                      \in live[e.ref.slot].notRdy}]]

\* wake_up_ops, with cmp_wake as its action: the waiting ops that are still the
\* ones that joined the list lose the bit, and one that waits in a reservation
\* station for nothing else becomes ready.
WakeUpOps(live, s, type) ==
    LET bit == [ref |-> RefTo(live, s), type |-> type]
        woken == {t \in DOMAIN live : /\ [ref |-> RefTo(live, t), type |-> type]
                                             \in live[s].wakeUp
                                      /\ bit \in live[t].notRdy}
    IN [t \in DOMAIN live |->
          [live[t] EXCEPT
             !.notRdy = IF t \in woken THEN @ \ {bit} ELSE @,
             !.state = IF t \in woken /\ @ = "IN_RS" /\ live[t].notRdy = {bit}
                       THEN "READY" ELSE @,
             !.signaled = IF t = s THEN @ \cup {type} ELSE @]]

\* The ops that a change of the pool makes ready join the ready list.
NewlyReady(before, after) ==
    {t \in DOMAIN before : before[t].state = "IN_RS" /\ after[t].state = "READY"}

=============================================================================

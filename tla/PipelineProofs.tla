--------------------------- MODULE PipelineProofs ---------------------------
(***************************************************************************)
(* The reservation stations of the pipeline are exact, for any number of   *)
(* ops, stations, functional units, registers and any program, as long as  *)
(* no cycle fills as many ops as the fill width.  The count of a station changes where an op is    *)
(* filled, where it is seen to be scheduled and where it is flushed, and   *)
(* each of the three judges from the op's state; the invariant ties these  *)
(* states to the ready list, to the functional units and to the order of   *)
(* the ops.                                                                *)
(***************************************************************************)
EXTENDS Pipeline, ExtremumLemmas, FiniteSetTheorems

Busy == {"SCHEDULED", "MISS", "WAIT_DCACHE", "WAIT_MEM"}

Depth == [ic |-> 1, dec |-> 2, map |-> 3, node |-> 4]

\* Ops are numbered in the order they were fetched, and no op overtakes another on
\* its way to the reorder buffer.
AgeOrder ==
    /\ \A s, t \in DOMAIN ops : ops[s].num = ops[t].num => s = t
    /\ \A s, t \in DOMAIN ops :
         Depth[ops[s].stage] > Depth[ops[t].stage] => ops[s].num < ops[t].num
    /\ \A s \in DOMAIN ops : ops[s].num < fetch.opCount

StateOfStage ==
    \A s \in DOMAIN ops : /\ ops[s].stage # "node" => ops[s].state = "FETCHED"
                          /\ ops[s].done => ops[s].state = "SCHEDULED"

\* An op that was handed to a unit stays on the ready list until the node stage has
\* seen it.
ReadyList ==
    /\ \A s \in DOMAIN ops : ops[s].state = "READY" => s \in ready
    /\ \A s \in ready : \/ ops[s].state = "READY"
                        \/ /\ ops[s].state = "SCHEDULED"
                           /\ phase \in {"exec", "issue", "handle"}

SchedReady ==
    /\ \A f \in FUs : sched[f] # 0 => ops[sched[f]].state = "READY"
    /\ \A f, g \in FUs : sched[f] = sched[g] => sched[f] = 0 \/ f = g

\* An op is in one place of the memory pipeline only, and not done.
InUnits ==
    /\ \A f \in FUs : exec[f] # 0 => ops[exec[f]].state \in Busy /\ ~ops[exec[f]].done
    /\ \A f \in FUs : dc[f] # 0 => ops[dc[f]].state \in Busy /\ ~ops[dc[f]].done
    /\ \A f, g \in FUs : exec[f] = exec[g] => exec[f] = 0 \/ f = g
    /\ \A f, g \in FUs : dc[f] = dc[g] => dc[f] = 0 \/ f = g
    /\ \A f, g \in FUs : exec[f] = dc[g] => exec[f] = 0
    /\ \A ref \in misses : Valid(ops, ref) =>
         /\ ops[ref.slot].state \in Busy
         /\ \A f \in FUs : exec[f] # ref.slot /\ dc[f] # ref.slot

Issued == {s \in Node : ops[s].state = "ISSUED"}

\* The ops that wait for a place are the youngest of the reorder buffer, and
\* next_op_into_rs is the first of them.
NextInOrder ==
    /\ nextIntoRS = 0 => Issued = {}
    /\ nextIntoRS # 0 => /\ nextIntoRS \in Issued
                         /\ \A t \in Issued : ops[nextIntoRS].num <= ops[t].num
    /\ \A s \in Node \ Issued, t \in Issued : ops[s].num < ops[t].num

IInv == /\ TypeOK /\ AgeOrder /\ StateOfStage /\ ReadyList /\ SchedReady
        /\ InUnits /\ NextInOrder /\ RSCountExact

\* The turn of node_fill_rs that is next fills the last op of the width.  The loop is
\* then left without moving next_op_into_rs on, and all that depends on it is lost.
WidthReached ==
    /\ FillWidth # 0
    /\ phase = "fill" /\ nextIntoRS # 0 /\ count + 1 = FillWidth
    /\ \E r \in Stations : Emptiest(r)

-----------------------------------------------------------------------------
(* The operators of RegisterMap.                                            *)

\* The search for the oldest op finds it.
LEMMA OldestFound ==
    ASSUME NEW live, NEW S, S # {}, \A s \in S : live[s].num \in Nat
    PROVE  /\ Oldest(live, S) \in S
           /\ \A t \in S : live[Oldest(live, S)].num <= live[t].num
<1> DEFINE f == [s \in S |-> live[s].num]
<1>1. f \in [S -> Nat]
  OBVIOUS
<1>2. \E s \in S : \A t \in S : f[s] <= f[t]
  <2> HIDE DEF f
  <2> QED  BY <1>1, MinimumAttained
<1>3. \E s \in S : \A t \in S : live[s].num <= live[t].num
  BY <1>2
<1>4. QED
  BY <1>3 DEF Oldest

\* ... and the search for the youngest.
LEMMA YoungestFound ==
    ASSUME NEW live, NEW S, S # {}, NEW b \in Nat, \A s \in S : live[s].num \in 0 .. b
    PROVE  Youngest(live, S) \in S
<1> DEFINE f == [s \in S |-> live[s].num]
<1>1. f \in [S -> 0 .. b]
  OBVIOUS
<1>2. \E s \in S : \A t \in S : f[t] <= f[s]
  <2> HIDE DEF f
  <2> QED  BY <1>1, MaximumAttained
<1>3. \E s \in S : \A t \in S : live[t].num <= live[s].num
  BY <1>2
<1>4. QED
  BY <1>3 DEF Youngest

LEMMA RefTyped ==
    ASSUME NEW live, live \in [DOMAIN live -> Op], DOMAIN live \subseteq Nat,
           NEW s \in DOMAIN live
    PROVE  RefTo(live, s) \in Ref
<1>1. live[s].unique \in Nat
  BY DEF Op
<1>2. QED
  BY <1>1 DEF RefTo, Ref

\* wake_up_ops takes bits away and makes waiting ops ready, nothing else.
LEMMA WakeUpFrame ==
    ASSUME NEW live, live \in [DOMAIN live -> Op], NEW s \in DOMAIN live,
           NEW type \in DepTypes
    PROVE  /\ WakeUpOps(live, s, type) \in [DOMAIN live -> Op]
           /\ \A t \in DOMAIN live :
                LET new == WakeUpOps(live, s, type)[t]
                IN /\ new.num = live[t].num
                   /\ new.stage = live[t].stage
                   /\ new.rs = live[t].rs
                   /\ new.unique = live[t].unique
                   /\ new.done = live[t].done
                   /\ \/ new.state = live[t].state
                      \/ live[t].state = "IN_RS" /\ new.state = "READY"
<1> DEFINE bit == [ref |-> RefTo(live, s), type |-> type]
           woken == {t \in DOMAIN live : /\ [ref |-> RefTo(live, t), type |-> type]
                                                \in live[s].wakeUp
                                         /\ bit \in live[t].notRdy}
           notRdy(t) == IF t \in woken THEN live[t].notRdy \ {bit} ELSE live[t].notRdy
           state(t) == IF t \in woken /\ live[t].state = "IN_RS" /\ live[t].notRdy = {bit}
                       THEN "READY" ELSE live[t].state
           signaled(t) == IF t = s THEN live[t].signaled \cup {type} ELSE live[t].signaled
           new(t) == [live[t] EXCEPT !.notRdy = notRdy(t), !.state = state(t),
                                     !.signaled = signaled(t)]
<1>1. WakeUpOps(live, s, type) = [t \in DOMAIN live |-> new(t)]
  BY Zenon DEF WakeUpOps
<1>2. ASSUME NEW t \in DOMAIN live
      PROVE  /\ new(t) \in Op
             /\ new(t).num = live[t].num
             /\ new(t).stage = live[t].stage
             /\ new(t).rs = live[t].rs
             /\ new(t).unique = live[t].unique
             /\ new(t).done = live[t].done
             /\ \/ new(t).state = live[t].state
                \/ live[t].state = "IN_RS" /\ new(t).state = "READY"
  <2>1. live[t] \in Op
    OBVIOUS
  <2>2. /\ notRdy(t) \in SUBSET Dep
        /\ signaled(t) \in SUBSET DepTypes
        /\ state(t) = live[t].state \/ (live[t].state = "IN_RS" /\ state(t) = "READY")
    <3> HIDE DEF bit, woken
    <3> QED  BY <2>1 DEF Op
  <2> HIDE DEF notRdy, state, signaled
  <2>3. QED
    BY <2>1, <2>2 DEF Op
<1> HIDE DEF new
<1>3. QED
  BY <1>1, <1>2

\* add_to_wake_up_lists touches the dependences only.
LEMMA JoinFrame ==
    ASSUME NEW live, live \in [DOMAIN live -> Op], DOMAIN live \subseteq Nat,
           NEW S \in SUBSET DOMAIN live
    PROVE  /\ AddToWakeUpLists(live, S) \in [DOMAIN live -> Op]
           /\ \A t \in DOMAIN live :
                LET new == AddToWakeUpLists(live, S)[t]
                IN /\ new.num = live[t].num
                   /\ new.stage = live[t].stage
                   /\ new.rs = live[t].rs
                   /\ new.unique = live[t].unique
                   /\ new.done = live[t].done
                   /\ new.state = live[t].state
<1> DEFINE joins == [ref : {RefTo(live, s) : s \in S}, type : DepTypes]
           notRdy(t) == IF t \notin S THEN live[t].notRdy
                        ELSE {d \in live[t].notRdy :
                                 /\ Valid(live, d.ref)
                                 /\ d.type \notin live[d.ref.slot].signaled}
           wakeUp(t) == live[t].wakeUp \cup
                        {e \in joins : [ref |-> RefTo(live, t), type |-> e.type]
                                           \in live[e.ref.slot].notRdy}
           new(t) == [live[t] EXCEPT !.notRdy = notRdy(t), !.wakeUp = wakeUp(t)]
<1>1. AddToWakeUpLists(live, S) = [t \in DOMAIN live |-> new(t)]
  BY Zenon DEF AddToWakeUpLists
<1>2. joins \subseteq Dep
  <2>1. \A s \in S : RefTo(live, s) \in Ref
    BY RefTyped
  <2> QED  BY <2>1 DEF Dep
<1> HIDE DEF joins
<1>3. ASSUME NEW t \in DOMAIN live
      PROVE  /\ new(t) \in Op
             /\ new(t).num = live[t].num
             /\ new(t).stage = live[t].stage
             /\ new(t).rs = live[t].rs
             /\ new(t).unique = live[t].unique
             /\ new(t).done = live[t].done
             /\ new(t).state = live[t].state
  <2>1. live[t] \in Op
    OBVIOUS
  <2>2. live[t].notRdy \subseteq Dep /\ live[t].wakeUp \subseteq Dep
    BY <2>1 DEF Op
  <2>3. notRdy(t) \subseteq Dep /\ wakeUp(t) \subseteq Dep
    BY <1>2, <2>2
  <2> HIDE DEF notRdy, wakeUp
  <2>4. QED
    BY <2>1, <2>3 DEF Op
<1> HIDE DEF new
<1>4. QED
  BY <1>1, <1>3

StoreEntry(P) == [on : P, off : P, flag : BOOLEAN]

\* delete_store_hash_entry leaves no pointer to a freed op.
LEMMA FreeStoresTyped ==
    ASSUME NEW P, NEW map \in [Addrs -> StoreEntry(P)], NEW gone, 0 \in P
    PROVE  FreeStores(map, gone) \in [Addrs -> StoreEntry((P \ gone) \cup {0})]
<1> DEFINE on(a)  == IF map[a].on \in gone THEN 0 ELSE map[a].on
           off(a) == IF map[a].off \in gone THEN 0 ELSE map[a].off
           flag(a) == map[a].flag /\ <<on(a), off(a)>> # <<0, 0>>
<1>1. FreeStores(map, gone) = [a \in Addrs |-> [on |-> on(a), off |-> off(a), flag |-> flag(a)]]
  BY Zenon DEF FreeStores
<1>2. ASSUME NEW a \in Addrs
      PROVE  /\ on(a) \in (P \ gone) \cup {0}
             /\ off(a) \in (P \ gone) \cup {0}
             /\ flag(a) \in BOOLEAN
  <2>1. map[a].on \in P /\ map[a].off \in P
    BY DEF StoreEntry
  <2>2. flag(a) \in BOOLEAN
    BY Zenon
  <2>3. QED
    BY <2>1, <2>2
<1> HIDE DEF on, off, flag
<1>3. QED
  BY <1>1, <1>2 DEF StoreEntry

LEMMA RecoverStoresTyped ==
    ASSUME NEW live, NEW b \in Nat, \A s \in DOMAIN live : live[s].num \in 0 .. b,
           NEW P, DOMAIN live \subseteq P, NEW map \in [Addrs -> StoreEntry(P)]
    PROVE  RecoverStores(map, live) \in [Addrs -> StoreEntry(P)]
<1>1. ASSUME NEW a \in Addrs, OffStores(live, a) # {}
      PROVE  Youngest(live, OffStores(live, a)) \in P
  <2>1. OffStores(live, a) \subseteq DOMAIN live
    BY DEF OffStores
  <2>2. Youngest(live, OffStores(live, a)) \in OffStores(live, a)
    <3> DEFINE S == OffStores(live, a)
    <3>1. S # {} /\ \A s \in S : live[s].num \in 0 .. b
      BY <1>1, <2>1
    <3> HIDE DEF S
    <3>2. Youngest(live, S) \in S
      BY <3>1, YoungestFound
    <3> QED  BY <3>2 DEF S
  <2>3. QED
    BY <2>1, <2>2
<1>2. \A a \in Addrs : map[a] \in StoreEntry(P)
  OBVIOUS
<1>3. QED
  BY <1>1, <1>2 DEF RecoverStores, StoreEntry

RegEntry == [on : Ref, off : Ref, flag : BOOLEAN]

LEMMA RecoverRegsTyped ==
    ASSUME NEW live, live \in [DOMAIN live -> Op], DOMAIN live \subseteq Nat,
           NEW b \in Nat, \A s \in DOMAIN live : live[s].num \in 0 .. b,
           NEW map \in [Regs -> RegEntry]
    PROVE  RecoverRegs(map, live) \in [Regs -> RegEntry]
<1>1. ASSUME NEW r \in Regs, OffWriters(live, r) # {}
      PROVE  RefTo(live, Youngest(live, OffWriters(live, r))) \in Ref
  <2>1. OffWriters(live, r) \subseteq DOMAIN live
    BY DEF OffWriters
  <2>2. Youngest(live, OffWriters(live, r)) \in OffWriters(live, r)
    <3> DEFINE S == OffWriters(live, r)
    <3>1. S # {} /\ \A s \in S : live[s].num \in 0 .. b
      BY <1>1, <2>1
    <3> HIDE DEF S
    <3>2. Youngest(live, S) \in S
      BY <3>1, YoungestFound
    <3> QED  BY <3>2 DEF S
  <2>3. QED
    BY <2>1, <2>2, RefTyped
<1>2. \A r \in Regs : map[r] \in RegEntry
  OBVIOUS
<1>3. QED
  BY <1>1, <1>2 DEF RecoverRegs, RegEntry

LEMMA WriteRegsTyped ==
    ASSUME NEW map \in [Regs -> RegEntry], NEW dests, NEW ref \in Ref, NEW offPath
    PROVE  WriteRegs(map, dests, ref, offPath) \in [Regs -> RegEntry]
<1>1. \A r \in Regs : map[r] \in RegEntry
  OBVIOUS
<1>2. QED
  BY <1>1 DEF WriteRegs, RegEntry

LEMMA DepsTyped ==
    ASSUME NEW live, live \in [DOMAIN live -> Op], DOMAIN live \subseteq Nat,
           NEW rmap \in [Regs -> RegEntry],
           NEW smap \in [Addrs -> StoreEntry(DOMAIN live \cup {0})],
           NEW inst \in Insts
    PROVE  Deps(rmap, smap, live, inst) \in SUBSET Dep
<1>1. inst.srcs \subseteq Regs /\ inst.addr \in Addrs
  BY InstsAssumption
<1>2. ASSUME NEW r \in inst.srcs
      PROVE  [ref |-> ReadReg(rmap, r), type |-> "reg"] \in Dep
  <2>1. rmap[r] \in RegEntry
    BY <1>1
  <2>2. ReadReg(rmap, r) \in Ref
    BY <2>1 DEF ReadReg, RegEntry
  <2>3. QED
    BY <2>2 DEF Dep, DepTypes
<1>3. ASSUME ReadStore(smap, inst.addr) # 0
      PROVE  [ref |-> RefTo(live, ReadStore(smap, inst.addr)), type |-> "data"] \in Dep
  <2>1. smap[inst.addr] \in StoreEntry(DOMAIN live \cup {0})
    BY <1>1
  <2>2. ReadStore(smap, inst.addr) \in DOMAIN live \cup {0}
    BY <2>1 DEF ReadStore, StoreEntry
  <2>3. RefTo(live, ReadStore(smap, inst.addr)) \in Ref
    BY <2>2, <1>3, RefTyped
  <2>4. QED
    BY <2>3 DEF Dep, DepTypes
<1>4. QED
  BY <1>2, <1>3 DEF Deps

-----------------------------------------------------------------------------
(* The invariant.                                                           *)

LEMMA InitHolds == Init => IInv
<1> SUFFICES ASSUME Init PROVE IInv
  OBVIOUS
<1>1. DOMAIN ops = {} /\ ready = {} /\ misses = {}
  BY DEF Init
<1>2. TypeOK
  <2>1. IsFiniteSet(DOMAIN ops) /\ ops \in [DOMAIN ops -> Op]
    BY <1>1, FS_EmptySet DEF Init
  <2>2. /\ regMap \in [Regs -> [on : Ref, off : Ref, flag : BOOLEAN]]
        /\ storeMap \in [Addrs -> [on : Pointer, off : Pointer, flag : BOOLEAN]]
    BY DEF Init, RegMapInit, StoreMapInit, Pointer, Ref, Nobody
  <2>3. /\ recovery \in [num : Nat, offPath : BOOLEAN]
        /\ redirect \in [slot : Nat, num : Nat, due : BOOLEAN]
        /\ fetch \in [next : {"FETCH", "WAIT_MISS", "WAIT_REDIRECT", "WAIT_EMPTY_ROB"},
                      offPath : BOOLEAN, backOnPath : BOOLEAN, opCount : Nat \ {0}]
    BY DEF Init, NoRecovery, NoRedirect
  <2>4. /\ rsCount \in [Stations -> 0 .. StationSize]
        /\ sched \in [FUs -> Pointer] /\ exec \in [FUs -> Pointer] /\ dc \in [FUs -> Pointer]
        /\ nextIntoRS \in Pointer
    BY StationsAssumption DEF Init, Pointer
  <2>5. QED
    BY <1>1, <2>1, <2>2, <2>3, <2>4 DEF Init, TypeOK
<1>3. RSCountExact
  <2>1. \A r \in Stations : Held(r) = {}
    BY <1>1 DEF Held, Node, In
  <2>2. QED
    BY <2>1, FS_EmptySet DEF RSCountExact, Init
<1>4. Issued = {} /\ Node = {}
  BY <1>1 DEF Issued, Node, In
<1>5. QED
  BY <1>1, <1>2, <1>3, <1>4
     DEF Init, IInv, AgeOrder, StateOfStage, ReadyList, SchedReady, InUnits, NextInOrder

\* The ops keep their numbers, stages, stations and unique numbers.
Steady ==
    /\ DOMAIN ops' = DOMAIN ops
    /\ \A s \in DOMAIN ops : /\ ops'[s].num = ops[s].num
                             /\ ops'[s].stage = ops[s].stage
                             /\ ops'[s].rs = ops[s].rs
                             /\ ops'[s].unique = ops[s].unique

LEMMA AgeOrderSteady ==
    ASSUME AgeOrder, Steady, fetch'.opCount = fetch.opCount
    PROVE  AgeOrder'
  BY DEF AgeOrder, Steady

\* The steps that only move on in the cycle, or in fetch.
LEMMA QuietStep ==
    ASSUME IInv, UNCHANGED <<ops, maps, nextIntoRS, ready, rsCount, sched, exec, dc, misses>>,
           fetch'.opCount = fetch.opCount,
           phase \in {"exec", "issue", "handle"} => phase' \in {"exec", "issue", "handle"},
           TypeOK'
    PROVE  IInv'
<1>1. Node' = Node /\ Issued' = Issued /\ \A r : Held(r)' = Held(r)
  BY DEF Node, In, Issued, Held
<1>2. Steady /\ AgeOrder
  BY DEF Steady, IInv
<1>3. AgeOrder'
  BY <1>2, AgeOrderSteady
<1>4. StateOfStage' /\ ReadyList' /\ SchedReady'
  BY DEF IInv, StateOfStage, ReadyList, SchedReady
<1>5. InUnits'
  BY DEF IInv, InUnits, Valid
<1>6. NextInOrder'
  BY <1>1 DEF IInv, NextInOrder
<1>7. RSCountExact'
  BY <1>1 DEF IInv, RSCountExact
<1>8. QED
  BY <1>3, <1>4, <1>5, <1>6, <1>7 DEF IInv

Quiet ==
    \/ NoStream \/ IcacheFill \/ MemoryDone \/ DcacheDone \/ ExecDone \/ IssueDone
    \/ FillDone \/ RetireDone \/ FetchEnd \/ FetchIdle \/ UNCHANGED vars
    \/ \E next \in {"FETCH", "WAIT_MISS"} : FetchMiss(next)

LEMMA QuietHolds == IInv /\ Quiet => IInv'
<1> SUFFICES ASSUME IInv, Quiet PROVE IInv'
  OBVIOUS
<1> USE DEF maps, streams, window, units, vars
<1>1. /\ UNCHANGED <<ops, maps, nextIntoRS, ready, rsCount, sched, exec, dc, misses>>
      /\ UNCHANGED <<recovery, redirect, retOp>>
  BY DEF Quiet, NoStream, IcacheFill, MemoryDone, DcacheDone, ExecDone, IssueDone,
         FillDone, RetireDone, FetchEnd, FetchMiss, FetchIdle
<1>2. /\ todo' \subseteq FUs
      /\ count' \in Nat
      /\ phase' \in {"istreams", "memory", "dcache", "exec", "issue", "handle", "fill",
                     "retire", "map", "decode", "icache", "sched"}
      /\ phase \in {"exec", "issue", "handle"} => phase' \in {"exec", "issue", "handle"}
  BY DEF Quiet, NoStream, IcacheFill, MemoryDone, DcacheDone, ExecDone, IssueDone,
         FillDone, RetireDone, FetchEnd, FetchMiss, FetchIdle, CanFetch, IInv, TypeOK
<1>3. /\ fetch' \in [next : {"FETCH", "WAIT_MISS", "WAIT_REDIRECT", "WAIT_EMPTY_ROB"},
                     offPath : BOOLEAN, backOnPath : BOOLEAN, opCount : Nat \ {0}]
      /\ fetch'.opCount = fetch.opCount
  <2>1. fetch \in [next : {"FETCH", "WAIT_MISS", "WAIT_REDIRECT", "WAIT_EMPTY_ROB"},
                   offPath : BOOLEAN, backOnPath : BOOLEAN, opCount : Nat \ {0}]
    BY DEF IInv, TypeOK
  <2>2. OffPath \in BOOLEAN
    BY <2>1 DEF OffPath
  <2>3. \/ fetch' = fetch
        \/ \E next \in {"FETCH", "WAIT_MISS"} : fetch' = [fetch EXCEPT !.next = next]
        \/ fetch' = [fetch EXCEPT !.offPath = OffPath, !.backOnPath = FALSE]
        \/ \E next \in {"FETCH", "WAIT_MISS"} :
             fetch' = [fetch EXCEPT !.offPath = OffPath, !.backOnPath = FALSE, !.next = next]
    BY DEF Quiet, NoStream, IcacheFill, MemoryDone, DcacheDone, ExecDone, IssueDone,
           FillDone, RetireDone, FetchEnd, FetchMiss, FetchIdle
  <2>4. QED
    BY <2>1, <2>2, <2>3
<1>4. TypeOK'
  BY <1>1, <1>2, <1>3 DEF IInv, TypeOK, Pointer
<1>5. QED
  BY <1>1, <1>2, <1>3, <1>4, QuietStep

\* A unit refuses its op, or ops are offered to the units.
LEMMA SchedHolds ==
    ASSUME IInv, UNCHANGED <<ops, maps, streams, retOp, window, exec, dc, misses, count>>,
           sched' \in [FUs -> ready \cup {0}],
           \A f \in FUs : sched'[f] # 0 => ops[sched'[f]].state = "READY",
           \A f, g \in FUs : sched'[f] = sched'[g] => sched'[f] = 0 \/ f = g,
           phase' \in {"exec", "istreams"},
           phase' = "istreams" => phase = "sched",
           todo' \subseteq FUs
    PROVE  IInv'
<1> USE DEF maps, streams, window
<1>1. Node' = Node /\ Issued' = Issued /\ \A r : Held(r)' = Held(r)
  BY DEF Node, In, Issued, Held
<1>2. TypeOK'
  BY DEF IInv, TypeOK, Pointer
<1>3. Steady /\ AgeOrder
  BY DEF Steady, IInv
<1>4. AgeOrder'
  BY <1>3, AgeOrderSteady
<1>5. StateOfStage' /\ ReadyList' /\ SchedReady'
  BY DEF IInv, StateOfStage, ReadyList, SchedReady
<1>6. InUnits'
  BY DEF IInv, InUnits, Valid
<1>7. NextInOrder'
  BY <1>1 DEF IInv, NextInOrder
<1>8. RSCountExact'
  BY <1>1 DEF IInv, RSCountExact
<1>9. QED
  BY <1>2, <1>4, <1>5, <1>6, <1>7, <1>8 DEF IInv

LEMMA RejectHolds == ASSUME IInv, NEW f \in FUs, Reject(f) PROVE IInv'
<1>1. sched \in [FUs -> DOMAIN ops \cup {0}] /\ todo \subseteq FUs
  BY DEF IInv, TypeOK, Pointer
<1>2. \A g \in FUs : sched[g] # 0 => sched[g] \in ready
  BY <1>1 DEF IInv, SchedReady, ReadyList
<1>3. sched' = [sched EXCEPT ![f] = 0] /\ phase' = "exec" /\ todo' \subseteq FUs
  BY <1>1 DEF Reject
<1>4. sched' \in [FUs -> ready \cup {0}]
  BY <1>1, <1>2, <1>3
<1>5. /\ \A g \in FUs : sched'[g] # 0 => ops[sched'[g]].state = "READY"
      /\ \A g, h \in FUs : sched'[g] = sched'[h] => sched'[g] = 0 \/ g = h
  BY <1>1, <1>3 DEF IInv, SchedReady
<1>6. QED
  BY <1>3, <1>4, <1>5, SchedHolds DEF Reject

LEMMA ScheduleHolds ==
    ASSUME IInv, NEW pick \in [FUs -> ready \cup {0}], Schedule(pick) PROVE IInv'
<1>1. \A s \in ready : ops[s].state = "READY"
  BY DEF IInv, ReadyList, Schedule
<1>2. todo \subseteq FUs
  BY DEF IInv, TypeOK
<1>3. QED
  BY <1>1, <1>2, SchedHolds DEF Schedule

\* The front end moves ops towards the reorder buffer: nothing the stations see changes.
LEMMA FrontEndStep ==
    ASSUME IInv, DOMAIN ops' = DOMAIN ops, ops' \in [DOMAIN ops -> Op],
           \A s \in DOMAIN ops : /\ ops'[s].num = ops[s].num
                                 /\ ops'[s].state = ops[s].state
                                 /\ ops'[s].rs = ops[s].rs
                                 /\ ops'[s].unique = ops[s].unique
                                 /\ ops'[s].done = ops[s].done
                                 /\ ops'[s].stage = "node" <=> ops[s].stage = "node",
           UNCHANGED <<maps, recovery, retOp, window, units, todo, count>>,
           redirect' \in [slot : Nat, num : Nat, due : BOOLEAN],
           fetch' \in [next : {"FETCH", "WAIT_MISS", "WAIT_REDIRECT", "WAIT_EMPTY_ROB"},
                       offPath : BOOLEAN, backOnPath : BOOLEAN, opCount : Nat \ {0}],
           phase \notin {"exec", "issue", "handle"},
           phase' \in {"memory", "decode", "icache"},
           AgeOrder'
    PROVE  IInv'
<1> USE DEF maps, window, units
<1>1. Node' = Node /\ Issued' = Issued /\ \A r : Held(r)' = Held(r)
  BY DEF Node, In, Issued, Held
<1>2. TypeOK'
  <2>1. IsFiniteSet(DOMAIN ops)'
    BY DEF IInv, TypeOK
  <2>2. QED
    BY <2>1 DEF IInv, TypeOK, Pointer
<1>3. ready \subseteq DOMAIN ops /\ sched \in [FUs -> DOMAIN ops \cup {0}]
      /\ exec \in [FUs -> DOMAIN ops \cup {0}] /\ dc \in [FUs -> DOMAIN ops \cup {0}]
  BY DEF IInv, TypeOK, Pointer
<1>4. StateOfStage'
  BY DEF IInv, StateOfStage
<1>5. ReadyList'
  BY <1>3 DEF IInv, ReadyList
<1>6. SchedReady'
  BY <1>3 DEF IInv, SchedReady
<1>7. InUnits'
  BY <1>3 DEF IInv, InUnits, Valid
<1>8. NextInOrder'
  <2>1. Issued \subseteq DOMAIN ops /\ Node \subseteq DOMAIN ops
    BY DEF Issued, Node, In
  <2>2. QED
    BY <1>1, <2>1 DEF IInv, NextInOrder
<1>9. RSCountExact'
  BY <1>1 DEF IInv, RSCountExact
<1>10. QED
  BY <1>2, <1>4, <1>5, <1>6, <1>7, <1>8, <1>9 DEF IInv

LEMMA RedirectHolds == ASSUME IInv, Redirect PROVE IInv'
<1>1. /\ ops \in [DOMAIN ops -> Op]
      /\ redirect \in [slot : Nat, num : Nat, due : BOOLEAN]
      /\ fetch \in [next : {"FETCH", "WAIT_MISS", "WAIT_REDIRECT", "WAIT_EMPTY_ROB"},
                    offPath : BOOLEAN, backOnPath : BOOLEAN, opCount : Nat \ {0}]
  BY DEF IInv, TypeOK
<1>2. /\ ops' = [ops EXCEPT ![redirect.slot].redirectSched = FALSE]
      /\ fetch' = [fetch EXCEPT !.next = "FETCH",
                                !.backOnPath = ~(ops[redirect.slot].offPath
                                                 \/ ops[redirect.slot].wrong)]
      /\ redirect' = NoRedirect
      /\ phase = "istreams" /\ phase' = "memory"
  BY DEF Redirect
<1>3. /\ DOMAIN ops' = DOMAIN ops
      /\ ops' \in [DOMAIN ops -> Op]
      /\ \A s \in DOMAIN ops : /\ ops'[s].num = ops[s].num
                               /\ ops'[s].state = ops[s].state
                               /\ ops'[s].rs = ops[s].rs
                               /\ ops'[s].unique = ops[s].unique
                               /\ ops'[s].done = ops[s].done
                               /\ ops'[s].stage = ops[s].stage
  <2> DEFINE new(s) == [ops[s] EXCEPT !.redirectSched = FALSE]
  <2>1. \A s \in DOMAIN ops : /\ new(s) \in Op
                               /\ new(s).num = ops[s].num
                               /\ new(s).state = ops[s].state
                               /\ new(s).rs = ops[s].rs
                               /\ new(s).unique = ops[s].unique
                               /\ new(s).done = ops[s].done
                               /\ new(s).stage = ops[s].stage
    <3> SUFFICES ASSUME NEW s \in DOMAIN ops, NEW op \in Op, op = ops[s]
                 PROVE  LET o == [op EXCEPT !.redirectSched = FALSE]
                        IN /\ o \in Op /\ o.num = op.num /\ o.state = op.state /\ o.rs = op.rs
                           /\ o.unique = op.unique /\ o.done = op.done /\ o.stage = op.stage
      BY <1>1
    <3> QED  BY DEF Op
  <2>2. /\ DOMAIN ops' = DOMAIN ops
        /\ \A s \in DOMAIN ops : ops'[s] = ops[s] \/ ops'[s] = new(s)
        /\ ops' = [s \in DOMAIN ops |-> ops'[s]]
    BY <1>1, <1>2
  <2> HIDE DEF new
  <2>3. QED
    BY <1>1, <2>1, <2>2
<1>4. /\ fetch' \in [next : {"FETCH", "WAIT_MISS", "WAIT_REDIRECT", "WAIT_EMPTY_ROB"},
                     offPath : BOOLEAN, backOnPath : BOOLEAN, opCount : Nat \ {0}]
      /\ fetch'.opCount = fetch.opCount
  <2> DEFINE back == ~(ops[redirect.slot].offPath \/ ops[redirect.slot].wrong)
  <2>1. back \in BOOLEAN
    BY Zenon
  <2>2. fetch' = [fetch EXCEPT !.next = "FETCH", !.backOnPath = back]
    BY <1>2
  <2> HIDE DEF back
  <2>3. QED
    BY <1>1, <2>1, <2>2
<1>5. redirect' \in [slot : Nat, num : Nat, due : BOOLEAN]
  BY <1>2 DEF NoRedirect
<1>6. AgeOrder'
  BY <1>3, <1>4, AgeOrderSteady DEF Steady, IInv
<1>7. QED
  BY <1>2, <1>3, <1>4, <1>5, <1>6, FrontEndStep DEF Redirect

LEMMA DecodeHolds == ASSUME IInv, DecodeStage PROVE IInv'
<1> DEFINE decoded == IF In("dec") = {} THEN In("ic") ELSE {}
           resume  == {s \in decoded : ResumesFetch(ops[s])}
           taken   == resume # {} /\ RedirectTaken(Oldest(ops, resume))
           due(s)  == ops[s].redirectSched \/ (taken /\ s = Oldest(ops, resume))
           stage(s) == IF s \in decoded THEN "dec" ELSE ops[s].stage
           new(s)  == [ops[s] EXCEPT !.stage = stage(s), !.redirectSched = due(s)]
<1>1. /\ ops \in [DOMAIN ops -> Op] /\ DOMAIN ops \subseteq Nat \ {0}
      /\ redirect \in [slot : Nat, num : Nat, due : BOOLEAN]
      /\ fetch \in [next : {"FETCH", "WAIT_MISS", "WAIT_REDIRECT", "WAIT_EMPTY_ROB"},
                    offPath : BOOLEAN, backOnPath : BOOLEAN, opCount : Nat \ {0}]
  BY DEF IInv, TypeOK
<1>2. /\ ops' = [s \in DOMAIN ops |-> new(s)]
      /\ redirect' = IF ~taken THEN redirect
                     ELSE [slot |-> Oldest(ops, resume),
                           num |-> ops[Oldest(ops, resume)].num, due |-> TRUE]
      /\ phase = "decode" /\ phase' = "icache" /\ fetch' = fetch
  BY Zenon DEF DecodeStage
<1>3. decoded \subseteq DOMAIN ops /\ \A s \in decoded : ops[s].stage = "ic"
  BY DEF In
<1>4. decoded # {} => \A s \in DOMAIN ops : ops[s].stage # "dec" /\ (ops[s].stage = "ic" => s \in decoded)
  BY DEF In
<1>5. resume \subseteq decoded
  OBVIOUS
<1>6. \A s \in DOMAIN ops : due(s) \in BOOLEAN
  BY Zenon
<1> HIDE DEF decoded
<1>7. taken => Oldest(ops, resume) \in DOMAIN ops
  <2> SUFFICES ASSUME resume # {} PROVE Oldest(ops, resume) \in resume
    BY <1>3, <1>5
  <2>1. \A s \in resume : ops[s].num \in Nat
    BY <1>1, <1>3, <1>5 DEF Op
  <2> HIDE DEF resume
  <2>2. QED
    BY <2>1, OldestFound
<1> HIDE DEF resume, taken, due
<1>8. ASSUME NEW s \in DOMAIN ops
      PROVE  /\ new(s) \in Op
             /\ new(s).num = ops[s].num
             /\ new(s).state = ops[s].state
             /\ new(s).rs = ops[s].rs
             /\ new(s).unique = ops[s].unique
             /\ new(s).done = ops[s].done
             /\ new(s).stage = stage(s)
  <2>1. ops[s] \in Op
    BY <1>1
  <2>2. stage(s) \in {"ic", "dec", "map", "node"} /\ due(s) \in BOOLEAN
    BY <1>6, <2>1 DEF Op
  <2> HIDE DEF stage
  <2>3. QED
    BY <2>1, <2>2 DEF Op
<1> HIDE DEF new
<1>9. /\ DOMAIN ops' = DOMAIN ops
      /\ ops' \in [DOMAIN ops -> Op]
      /\ \A s \in DOMAIN ops : /\ ops'[s].num = ops[s].num
                               /\ ops'[s].state = ops[s].state
                               /\ ops'[s].rs = ops[s].rs
                               /\ ops'[s].unique = ops[s].unique
                               /\ ops'[s].done = ops[s].done
                               /\ ops'[s].stage = IF s \in decoded THEN "dec" ELSE ops[s].stage
  BY <1>2, <1>8
<1>10. redirect' \in [slot : Nat, num : Nat, due : BOOLEAN]
  <2>1. taken => Oldest(ops, resume) \in Nat /\ ops[Oldest(ops, resume)].num \in Nat
    BY <1>1, <1>7 DEF Op
  <2>2. QED
    BY <1>1, <1>2, <2>1
<1>11. AgeOrder'
  <2>1. \A s \in DOMAIN ops : ops[s].stage \in {"ic", "dec", "map", "node"}
    BY <1>1 DEF Op
  <2>2. \A s \in DOMAIN ops : /\ Depth[ops[s].stage] \in Nat
                              /\ Depth[ops'[s].stage] \in Nat
    BY <1>9, <2>1 DEF Depth
  <2>3. ASSUME NEW s \in DOMAIN ops, NEW t \in DOMAIN ops,
               Depth[ops'[s].stage] > Depth[ops'[t].stage]
        PROVE  ops[s].num < ops[t].num
    <3>1. Depth[ops[s].stage] > Depth[ops[t].stage]
      BY <1>3, <1>4, <1>9, <2>1, <2>3 DEF Depth
    <3>2. QED
      BY <3>1 DEF IInv, AgeOrder
  <2>4. QED
    BY <1>2, <1>9, <2>3 DEF IInv, AgeOrder
<1>12. \A s \in DOMAIN ops : ops'[s].stage = "node" <=> ops[s].stage = "node"
  BY <1>3, <1>9
<1>13. UNCHANGED <<maps, recovery, retOp, window, units, todo, count>>
  BY DEF DecodeStage
<1>14. QED
  BY <1>1, <1>2, <1>9, <1>10, <1>11, <1>12, <1>13, FrontEndStep

LEMMA MapHolds == ASSUME IInv, MapStage PROVE IInv'
<1> DEFINE stage(s) == IF ops[s].stage = "dec" THEN "map" ELSE ops[s].stage
           new(s)   == [ops[s] EXCEPT !.stage = stage(s)]
           moved    == [s \in DOMAIN ops |-> new(s)]
<1>1. /\ ops \in [DOMAIN ops -> Op] /\ DOMAIN ops \subseteq Nat
      /\ redirect \in [slot : Nat, num : Nat, due : BOOLEAN]
      /\ fetch \in [next : {"FETCH", "WAIT_MISS", "WAIT_REDIRECT", "WAIT_EMPTY_ROB"},
                    offPath : BOOLEAN, backOnPath : BOOLEAN, opCount : Nat \ {0}]
  BY DEF IInv, TypeOK
<1>2. /\ ops' = IF In("map") # {} THEN ops ELSE AddToWakeUpLists(moved, In("dec"))
      /\ phase = "map" /\ phase' = "decode" /\ fetch' = fetch /\ redirect' = redirect
      /\ UNCHANGED <<maps, recovery, retOp, window, units, todo, count>>
  BY Zenon DEF MapStage, streams
<1>3. ASSUME NEW s \in DOMAIN ops
      PROVE  /\ new(s) \in Op
             /\ new(s).num = ops[s].num
             /\ new(s).state = ops[s].state
             /\ new(s).rs = ops[s].rs
             /\ new(s).unique = ops[s].unique
             /\ new(s).done = ops[s].done
             /\ new(s).stage = stage(s)
  <2>1. ops[s] \in Op
    BY <1>1
  <2>2. stage(s) \in {"ic", "dec", "map", "node"}
    BY <2>1 DEF Op
  <2> HIDE DEF stage
  <2>3. QED
    BY <2>1, <2>2 DEF Op
<1> HIDE DEF new
<1>4. /\ DOMAIN moved = DOMAIN ops /\ moved \in [DOMAIN moved -> Op]
      /\ DOMAIN moved \subseteq Nat /\ In("dec") \in SUBSET DOMAIN moved
      /\ \A s \in DOMAIN ops : moved[s] = new(s)
  BY <1>1, <1>3 DEF In
<1> HIDE DEF moved
<1>5. /\ DOMAIN ops' = DOMAIN ops
      /\ ops' \in [DOMAIN ops -> Op]
      /\ \A s \in DOMAIN ops : /\ ops'[s].num = ops[s].num
                               /\ ops'[s].state = ops[s].state
                               /\ ops'[s].rs = ops[s].rs
                               /\ ops'[s].unique = ops[s].unique
                               /\ ops'[s].done = ops[s].done
                               /\ ops'[s].stage = IF In("map") # {} THEN ops[s].stage ELSE stage(s)
  <2>1. CASE In("map") # {}
    BY <1>1, <1>2, <2>1
  <2>2. CASE In("map") = {}
    <3> DEFINE after == AddToWakeUpLists(moved, In("dec"))
    <3>1. /\ after \in [DOMAIN ops -> Op]
          /\ \A t \in DOMAIN ops : /\ after[t].num = moved[t].num
                                   /\ after[t].stage = moved[t].stage
                                   /\ after[t].rs = moved[t].rs
                                   /\ after[t].unique = moved[t].unique
                                   /\ after[t].done = moved[t].done
                                   /\ after[t].state = moved[t].state
      BY <1>4, JoinFrame
    <3>2. ops' = after
      BY <1>2, <2>2
    <3> HIDE DEF after
    <3> HIDE DEF stage
    <3>3. QED
      BY <1>3, <1>4, <2>2, <3>1, <3>2
  <2>3. QED
    BY <2>1, <2>2
<1>6. In("map") = {} => \A s \in DOMAIN ops : ops[s].stage # "map"
  BY DEF In
<1>7. \A s \in DOMAIN ops : ops[s].stage \in {"ic", "dec", "map", "node"}
  BY <1>1 DEF Op
<1>8. AgeOrder'
  <2>1. ASSUME NEW s \in DOMAIN ops, NEW t \in DOMAIN ops,
               Depth[ops'[s].stage] > Depth[ops'[t].stage]
        PROVE  ops[s].num < ops[t].num
    <3>1. Depth[ops[s].stage] > Depth[ops[t].stage]
      BY <1>5, <1>6, <1>7, <2>1 DEF Depth
    <3>2. QED
      BY <3>1 DEF IInv, AgeOrder
  <2>2. QED
    BY <1>2, <1>5, <2>1 DEF IInv, AgeOrder
<1>9. \A s \in DOMAIN ops : ops'[s].stage = "node" <=> ops[s].stage = "node"
  BY <1>5
<1>10. QED
  BY <1>1, <1>2, <1>5, <1>8, <1>9, FrontEndStep

\* The oldest op of the map stage becomes the youngest of the reorder buffer.
LEMMA IssueHolds == ASSUME IInv, Issue PROVE IInv'
<1> DEFINE s == Oldest(ops, In("map"))
           new == [ops[s] EXCEPT !.stage = "node", !.state = "ISSUED"]
<1> USE DEF maps, streams, window, units
<1>1. /\ ops \in [DOMAIN ops -> Op] /\ DOMAIN ops \subseteq Nat \ {0}
      /\ IsFiniteSet(DOMAIN ops)
  BY DEF IInv, TypeOK
<1>2. /\ s \in DOMAIN ops /\ ops[s].stage = "map"
      /\ \A t \in DOMAIN ops : ops[t].stage = "map" => ops[s].num <= ops[t].num
  <2> DEFINE S == In("map")
  <2>1. S # {} /\ \A t \in S : ops[t].num \in Nat
    BY <1>1 DEF Issue, CanIssue, In, Op
  <2> HIDE DEF S
  <2>2. /\ Oldest(ops, S) \in S
        /\ \A t \in S : ops[Oldest(ops, S)].num <= ops[t].num
    BY <2>1, OldestFound
  <2>3. QED
    BY <2>2 DEF S, In
<1>3. /\ ops' = [ops EXCEPT ![s] = new]
      /\ nextIntoRS' = IF nextIntoRS = 0 THEN s ELSE nextIntoRS
      /\ phase = "issue" /\ phase' \in {"handle", "issue"}
      /\ UNCHANGED <<maps, streams, retOp, ready, rsCount, units, todo, count>>
  <2> HIDE DEF s
  <2>1. ops' = [ops EXCEPT ![s].stage = "node", ![s].state = "ISSUED"]
    BY DEF Issue, s
  <2>2. QED
    BY <1>1, <1>2, <2>1 DEF Issue, s
<1>4. /\ new \in Op /\ new.num = ops[s].num /\ new.rs = ops[s].rs
      /\ new.unique = ops[s].unique /\ new.done = ops[s].done
      /\ new.stage = "node" /\ new.state = "ISSUED"
  <2> SUFFICES ASSUME NEW op \in Op
               PROVE  LET o == [op EXCEPT !.stage = "node", !.state = "ISSUED"]
                      IN /\ o \in Op /\ o.num = op.num /\ o.rs = op.rs
                         /\ o.unique = op.unique /\ o.done = op.done
                         /\ o.stage = "node" /\ o.state = "ISSUED"
    BY <1>1, <1>2
  <2> QED  BY DEF Op
<1> HIDE DEF new, s
<1>5. /\ DOMAIN ops' = DOMAIN ops
      /\ ops' \in [DOMAIN ops -> Op]
      /\ \A t \in DOMAIN ops : /\ ops'[t].num = ops[t].num
                               /\ ops'[t].rs = ops[t].rs
                               /\ ops'[t].unique = ops[t].unique
                               /\ ops'[t].done = ops[t].done
                               /\ ops'[t].stage = IF t = s THEN "node" ELSE ops[t].stage
                               /\ ops'[t].state = IF t = s THEN "ISSUED" ELSE ops[t].state
  BY <1>1, <1>2, <1>3, <1>4
<1>6. ops[s].state = "FETCHED" /\ ~ops[s].done /\ s \notin ready
  BY <1>1, <1>2 DEF IInv, StateOfStage, ReadyList
<1>7. TypeOK'
  <2>1. IsFiniteSet(DOMAIN ops)'
    BY <1>1, <1>5
  <2>2. QED
    BY <1>2, <1>3, <1>5, <2>1 DEF IInv, TypeOK, Pointer
<1>8. ready \subseteq DOMAIN ops /\ sched \in [FUs -> DOMAIN ops \cup {0}]
      /\ exec \in [FUs -> DOMAIN ops \cup {0}] /\ dc \in [FUs -> DOMAIN ops \cup {0}]
  BY DEF IInv, TypeOK, Pointer
<1>9. AgeOrder'
  <2>1. \A t \in DOMAIN ops : /\ ops[t].stage \in {"ic", "dec", "map", "node"}
                              /\ ops[t].num \in Nat
    BY <1>1 DEF Op
  <2>2. ASSUME NEW t \in DOMAIN ops, NEW u \in DOMAIN ops,
               Depth[ops'[t].stage] > Depth[ops'[u].stage]
        PROVE  ops[t].num < ops[u].num
    <3>1. CASE t = s
      <4>1. u # s /\ ops[u].stage # "node"
        BY <1>5, <2>1, <2>2, <3>1 DEF Depth
      <4>2. ops[u].stage = "map" \/ Depth[ops[s].stage] > Depth[ops[u].stage]
        BY <1>2, <2>1, <4>1 DEF Depth
      <4>3. ops[s].num # ops[u].num
        BY <1>2, <4>1 DEF IInv, AgeOrder
      <4>4. ops[s].num <= ops[u].num
        BY <1>2, <2>1, <4>2 DEF IInv, AgeOrder
      <4>5. QED
        BY <1>2, <2>1, <3>1, <4>3, <4>4
    <3>2. CASE t # s
      <4>1. Depth[ops[t].stage] > Depth[ops[u].stage]
        BY <1>2, <1>5, <2>1, <2>2, <3>2 DEF Depth
      <4>2. QED
        BY <4>1 DEF IInv, AgeOrder
    <3>3. QED
      BY <3>1, <3>2
  <2>3. QED
    BY <1>3, <1>5, <2>2 DEF IInv, AgeOrder
<1>10. StateOfStage'
  BY <1>5, <1>6 DEF IInv, StateOfStage
<1>11. ReadyList'
  BY <1>3, <1>5, <1>6, <1>8 DEF IInv, ReadyList
<1>12. SchedReady'
  BY <1>3, <1>5, <1>6, <1>8 DEF IInv, SchedReady
<1>13. InUnits'
  BY <1>3, <1>5, <1>6, <1>8 DEF IInv, InUnits, Valid, Busy
<1>14. Node' = Node \cup {s} /\ Issued' = Issued \cup {s} /\ s \notin Node
  BY <1>2, <1>5 DEF Node, In, Issued
<1>15. NextInOrder'
  <2>1. \A t \in Node : ops[t].num < ops[s].num
    BY <1>2 DEF IInv, AgeOrder, Node, In, Depth
  <2>2. Issued \subseteq Node /\ Node \subseteq DOMAIN ops
    BY DEF Issued, Node, In
  <2>3. \A t \in DOMAIN ops : ops[t].num \in Nat
    BY <1>1 DEF Op
  <2>4. 0 \notin DOMAIN ops
    BY <1>1
  <2>5. QED
    BY <1>2, <1>3, <1>5, <1>14, <2>1, <2>2, <2>3, <2>4 DEF IInv, NextInOrder
<1>16. RSCountExact'
  <2>1. \A r : Held(r)' = Held(r)
    BY <1>3, <1>5, <1>6, <1>14 DEF Held, Node, In
  <2>2. QED
    BY <1>3, <2>1 DEF IInv, RSCountExact
<1>17. QED
  BY <1>7, <1>9, <1>10, <1>11, <1>12, <1>13, <1>15, <1>16 DEF IInv

LEMMA HeldFinite ==
    ASSUME TypeOK, NEW r PROVE IsFiniteSet(Held(r)) /\ Cardinality(Held(r)) \in Nat
<1>1. Held(r) \in SUBSET DOMAIN ops
  BY DEF Held, Node, In
<1>2. IsFiniteSet(DOMAIN ops)
  BY DEF TypeOK
<1>3. QED
  BY <1>1, <1>2, FS_Subset, FS_CardinalityType

\* The ops that leave a station are taken off its count.
LEMMA Released ==
    ASSUME TypeOK, NEW r \in Stations, rsCount[r] = Cardinality(Held(r)),
           NEW G, G \subseteq Held(r)
    PROVE  /\ Cardinality(Held(r) \ G) = rsCount[r] - Cardinality(G)
           /\ rsCount[r] - Cardinality(G) \in 0 .. StationSize
<1>1. IsFiniteSet(Held(r)) /\ Cardinality(Held(r)) \in Nat
  BY HeldFinite
<1>2. Held(r) \cap G = G
  OBVIOUS
<1>3. /\ IsFiniteSet(Held(r) \ G)
      /\ Cardinality(Held(r) \ G) = Cardinality(Held(r)) - Cardinality(G)
  <2>1. /\ IsFiniteSet(Held(r) \ G)
        /\ Cardinality(Held(r) \ G) = Cardinality(Held(r)) - Cardinality(Held(r) \cap G)
    BY <1>1, FS_Difference
  <2>2. QED
    BY <1>2, <2>1
<1>4. Cardinality(Held(r) \ G) \in Nat /\ Cardinality(G) \in Nat
  BY <1>1, <1>3, FS_CardinalityType, FS_Subset
<1>5. rsCount[r] \in 0 .. StationSize
  BY DEF TypeOK
<1>6. QED
  BY <1>3, <1>4, <1>5, StationsAssumption

LEMMA HandleHolds == ASSUME IInv, HandleScheduled PROVE IInv'
<1> DEFINE leaving == {s \in ready : ops[s].state \in {"SCHEDULED", "MISS"}}
           G(r) == {s \in leaving : ops[s].rs = r}
<1> USE DEF maps, streams, window, units
<1>1. /\ ready' = ready \ leaving
      /\ rsCount' = [r \in Stations |-> rsCount[r] - Cardinality(G(r))]
      /\ phase = "handle" /\ phase' = "fill"
      /\ UNCHANGED <<ops, maps, streams, retOp, nextIntoRS, units, todo, count>>
  BY DEF HandleScheduled
<1>2. ready \subseteq DOMAIN ops
  BY DEF IInv, TypeOK
<1>3. leaving \subseteq Node
  BY <1>2 DEF IInv, StateOfStage, Node, In
<1>4. \A s \in leaving : ops[s].state # "IN_RS" /\ ops[s].state # "READY"
  OBVIOUS
<1>5. \A s \in ready \ leaving : ops[s].state = "READY"
  BY DEF IInv, ReadyList
<1>6. \A r \in Stations : G(r) \subseteq Held(r)
  BY <1>3 DEF Held
<1>7. \A r \in Stations : Held(r)' = Held(r) \ G(r)
  BY <1>1, <1>4 DEF Held, Node, In
<1>8. leaving \subseteq ready
  OBVIOUS
<1> HIDE DEF G
<1>9. ASSUME NEW r \in Stations
      PROVE  rsCount'[r] = Cardinality(Held(r)') /\ rsCount'[r] \in 0 .. StationSize
  <2>1. TypeOK /\ rsCount[r] = Cardinality(Held(r)) /\ G(r) \subseteq Held(r)
    BY <1>6 DEF IInv, RSCountExact
  <2>2. rsCount'[r] = rsCount[r] - Cardinality(G(r))
    BY <1>1
  <2>3. /\ Cardinality(Held(r) \ G(r)) = rsCount[r] - Cardinality(G(r))
        /\ rsCount[r] - Cardinality(G(r)) \in 0 .. StationSize
    BY <2>1, Released
  <2>4. QED
    BY <1>7, <2>2, <2>3
<1>10. RSCountExact'
  BY <1>9 DEF RSCountExact
<1>11. TypeOK'
  <2>1. rsCount' \in [Stations -> 0 .. StationSize]
    BY <1>1, <1>9
  <2> HIDE DEF leaving
  <2>2. QED
    BY <1>1, <2>1 DEF IInv, TypeOK, Pointer
<1>12. Node' = Node /\ Issued' = Issued
  BY <1>1 DEF Node, In, Issued
<1>13. Steady /\ AgeOrder
  BY <1>1 DEF Steady, IInv
<1>14. AgeOrder'
  BY <1>1, <1>13, AgeOrderSteady
<1>15. StateOfStage' /\ SchedReady'
  BY <1>1 DEF IInv, StateOfStage, SchedReady
<1>16. ReadyList'
  <2>1. \A s \in DOMAIN ops : ops[s].state = "READY" => s \in ready \ leaving
    BY DEF IInv, ReadyList
  <2> HIDE DEF leaving
  <2>2. QED
    BY <1>1, <1>5, <2>1 DEF ReadyList
<1>17. InUnits'
  BY <1>1 DEF IInv, InUnits, Valid
<1>18. NextInOrder'
  BY <1>1, <1>12 DEF IInv, NextInOrder
<1>19. QED
  BY <1>10, <1>11, <1>14, <1>15, <1>16, <1>17, <1>18 DEF IInv

\* One op enters a station, and the next one in the reorder buffer is the next.
LEMMA FillHolds == ASSUME IInv, ~WidthReached, NEW r \in Stations, FillRS(r) PROVE IInv'
<1> DEFINE s == nextIntoRS
           state == IF ops[s].notRdy = {} THEN "READY" ELSE "IN_RS"
           new == [ops[s] EXCEPT !.rs = r, !.state = state]
<1> USE DEF maps, streams, window, units
<1>1. /\ ops \in [DOMAIN ops -> Op] /\ DOMAIN ops \subseteq Nat \ {0}
      /\ IsFiniteSet(DOMAIN ops) /\ count \in Nat
  BY DEF IInv, TypeOK
<1>2. s \in DOMAIN ops /\ ops[s].stage = "node" /\ ops[s].state = "ISSUED"
  BY DEF FillRS, IInv, NextInOrder, Issued, Node, In
<1>3. /\ ops' = [ops EXCEPT ![s] = new]
      /\ ready' = IF state = "READY" THEN ready \cup {s} ELSE ready
      /\ rsCount' = [rsCount EXCEPT ![r] = rsCount[r] + 1]
      /\ nextIntoRS' = NextNode(s)
      /\ phase = "fill" /\ phase' = "fill" /\ count' \in Nat
      /\ Emptiest(r)
      /\ UNCHANGED <<maps, streams, retOp, units, todo>>
  <2>1. (count + 1 = FillWidth) = FALSE
    BY <1>1 DEF WidthReached, FillRS
  <2>2. ops' = [ops EXCEPT ![s].rs = r, ![s].state = state]
    BY DEF FillRS
  <2>3. ops' = [ops EXCEPT ![s] = new]
    <3> HIDE DEF state
    <3> QED  BY <1>1, <1>2, <2>2
  <2>4. count' \in Nat
    BY <1>1 DEF FillRS
  <2>5. QED
    BY <2>1, <2>3, <2>4 DEF FillRS
<1>4. state \in {"READY", "IN_RS"}
  OBVIOUS
<1> HIDE DEF state
<1>5. /\ new \in Op /\ new.num = ops[s].num /\ new.rs = r
      /\ new.unique = ops[s].unique /\ new.done = ops[s].done
      /\ new.stage = ops[s].stage /\ new.state = state
  <2> SUFFICES ASSUME NEW op \in Op
               PROVE  LET o == [op EXCEPT !.rs = r, !.state = state]
                      IN /\ o \in Op /\ o.num = op.num /\ o.rs = r
                         /\ o.unique = op.unique /\ o.done = op.done
                         /\ o.stage = op.stage /\ o.state = state
    BY <1>1, <1>2
  <2> QED  BY <1>4 DEF Op
<1> HIDE DEF new, s
<1>6. /\ DOMAIN ops' = DOMAIN ops
      /\ ops' \in [DOMAIN ops -> Op]
      /\ \A t \in DOMAIN ops : /\ ops'[t].num = ops[t].num
                               /\ ops'[t].unique = ops[t].unique
                               /\ ops'[t].done = ops[t].done
                               /\ ops'[t].stage = ops[t].stage
                               /\ ops'[t].rs = IF t = s THEN r ELSE ops[t].rs
                               /\ ops'[t].state = IF t = s THEN state ELSE ops[t].state
  BY <1>1, <1>2, <1>3, <1>5
<1>7. ~ops[s].done /\ s \notin ready
  BY <1>2 DEF IInv, StateOfStage, ReadyList
<1>8. ready \subseteq DOMAIN ops /\ sched \in [FUs -> DOMAIN ops \cup {0}]
      /\ exec \in [FUs -> DOMAIN ops \cup {0}] /\ dc \in [FUs -> DOMAIN ops \cup {0}]
      /\ rsCount \in [Stations -> 0 .. StationSize]
  BY DEF IInv, TypeOK, Pointer
<1>9. Node' = Node /\ Issued' = Issued \ {s} /\ s \in Issued
  BY <1>2, <1>4, <1>6 DEF Node, In, Issued
<1>10. NextInOrder'
  <2> DEFINE younger == {t \in Node : ops[t].num > ops[s].num}
  <2>1. \A t \in DOMAIN ops : ops[t].num \in Nat
    BY <1>1 DEF Op
  <2>2. Issued \subseteq Node /\ Node \subseteq DOMAIN ops
    BY DEF Issued, Node, In
  <2>3. /\ \A t \in Issued : ops[s].num <= ops[t].num
        /\ \A t \in Node \ Issued, u \in Issued : ops[t].num < ops[u].num
    BY <1>9 DEF IInv, NextInOrder, s
  <2>4. \A t \in Issued : t # s => ops[t].num # ops[s].num
    BY <1>2, <2>2 DEF IInv, AgeOrder
  <2>5. younger = Issued \ {s}
    BY <1>2, <1>9, <2>1, <2>2, <2>3, <2>4
  <2>6. nextIntoRS' = IF younger = {} THEN 0 ELSE Oldest(ops, younger)
    BY <1>3 DEF NextNode
  <2>7. younger # {} => /\ Oldest(ops, younger) \in younger
                        /\ \A t \in younger : ops[Oldest(ops, younger)].num <= ops[t].num
    <3>1. \A t \in younger : ops[t].num \in Nat
      BY <2>1, <2>2
    <3> HIDE DEF younger
    <3>2. QED
      BY <3>1, OldestFound
  <2> HIDE DEF younger
  <2>8. 0 \notin younger
    BY <1>1, <2>2, <2>5
  <2>9. \A t \in Node' \ Issued', u \in Issued' : ops[t].num < ops[u].num
    <3> SUFFICES ASSUME NEW t \in Node, t \notin Issued \/ t = s,
                        NEW u \in Issued, u # s
                 PROVE  ops[t].num < ops[u].num
      BY <1>9
    <3>1. CASE t = s
      <4>1. ops[s].num <= ops[u].num /\ ops[u].num # ops[s].num
        BY <2>3, <2>4
      <4>2. ops[s].num \in Nat /\ ops[u].num \in Nat
        BY <1>9, <2>1, <2>2
      <4>3. QED
        BY <3>1, <4>1, <4>2
    <3>2. CASE t \notin Issued
      BY <2>3, <3>2
    <3>3. QED
      BY <3>1, <3>2
  <2>10. /\ Issued' = younger /\ Issued' \subseteq DOMAIN ops
         /\ \A t \in DOMAIN ops : ops'[t].num = ops[t].num
    BY <1>6, <1>9, <2>2, <2>5
  <2>11. nextIntoRS' = 0 => Issued' = {}
    BY <2>6, <2>7, <2>8, <2>10
  <2>12. nextIntoRS' # 0 => /\ nextIntoRS' \in Issued'
                            /\ \A t \in Issued' : ops'[nextIntoRS'].num <= ops'[t].num
    <3>1. nextIntoRS' # 0 => /\ nextIntoRS' \in younger
                             /\ \A t \in younger : ops[nextIntoRS'].num <= ops[t].num
      BY <2>6, <2>7
    <3>2. QED
      BY <2>10, <3>1
  <2>13. \A t \in Node' \ Issued', u \in Issued' : ops'[t].num < ops'[u].num
    <3>1. Node' \subseteq DOMAIN ops
      BY <1>9, <2>2
    <3>2. QED
      BY <2>9, <2>10, <3>1
  <2>14. QED
    BY <2>11, <2>12, <2>13 DEF NextInOrder
<1>11. RSCountExact' /\ rsCount' \in [Stations -> 0 .. StationSize]
  <2>1. Held(r)' = Held(r) \cup {s} /\ s \notin Held(r)
    BY <1>2, <1>3, <1>4, <1>6, <1>7, <1>9 DEF Held, Node, In
  <2>2. \A q \in Stations : q # r => Held(q)' = Held(q)
    BY <1>2, <1>3, <1>4, <1>6, <1>7, <1>9 DEF Held, Node, In
  <2>3. IsFiniteSet(Held(r)) /\ Cardinality(Held(r)) \in Nat
    BY HeldFinite DEF IInv
  <2>4. Cardinality(Held(r) \cup {s}) = Cardinality(Held(r)) + 1
    BY <2>1, <2>3, FS_AddElement
  <2>5. rsCount[r] < StationSize /\ rsCount[r] = Cardinality(Held(r))
    BY <1>3 DEF Emptiest, IInv, RSCountExact
  <2>6. rsCount'[r] = rsCount[r] + 1 /\ \A q \in Stations : q # r => rsCount'[q] = rsCount[q]
    BY <1>3, <1>8
  <2>7. RSCountExact'
    BY <2>1, <2>2, <2>4, <2>5, <2>6 DEF IInv, RSCountExact
  <2>8. rsCount' \in [Stations -> 0 .. StationSize]
    <3>1. rsCount[r] \in 0 .. StationSize
      BY <1>8
    <3>2. rsCount[r] + 1 \in 0 .. StationSize
      BY <2>5, <3>1, StationsAssumption
    <3>3. QED
      BY <1>3, <1>8, <3>2
  <2>9. QED
    BY <2>7, <2>8
<1>12. TypeOK'
  <2>1. IsFiniteSet(DOMAIN ops)'
    BY <1>1, <1>6
  <2>2. ready' \subseteq DOMAIN ops
    BY <1>2, <1>3, <1>8
  <2>3. nextIntoRS' \in DOMAIN ops \cup {0}
    BY <1>6, <1>10 DEF NextInOrder, Issued, Node, In
  <2>4. QED
    BY <1>3, <1>6, <1>11, <2>1, <2>2, <2>3 DEF IInv, TypeOK, Pointer
<1>13. AgeOrder'
  BY <1>3, <1>6 DEF IInv, AgeOrder
<1>14. StateOfStage'
  BY <1>2, <1>6, <1>7 DEF IInv, StateOfStage
<1>15. ReadyList'
  <2>1. \A t \in ready : ops[t].state = "READY"
    BY <1>3 DEF IInv, ReadyList
  <2>2. \A t \in ready' : ops'[t].state = "READY"
    BY <1>3, <1>6, <1>7, <1>8, <2>1
  <2>3. ASSUME NEW t \in DOMAIN ops, ops'[t].state = "READY" PROVE t \in ready'
    <3>1. CASE t = s
      BY <1>3, <1>6, <2>3, <3>1
    <3>2. CASE t # s
      BY <1>3, <1>6, <2>3, <3>2 DEF IInv, ReadyList
    <3>3. QED
      BY <3>1, <3>2
  <2>4. QED
    BY <1>6, <2>2, <2>3 DEF ReadyList
<1>16. SchedReady'
  BY <1>2, <1>3, <1>6, <1>8 DEF IInv, SchedReady
<1>17. InUnits'
  BY <1>2, <1>3, <1>6, <1>8 DEF IInv, InUnits, Valid, Busy
<1>18. QED
  BY <1>10, <1>11, <1>12, <1>13, <1>14, <1>15, <1>16, <1>17 DEF IInv

\* Ops leave the pool: what remains keeps its fields, and what is gone is named by
\* nothing but a reference with its unique number.
LEMMA OpsLeave ==
    ASSUME IInv, NEW gone \in SUBSET DOMAIN ops,
           DOMAIN ops' = DOMAIN ops \ gone, ops' \in [DOMAIN ops' -> Op],
           \A s \in DOMAIN ops' : /\ ops'[s].num = ops[s].num
                                  /\ ops'[s].state = ops[s].state
                                  /\ ops'[s].rs = ops[s].rs
                                  /\ ops'[s].unique = ops[s].unique
                                  /\ ops'[s].done = ops[s].done
                                  /\ ops'[s].stage = ops[s].stage,
           \A s \in DOMAIN ops' : ops[s].num < fetch'.opCount,
           ready' = ready \ gone,
           \A f \in FUs : sched'[f] = sched[f] \/ sched'[f] = 0,
           \A f \in FUs : exec'[f] = exec[f] \/ exec'[f] = 0,
           \A f \in FUs : dc'[f] = dc[f] \/ dc'[f] = 0,
           misses' = misses,
           phase \notin {"exec", "issue", "handle"},
           TypeOK'
    PROVE  /\ AgeOrder' /\ StateOfStage' /\ ReadyList' /\ SchedReady' /\ InUnits'
           /\ Node' = Node \ gone /\ Issued' = Issued \ gone
           /\ \A r : Held(r)' = Held(r) \ gone
<1>1. AgeOrder'
  BY DEF IInv, AgeOrder
<1>2. StateOfStage'
  BY DEF IInv, StateOfStage
<1>3. ready' \subseteq DOMAIN ops' /\ sched' \in [FUs -> DOMAIN ops' \cup {0}]
      /\ exec' \in [FUs -> DOMAIN ops' \cup {0}] /\ dc' \in [FUs -> DOMAIN ops' \cup {0}]
  BY DEF TypeOK, Pointer
<1>4. ReadyList'
  BY <1>3 DEF IInv, ReadyList
<1>5. SchedReady'
  <2>1. \A f \in FUs : sched'[f] # 0 => sched'[f] = sched[f] /\ sched'[f] \in DOMAIN ops'
    BY <1>3
  <2>2. QED
    BY <2>1 DEF IInv, SchedReady
<1>6. InUnits'
  <2>1. \A f \in FUs : /\ exec'[f] # 0 => exec'[f] = exec[f] /\ exec'[f] \in DOMAIN ops'
                       /\ dc'[f] # 0 => dc'[f] = dc[f] /\ dc'[f] \in DOMAIN ops'
    BY <1>3
  <2>2. /\ \A f \in FUs : exec'[f] # 0 => ops'[exec'[f]].state \in Busy /\ ~ops'[exec'[f]].done
        /\ \A f \in FUs : dc'[f] # 0 => ops'[dc'[f]].state \in Busy /\ ~ops'[dc'[f]].done
    BY <2>1 DEF IInv, InUnits
  <2>3. /\ \A f, g \in FUs : exec'[f] = exec'[g] => exec'[f] = 0 \/ f = g
        /\ \A f, g \in FUs : dc'[f] = dc'[g] => dc'[f] = 0 \/ f = g
        /\ \A f, g \in FUs : exec'[f] = dc'[g] => exec'[f] = 0
    BY <2>1 DEF IInv, InUnits
  <2>4. ASSUME NEW ref \in misses, Valid(ops', ref)
        PROVE  /\ ops'[ref.slot].state \in Busy
               /\ \A f \in FUs : exec'[f] # ref.slot /\ dc'[f] # ref.slot
    <3>1. ref.slot \in DOMAIN ops' /\ ref.slot \in DOMAIN ops /\ Valid(ops, ref)
      BY <2>4 DEF Valid
    <3>2. DOMAIN ops' \subseteq Nat \ {0}
      BY DEF TypeOK
    <3>3. QED
      BY <2>1, <3>1, <3>2 DEF IInv, InUnits
  <2>5. QED
    BY <2>2, <2>3, <2>4 DEF InUnits
<1>7. Node' = Node \ gone /\ Issued' = Issued \ gone
  BY DEF Node, In, Issued
<1>8. \A r : Held(r)' = Held(r) \ gone
  BY DEF Held, Node, In
<1>9. QED
  BY <1>1, <1>2, <1>4, <1>5, <1>6, <1>7, <1>8

LEMMA RetireHolds == ASSUME IInv, Retire PROVE IInv'
<1> DEFINE s == Oldest(ops, Node)
<1> USE DEF maps, streams, window, units
<1>1. /\ ops \in [DOMAIN ops -> Op] /\ DOMAIN ops \subseteq Nat \ {0}
      /\ IsFiniteSet(DOMAIN ops)
      /\ storeMap \in [Addrs -> StoreEntry(DOMAIN ops \cup {0})]
  BY DEF IInv, TypeOK, Pointer, StoreEntry
<1>2. s \in DOMAIN ops
  <2> DEFINE S == Node
  <2>1. S # {} /\ (\A t \in S : ops[t].num \in Nat) /\ S \subseteq DOMAIN ops
    BY <1>1 DEF Retire, Node, In, Op
  <2> HIDE DEF S
  <2>2. Oldest(ops, S) \in S
    BY <2>1, OldestFound
  <2>3. QED
    BY <2>1, <2>2 DEF S
<1>3. /\ ops' = [t \in DOMAIN ops \ {s} |-> ops[t]]
      /\ storeMap' = FreeStores(storeMap, {s})
      /\ ops[s].done /\ phase = "retire" /\ phase' = "retire"
      /\ retOp' = retOp + 1 /\ count' = count + 1
      /\ UNCHANGED <<regMap, streams, window, units, todo>>
  BY DEF Retire, CanRetire
<1> HIDE DEF s
<1>4. ops[s].state = "SCHEDULED"
  BY <1>2, <1>3 DEF IInv, StateOfStage
<1>5. s \notin ready /\ nextIntoRS # s /\ s \notin Issued
  BY <1>1, <1>2, <1>3, <1>4 DEF IInv, ReadyList, NextInOrder, Issued
<1>6. \A f \in FUs : sched[f] # s /\ exec[f] # s /\ dc[f] # s
  BY <1>1, <1>2, <1>3, <1>4 DEF IInv, SchedReady, InUnits
<1>7. TypeOK'
  <2>1. DOMAIN ops' = DOMAIN ops \ {s} /\ ops' \in [DOMAIN ops' -> Op]
        /\ DOMAIN ops' \subseteq Nat \ {0}
    BY <1>1, <1>3
  <2>2. IsFiniteSet(DOMAIN ops')
    BY <1>1, <2>1, FS_RemoveElement
  <2>3. storeMap' \in [Addrs -> StoreEntry(DOMAIN ops' \cup {0})]
    <3>1. 0 \in DOMAIN ops \cup {0}
      OBVIOUS
    <3>2. storeMap' \in [Addrs -> StoreEntry(((DOMAIN ops \cup {0}) \ {s}) \cup {0})]
      BY <1>1, <1>3, <3>1, FreeStoresTyped
    <3>3. ((DOMAIN ops \cup {0}) \ {s}) \cup {0} = DOMAIN ops' \cup {0}
      BY <2>1
    <3>4. QED
      BY <3>2, <3>3
  <2>4. /\ sched' \in [FUs -> DOMAIN ops' \cup {0}] /\ exec' \in [FUs -> DOMAIN ops' \cup {0}]
        /\ dc' \in [FUs -> DOMAIN ops' \cup {0}]
        /\ nextIntoRS' \in DOMAIN ops' \cup {0} /\ ready' \subseteq DOMAIN ops'
    BY <1>3, <1>5, <1>6, <2>1 DEF IInv, TypeOK, Pointer
  <2>5. retOp' \in Nat \ {0} /\ count' \in Nat
    BY <1>3 DEF IInv, TypeOK
  <2>6. QED
    BY <1>3, <2>1, <2>2, <2>3, <2>4, <2>5 DEF IInv, TypeOK, Pointer, StoreEntry
<1>8. /\ DOMAIN ops' = DOMAIN ops \ {s} /\ ops' \in [DOMAIN ops' -> Op]
      /\ \A t \in DOMAIN ops' : ops'[t] = ops[t] /\ ops[t].num < fetch'.opCount
      /\ ready' = ready \ {s} /\ {s} \in SUBSET DOMAIN ops
  BY <1>1, <1>2, <1>3, <1>5 DEF IInv, AgeOrder
<1>9. /\ AgeOrder' /\ StateOfStage' /\ ReadyList' /\ SchedReady' /\ InUnits'
      /\ Node' = Node \ {s} /\ Issued' = Issued \ {s}
      /\ \A r : Held(r)' = Held(r) \ {s}
  <2> DEFINE gone == {s}
  <2>1. /\ gone \in SUBSET DOMAIN ops /\ DOMAIN ops' = DOMAIN ops \ gone /\ ready' = ready \ gone
    BY <1>8
  <2> HIDE DEF gone
  <2>2. /\ AgeOrder' /\ StateOfStage' /\ ReadyList' /\ SchedReady' /\ InUnits'
        /\ Node' = Node \ gone /\ Issued' = Issued \ gone
        /\ \A r : Held(r)' = Held(r) \ gone
    BY <1>3, <1>7, <1>8, <2>1, OpsLeave
  <2>3. QED
    BY <2>2 DEF gone
<1>10. NextInOrder'
  BY <1>3, <1>5, <1>8, <1>9 DEF IInv, NextInOrder, Issued, Node, In
<1>11. RSCountExact'
  <2>1. \A r : Held(r)' = Held(r)
    BY <1>4, <1>5, <1>9 DEF Held
  <2>2. QED
    BY <1>3, <2>1 DEF IInv, RSCountExact
<1>12. QED
  BY <1>7, <1>9, <1>10, <1>11 DEF IInv

\* cmp_recover: the count goes down by the flushed ops that hold a place.
LEMMA RecoverHolds == ASSUME IInv, Recover PROVE IInv'
<1> DEFINE gone == {s \in DOMAIN ops : ops[s].num > recovery.num}
           flag(s) == ops[s].recoverySched /\ ~(ops[s].stage = "node" /\ ops[s].num = recovery.num)
           new(s) == [ops[s] EXCEPT !.recoverySched = flag(s)]
           live == [s \in DOMAIN ops \ gone |-> new(s)]
           Kept(s) == IF s \in gone THEN 0 ELSE s
           G(r) == {s \in gone \cap Node : ops[s].rs = r /\ InStation(ops[s].state)}
<1>1. /\ ops \in [DOMAIN ops -> Op] /\ DOMAIN ops \subseteq Nat \ {0}
      /\ IsFiniteSet(DOMAIN ops)
      /\ storeMap \in [Addrs -> StoreEntry(DOMAIN ops \cup {0})]
      /\ regMap \in [Regs -> RegEntry]
      /\ recovery \in [num : Nat, offPath : BOOLEAN]
      /\ fetch \in [next : {"FETCH", "WAIT_MISS", "WAIT_REDIRECT", "WAIT_EMPTY_ROB"},
                    offPath : BOOLEAN, backOnPath : BOOLEAN, opCount : Nat \ {0}]
  BY DEF IInv, TypeOK, Pointer, StoreEntry, RegEntry
<1>2. /\ ops' = live
      /\ regMap' = RecoverRegs(regMap, live)
      /\ storeMap' = FreeStores(RecoverStores(storeMap, live), gone)
      /\ rsCount' = [r \in Stations |-> rsCount[r] - Cardinality(G(r))]
      /\ ready' = ready \ gone
      /\ nextIntoRS' = Kept(nextIntoRS)
      /\ sched' = [f \in FUs |-> Kept(sched[f])]
      /\ exec' = [f \in FUs |-> Kept(exec[f])]
      /\ dc' = [f \in FUs |-> Kept(dc[f])]
      /\ fetch' = [fetch EXCEPT !.next = "FETCH", !.backOnPath = ~recovery.offPath,
                                !.opCount = recovery.num + 1]
      /\ recovery' = NoRecovery /\ redirect' = NoRedirect
      /\ phase = "istreams" /\ phase' = "memory"
      /\ UNCHANGED <<retOp, misses, todo, count>>
  BY Zenon DEF Recover
<1>3. ASSUME NEW s \in DOMAIN ops
      PROVE  /\ new(s) \in Op /\ new(s).num = ops[s].num /\ new(s).state = ops[s].state
             /\ new(s).rs = ops[s].rs /\ new(s).unique = ops[s].unique
             /\ new(s).done = ops[s].done /\ new(s).stage = ops[s].stage
  <2>1. ops[s] \in Op
    BY <1>1
  <2>2. flag(s) \in BOOLEAN
    BY Zenon
  <2> HIDE DEF flag
  <2>3. QED
    BY <2>1, <2>2 DEF Op
<1> HIDE DEF new
<1>4. /\ DOMAIN live = DOMAIN ops \ gone /\ live \in [DOMAIN live -> Op]
      /\ \A s \in DOMAIN live : live[s] = new(s)
      /\ \A s \in DOMAIN live : s \in DOMAIN ops /\ s \notin gone
  BY <1>3
<1>5. \A s \in DOMAIN live : live[s].num \in 0 .. recovery.num /\ ops[s].num <= recovery.num
  <2>1. \A s \in DOMAIN ops : ops[s].num \in Nat
    BY <1>1 DEF Op
  <2>2. recovery.num \in Nat
    BY <1>1
  <2>3. \A s \in DOMAIN live : s \in DOMAIN ops /\ ~(ops[s].num > recovery.num)
    BY <1>4
  <2> HIDE DEF live
  <2>4. QED
    BY <1>3, <1>4, <2>1, <2>2, <2>3
<1>6. gone \in SUBSET DOMAIN ops /\ 0 \notin gone
  BY <1>1
<1>7. recovery.num \in Nat /\ DOMAIN live \subseteq Nat
  BY <1>1, <1>4
<1> HIDE DEF live, gone
<1>8. TypeOK'
  <2>1. DOMAIN ops' = DOMAIN ops \ gone /\ ops' \in [DOMAIN ops' -> Op]
        /\ DOMAIN ops' \subseteq Nat \ {0}
    BY <1>1, <1>2, <1>4
  <2>2. IsFiniteSet(DOMAIN ops')
    <3>1. IsFiniteSet(DOMAIN ops \ gone)
      BY <1>1, FS_Difference
    <3>2. QED
      BY <2>1, <3>1
  <2>3. regMap' \in [Regs -> RegEntry]
    <3>1. \A s \in DOMAIN live : live[s].num \in 0 .. recovery.num
      BY <1>5
    <3>2. QED
      BY <1>1, <1>2, <1>4, <1>7, <3>1, RecoverRegsTyped
  <2>4. storeMap' \in [Addrs -> StoreEntry(DOMAIN ops' \cup {0})]
    <3> DEFINE P == DOMAIN ops \cup {0}
    <3>1. /\ DOMAIN live \subseteq P /\ 0 \in P /\ storeMap \in [Addrs -> StoreEntry(P)]
          /\ \A s \in DOMAIN live : live[s].num \in 0 .. recovery.num
          /\ (P \ gone) \cup {0} = DOMAIN ops' \cup {0}
      BY <1>1, <1>4, <1>5, <2>1
    <3> HIDE DEF P
    <3>2. RecoverStores(storeMap, live) \in [Addrs -> StoreEntry(P)]
      BY <1>7, <3>1, RecoverStoresTyped
    <3>3. FreeStores(RecoverStores(storeMap, live), gone)
            \in [Addrs -> StoreEntry((P \ gone) \cup {0})]
      BY <3>1, <3>2, FreeStoresTyped
    <3>4. QED
      BY <1>2, <3>1, <3>3
  <2>5. /\ sched' \in [FUs -> DOMAIN ops' \cup {0}] /\ exec' \in [FUs -> DOMAIN ops' \cup {0}]
        /\ dc' \in [FUs -> DOMAIN ops' \cup {0}]
        /\ nextIntoRS' \in DOMAIN ops' \cup {0} /\ ready' \subseteq DOMAIN ops'
    BY <1>2, <2>1 DEF IInv, TypeOK, Pointer
  <2>6. /\ fetch' \in [next : {"FETCH", "WAIT_MISS", "WAIT_REDIRECT", "WAIT_EMPTY_ROB"},
                       offPath : BOOLEAN, backOnPath : BOOLEAN, opCount : Nat \ {0}]
        /\ recovery' \in [num : Nat, offPath : BOOLEAN]
        /\ redirect' \in [slot : Nat, num : Nat, due : BOOLEAN]
    <3> DEFINE back == ~recovery.offPath
    <3>1. back \in BOOLEAN
      BY Zenon
    <3>2. fetch' = [fetch EXCEPT !.next = "FETCH", !.backOnPath = back,
                                 !.opCount = recovery.num + 1]
      BY <1>2
    <3> HIDE DEF back
    <3>3. recovery.num + 1 \in Nat \ {0}
      BY <1>7
    <3>4. QED
      BY <1>1, <1>2, <3>1, <3>2, <3>3 DEF NoRecovery, NoRedirect
  <2>7. ASSUME NEW r \in Stations PROVE rsCount[r] - Cardinality(G(r)) \in 0 .. StationSize
    <3>1. TypeOK /\ rsCount[r] = Cardinality(Held(r)) /\ G(r) \subseteq Held(r)
      BY DEF IInv, RSCountExact, Held, InStation, ReadyList, Node, In
    <3> HIDE DEF G
    <3>2. QED
      BY <3>1, Released
  <2>8. rsCount' \in [Stations -> 0 .. StationSize]
    <3> HIDE DEF G
    <3> QED  BY <1>2, <2>7
  <2>9. QED
    BY <1>2, <2>1, <2>2, <2>3, <2>4, <2>5, <2>6, <2>8
       DEF IInv, TypeOK, Pointer, StoreEntry, RegEntry
<1>9. /\ DOMAIN ops' = DOMAIN ops \ gone /\ ops' \in [DOMAIN ops' -> Op]
      /\ \A s \in DOMAIN ops' : /\ ops'[s].num = ops[s].num
                                /\ ops'[s].state = ops[s].state
                                /\ ops'[s].rs = ops[s].rs
                                /\ ops'[s].unique = ops[s].unique
                                /\ ops'[s].done = ops[s].done
                                /\ ops'[s].stage = ops[s].stage
  BY <1>2, <1>3, <1>4
<1>10. fetch'.opCount = recovery.num + 1 /\ \A s \in DOMAIN ops' : ops[s].num < fetch'.opCount
  <2>1. fetch'.opCount = recovery.num + 1
    BY <1>1, <1>2
  <2>2. \A s \in DOMAIN ops : ops[s].num \in Nat
    BY <1>1 DEF Op
  <2>3. QED
    BY <1>2, <1>4, <1>5, <1>7, <2>1, <2>2
<1>11. /\ \A f \in FUs : sched'[f] = sched[f] \/ sched'[f] = 0
       /\ \A f \in FUs : exec'[f] = exec[f] \/ exec'[f] = 0
       /\ \A f \in FUs : dc'[f] = dc[f] \/ dc'[f] = 0
  BY <1>2
<1>12. /\ AgeOrder' /\ StateOfStage' /\ ReadyList' /\ SchedReady' /\ InUnits'
       /\ Node' = Node \ gone /\ Issued' = Issued \ gone
       /\ \A r : Held(r)' = Held(r) \ gone
  BY <1>2, <1>6, <1>8, <1>9, <1>10, <1>11, OpsLeave
<1>13. NextInOrder'
  <2>1. Issued \subseteq Node /\ Node \subseteq DOMAIN ops
    BY DEF Issued, Node, In
  <2>2. \A s \in DOMAIN ops : ops[s].num \in Nat
    BY <1>1 DEF Op
  <2>3. nextIntoRS \in gone => Issued \subseteq gone
    BY <1>1, <1>6, <2>1, <2>2 DEF IInv, NextInOrder, gone
  <2>4. QED
    BY <1>2, <1>6, <1>9, <1>12, <2>1, <2>3 DEF IInv, NextInOrder
<1>14. RSCountExact'
  <2>1. \A s \in ready : ops[s].state = "READY"
    BY <1>2 DEF IInv, ReadyList
  <2>2. \A r \in Stations : G(r) = Held(r) \cap gone
    BY <2>1 DEF IInv, ReadyList, Held, InStation, Node, In
  <2>3. ASSUME NEW r \in Stations PROVE rsCount'[r] = Cardinality(Held(r)')
    <3>1. TypeOK /\ rsCount[r] = Cardinality(Held(r)) /\ G(r) \subseteq Held(r)
      BY <2>2 DEF IInv, RSCountExact
    <3>2. Held(r)' = Held(r) \ G(r)
      BY <1>12, <2>2
    <3> HIDE DEF G
    <3>3. Cardinality(Held(r) \ G(r)) = rsCount[r] - Cardinality(G(r))
      BY <3>1, Released
    <3>4. QED
      BY <1>2, <3>2, <3>3
  <2>4. QED
    BY <2>3 DEF RSCountExact
<1>15. QED
  BY <1>8, <1>12, <1>13, <1>14 DEF IInv

Woken == {t \in DOMAIN ops : ops[t].state = "IN_RS" /\ ops'[t].state = "READY"}

\* Op s has left its station for good, or leaves it now, and others become ready.
LEMMA OneOpServed ==
    ASSUME IInv, NEW s \in DOMAIN ops, Steady, ops' \in [DOMAIN ops -> Op],
           ops[s].state \in Busy \cup {"READY"}, ops'[s].state \in Busy,
           ops'[s].done => ops'[s].state = "SCHEDULED",
           \A t \in DOMAIN ops \ {s} :
              /\ ops'[t].done = ops[t].done
              /\ \/ ops'[t].state = ops[t].state
                 \/ ops[t].state = "IN_RS" /\ ops'[t].state = "READY",
           ready' = ready \cup Woken,
           s \in ready => phase = "exec" /\ ops'[s].state = "SCHEDULED",
           UNCHANGED <<fetch, nextIntoRS, rsCount, phase>>
    PROVE  AgeOrder' /\ StateOfStage' /\ ReadyList' /\ NextInOrder' /\ RSCountExact'
<1>1. /\ DOMAIN ops' = DOMAIN ops
      /\ \A t \in DOMAIN ops : /\ ops'[t].num = ops[t].num
                               /\ ops'[t].stage = ops[t].stage
                               /\ ops'[t].rs = ops[t].rs
  BY DEF Steady
<1>2. AgeOrder'
  BY AgeOrderSteady DEF IInv
<1>3. ops[s].stage = "node"
  BY DEF IInv, StateOfStage, Busy
<1>4. StateOfStage'
  BY <1>1, <1>3 DEF IInv, StateOfStage
<1>5. s \notin Woken
  BY DEF Woken, Busy
<1>6. ready \subseteq DOMAIN ops
  BY DEF IInv, TypeOK
<1>7. ReadyList'
  <2>1. ASSUME NEW t \in ready'
        PROVE  \/ ops'[t].state = "READY"
               \/ ops'[t].state = "SCHEDULED" /\ phase' \in {"exec", "issue", "handle"}
    <3>1. CASE t = s
      BY <1>5, <2>1, <3>1
    <3>2. CASE t # s /\ t \in ready
      BY <1>6, <3>2 DEF IInv, ReadyList
    <3>3. CASE t \in Woken
      BY <3>3 DEF Woken
    <3>4. QED
      BY <2>1, <3>1, <3>2, <3>3
  <2>2. ASSUME NEW t \in DOMAIN ops, ops'[t].state = "READY" PROVE t \in ready'
    <3>1. t # s
      BY <2>2 DEF Busy
    <3>2. QED
      BY <2>2, <3>1 DEF IInv, ReadyList, Woken
  <2>3. QED
    BY <1>1, <2>1, <2>2 DEF ReadyList
<1>8. Node' = Node /\ Issued' = Issued
  BY <1>1 DEF Node, In, Issued, Busy
<1>9. NextInOrder'
  <2>1. Issued \subseteq DOMAIN ops /\ Node \subseteq DOMAIN ops
    BY DEF Issued, Node, In
  <2>2. QED
    BY <1>1, <1>8, <2>1 DEF IInv, NextInOrder
<1>10. RSCountExact'
  <2>1. ASSUME NEW r PROVE Held(r)' = Held(r)
    <3>1. ASSUME NEW t \in Node
          PROVE  (ops'[t].state = "IN_RS" \/ t \in ready') <=> (ops[t].state = "IN_RS" \/ t \in ready)
      <4>1. t \in DOMAIN ops
        BY DEF Node, In
      <4>2. CASE t = s
        BY <1>5, <4>2 DEF Busy
      <4>3. CASE t # s
        BY <4>1, <4>3 DEF Woken
      <4>4. QED
        BY <4>2, <4>3
    <3>2. Node \subseteq DOMAIN ops
      BY DEF Node, In
    <3>3. QED
      BY <1>1, <1>8, <3>1, <3>2 DEF Held
  <2>2. QED
    BY <2>1 DEF IInv, RSCountExact
<1>11. QED
  BY <1>2, <1>4, <1>7, <1>9, <1>10

\* An op gets its data and wakes the ops that wait for it.
LEMMA SupplyFrame ==
    ASSUME IInv, NEW s \in DOMAIN ops, ops[s].state \in Busy, Supply(s)
    PROVE  /\ Steady
           /\ ops' \in [DOMAIN ops -> Op]
           /\ ops'[s].state = "SCHEDULED" /\ ops'[s].done
           /\ \A t \in DOMAIN ops \ {s} :
                /\ ops'[t].done = ops[t].done
                /\ \/ ops'[t].state = ops[t].state
                   \/ ops[t].state = "IN_RS" /\ ops'[t].state = "READY"
           /\ ready' = ready \cup Woken
<1> DEFINE new == [ops[s] EXCEPT !.state = "SCHEDULED", !.done = TRUE]
           now == [ops EXCEPT ![s] = new]
           after == IF ops[s].inst.mem = "store" THEN now ELSE WakeUpOps(now, s, "reg")
<1>1. ops \in [DOMAIN ops -> Op]
  BY DEF IInv, TypeOK
<1>2. ops' = after /\ ready' = ready \cup NewlyReady(now, after)
  <2>1. [ops EXCEPT ![s].state = "SCHEDULED", ![s].done = TRUE] = now
    BY <1>1
  <2> HIDE DEF now
  <2>2. QED
    BY Zenon, <2>1 DEF Supply
<1>3. /\ new \in Op /\ new.num = ops[s].num /\ new.rs = ops[s].rs /\ new.unique = ops[s].unique
      /\ new.stage = ops[s].stage /\ new.state = "SCHEDULED" /\ new.done
  <2> SUFFICES ASSUME NEW op \in Op
               PROVE  LET o == [op EXCEPT !.state = "SCHEDULED", !.done = TRUE]
                      IN /\ o \in Op /\ o.num = op.num /\ o.rs = op.rs
                         /\ o.unique = op.unique /\ o.stage = op.stage
                         /\ o.state = "SCHEDULED" /\ o.done
    BY <1>1
  <2> QED  BY DEF Op
<1> HIDE DEF new
<1>4. /\ DOMAIN now = DOMAIN ops /\ now \in [DOMAIN now -> Op] /\ s \in DOMAIN now
      /\ \A t \in DOMAIN ops : now[t] = IF t = s THEN new ELSE ops[t]
  BY <1>1, <1>3
<1> HIDE DEF now
<1>5. /\ after \in [DOMAIN ops -> Op]
      /\ \A t \in DOMAIN ops : /\ after[t].num = now[t].num
                               /\ after[t].stage = now[t].stage
                               /\ after[t].rs = now[t].rs
                               /\ after[t].unique = now[t].unique
                               /\ after[t].done = now[t].done
                               /\ \/ after[t].state = now[t].state
                                  \/ now[t].state = "IN_RS" /\ after[t].state = "READY"
  <2>1. "reg" \in DepTypes
    BY DEF DepTypes
  <2>2. CASE ops[s].inst.mem = "store"
    BY <1>4, <2>2
  <2>3. CASE ops[s].inst.mem # "store"
    <3>1. after = WakeUpOps(now, s, "reg")
      BY <2>3
    <3> HIDE DEF after
    <3>2. QED
      BY <1>4, <2>1, <3>1, WakeUpFrame
  <2>4. QED
    BY <2>2, <2>3
<1> HIDE DEF after
<1>6. DOMAIN ops' = DOMAIN ops /\ ops' \in [DOMAIN ops -> Op]
  BY <1>2, <1>5
<1>7. Steady
  BY <1>2, <1>3, <1>4, <1>5, <1>6 DEF Steady
<1>8. ops'[s].state = "SCHEDULED" /\ ops'[s].done
  BY <1>2, <1>3, <1>4, <1>5
<1>9. \A t \in DOMAIN ops \ {s} :
         /\ ops'[t].done = ops[t].done
         /\ \/ ops'[t].state = ops[t].state
            \/ ops[t].state = "IN_RS" /\ ops'[t].state = "READY"
  BY <1>2, <1>4, <1>5
<1>10. NewlyReady(now, after) = Woken
  BY <1>2, <1>3, <1>4, <1>8 DEF NewlyReady, Woken, Busy
<1>11. QED
  BY <1>2, <1>6, <1>7, <1>8, <1>9, <1>10

LEMMA FillLineHolds ==
    ASSUME IInv, NEW ref \in misses, DcacheFill(ref) PROVE IInv'
<1> USE DEF maps, streams
<1>1. /\ phase = "memory" /\ misses' = misses \ {ref}
      /\ UNCHANGED <<maps, streams, retOp, nextIntoRS, rsCount, sched, exec, dc, phase, todo, count>>
  BY DEF DcacheFill
<1>2. /\ ready \subseteq DOMAIN ops /\ misses \subseteq Ref
      /\ sched \in [FUs -> DOMAIN ops \cup {0}]
      /\ exec \in [FUs -> DOMAIN ops \cup {0}] /\ dc \in [FUs -> DOMAIN ops \cup {0}]
  BY DEF IInv, TypeOK, Pointer
<1>3. CASE Valid(ops, ref)
  <2> DEFINE s == ref.slot
  <2>1. s \in DOMAIN ops /\ ops[s].state \in Busy /\ \A f \in FUs : exec[f] # s /\ dc[f] # s
    BY <1>3 DEF IInv, InUnits, Valid
  <2>2. Supply(s)
    BY <1>3 DEF DcacheFill
  <2> HIDE DEF s
  <2>3. /\ Steady
        /\ ops' \in [DOMAIN ops -> Op]
        /\ ops'[s].state = "SCHEDULED" /\ ops'[s].done
        /\ \A t \in DOMAIN ops \ {s} :
             /\ ops'[t].done = ops[t].done
             /\ \/ ops'[t].state = ops[t].state
                \/ ops[t].state = "IN_RS" /\ ops'[t].state = "READY"
        /\ ready' = ready \cup Woken
    BY <2>1, <2>2, SupplyFrame
  <2>4. s \notin ready
    BY <1>1, <2>1 DEF IInv, ReadyList, Busy
  <2>5. AgeOrder' /\ StateOfStage' /\ ReadyList' /\ NextInOrder' /\ RSCountExact'
    BY <1>1, <2>1, <2>3, <2>4, OneOpServed DEF Busy
  <2>6. DOMAIN ops' = DOMAIN ops /\ \A t \in DOMAIN ops : ops'[t].unique = ops[t].unique
    BY <2>3 DEF Steady
  <2>7. TypeOK'
    <3>1. IsFiniteSet(DOMAIN ops)' /\ ready' \subseteq DOMAIN ops /\ misses' \subseteq Ref
      BY <1>1, <1>2, <2>3, <2>6 DEF IInv, TypeOK, Woken
    <3>2. QED
      BY <1>1, <2>3, <2>6, <3>1 DEF IInv, TypeOK, Pointer
  <2>8. SchedReady'
    <3>1. \A f \in FUs : sched[f] # 0 => sched[f] # s
      BY <2>1 DEF IInv, SchedReady, Busy
    <3>2. QED
      BY <1>1, <1>2, <2>3, <3>1 DEF IInv, SchedReady
  <2>9. InUnits'
    <3>1. /\ \A f \in FUs : exec[f] # 0 => ops'[exec[f]].state \in Busy /\ ~ops'[exec[f]].done
          /\ \A f \in FUs : dc[f] # 0 => ops'[dc[f]].state \in Busy /\ ~ops'[dc[f]].done
      BY <1>2, <2>1, <2>3 DEF IInv, InUnits, Busy
    <3>2. ASSUME NEW m \in misses', Valid(ops', m)
          PROVE  ops'[m.slot].state \in Busy /\ \A f \in FUs : exec[f] # m.slot /\ dc[f] # m.slot
      <4>1. m \in misses /\ Valid(ops, m) /\ m.slot \in DOMAIN ops
        BY <1>1, <2>6, <3>2 DEF Valid
      <4>2. QED
        BY <2>3, <4>1 DEF IInv, InUnits, Busy
    <3>3. QED
      BY <1>1, <3>1, <3>2 DEF IInv, InUnits
  <2>10. QED
    BY <2>5, <2>7, <2>8, <2>9 DEF IInv
<1>4. CASE ~Valid(ops, ref)
  <2>1. UNCHANGED <<ops, ready>>
    BY <1>4 DEF DcacheFill
  <2>2. TypeOK'
    BY <1>1, <1>2, <2>1 DEF IInv, TypeOK, Pointer
  <2>3. AgeOrder' /\ StateOfStage' /\ ReadyList' /\ SchedReady'
    BY <1>1, <2>1 DEF IInv, AgeOrder, StateOfStage, ReadyList, SchedReady
  <2>4. InUnits'
    BY <1>1, <2>1 DEF IInv, InUnits, Valid
  <2>5. Node' = Node /\ Issued' = Issued /\ \A r : Held(r)' = Held(r)
    BY <1>1, <2>1 DEF Node, In, Issued, Held
  <2>6. NextInOrder' /\ RSCountExact'
    BY <1>1, <2>1, <2>5 DEF IInv, NextInOrder, RSCountExact
  <2>7. QED
    BY <2>2, <2>3, <2>4, <2>6 DEF IInv
<1>5. QED
  BY <1>3, <1>4

LEMMA AccessHolds ==
    ASSUME IInv, NEW f \in FUs, NEW outcome \in Outcomes, DcacheAccess(f, outcome)
    PROVE  IInv'
<1> DEFINE s == AtDcache(f)
<1> USE DEF maps, streams
<1>1. /\ phase = "dcache" /\ s # 0 /\ todo' = todo \ {f}
      /\ UNCHANGED <<maps, streams, retOp, nextIntoRS, rsCount, sched, phase, count>>
  BY DEF DcacheAccess
<1>2. /\ ops \in [DOMAIN ops -> Op] /\ DOMAIN ops \subseteq Nat \ {0} /\ IsFiniteSet(DOMAIN ops)
      /\ ready \subseteq DOMAIN ops /\ misses \subseteq Ref
      /\ sched \in [FUs -> DOMAIN ops \cup {0}]
      /\ exec \in [FUs -> DOMAIN ops \cup {0}] /\ dc \in [FUs -> DOMAIN ops \cup {0}]
  BY DEF IInv, TypeOK, Pointer
<1>3. CASE outcome = "late"
  <2>1. UNCHANGED <<ops, ready, exec, dc, misses>>
    BY <1>3 DEF DcacheAccess
  <2>2. TypeOK'
    BY <1>1, <2>1 DEF IInv, TypeOK, Pointer
  <2>3. /\ fetch'.opCount = fetch.opCount
        /\ UNCHANGED <<ops, maps, nextIntoRS, ready, rsCount, sched, exec, dc, misses, phase>>
    BY <1>1, <2>1
  <2>4. QED
    BY <2>2, <2>3, QuietStep
<1>4. CASE outcome # "late"
  <2> DEFINE wait == CASE outcome = "miss"   -> "MISS"
                       [] outcome = "port"   -> "WAIT_DCACHE"
                       [] outcome = "buffer" -> "WAIT_MEM"
             new == [ops[s] EXCEPT !.state = wait]
  <2>1. /\ s \in DOMAIN ops /\ ops[s].state \in Busy /\ ~ops[s].done
        /\ s = (IF dc[f] # 0 THEN dc[f] ELSE exec[f])
    BY <1>1, <1>2 DEF AtDcache, IInv, InUnits
  <2>2. /\ exec' = IF dc[f] # 0 THEN exec ELSE [exec EXCEPT ![f] = 0]
        /\ dc' = [dc EXCEPT ![f] = IF outcome \in {"port", "buffer"} THEN s ELSE 0]
        /\ \/ outcome = "hit" /\ Supply(s)
           \/ outcome # "hit" /\ ops' = [ops EXCEPT ![s].state = wait] /\ UNCHANGED ready
        /\ misses' = IF outcome = "miss" THEN misses \cup {RefTo(ops, s)} ELSE misses
    BY Zenon, <1>4 DEF DcacheAccess
  <2>3. outcome # "hit" => wait \in {"MISS", "WAIT_DCACHE", "WAIT_MEM"}
    BY <1>4 DEF Outcomes
  <2> HIDE DEF s, wait
  <2>4. /\ Steady
        /\ ops' \in [DOMAIN ops -> Op]
        /\ ops'[s].state \in Busy
        /\ ops'[s].done => ops'[s].state = "SCHEDULED"
        /\ outcome # "hit" => ~ops'[s].done
        /\ \A t \in DOMAIN ops \ {s} :
             /\ ops'[t].done = ops[t].done
             /\ \/ ops'[t].state = ops[t].state
                \/ ops[t].state = "IN_RS" /\ ops'[t].state = "READY"
        /\ ready' = ready \cup Woken
    <3>1. CASE outcome = "hit"
      <4>1. Supply(s)
        BY <2>2, <3>1
      <4>2. QED
        BY <2>1, <3>1, <4>1, SupplyFrame DEF Busy
    <3>2. CASE outcome # "hit"
      <4>1. /\ new \in Op /\ new.num = ops[s].num /\ new.rs = ops[s].rs
            /\ new.unique = ops[s].unique /\ new.stage = ops[s].stage
            /\ new.state = wait /\ new.done = ops[s].done
        <5> SUFFICES ASSUME NEW op \in Op
                     PROVE  LET o == [op EXCEPT !.state = wait]
                            IN /\ o \in Op /\ o.num = op.num /\ o.rs = op.rs
                               /\ o.unique = op.unique /\ o.stage = op.stage
                               /\ o.state = wait /\ o.done = op.done
          BY <1>2, <2>1
        <5> QED  BY <2>3, <3>2 DEF Op
      <4>2. ops' = [ops EXCEPT ![s] = new] /\ ready' = ready
        BY <1>2, <2>1, <2>2, <3>2
      <4> HIDE DEF new
      <4>3. /\ DOMAIN ops' = DOMAIN ops /\ ops' \in [DOMAIN ops -> Op]
            /\ \A t \in DOMAIN ops : ops'[t] = IF t = s THEN new ELSE ops[t]
        BY <1>2, <2>1, <4>1, <4>2
      <4>4. Steady
        BY <4>1, <4>3 DEF Steady
      <4>5. Woken = {}
        BY <2>1, <4>3 DEF Woken, Busy
      <4>6. QED
        BY <2>1, <2>3, <3>2, <4>1, <4>2, <4>3, <4>4, <4>5 DEF Busy
    <3>3. QED
      BY <3>1, <3>2
  <2>5. s \notin ready
    BY <1>1, <2>1 DEF IInv, ReadyList, Busy
  <2>6. AgeOrder' /\ StateOfStage' /\ ReadyList' /\ NextInOrder' /\ RSCountExact'
    BY <1>1, <2>1, <2>4, <2>5, OneOpServed
  <2>7. DOMAIN ops' = DOMAIN ops /\ \A t \in DOMAIN ops : ops'[t].unique = ops[t].unique
    BY <2>4 DEF Steady
  <2>8. RefTo(ops, s) \in Ref
    BY <1>2, <2>1, RefTyped
  <2>9. TypeOK'
    <3>1. /\ IsFiniteSet(DOMAIN ops)' /\ ready' \subseteq DOMAIN ops /\ misses' \subseteq Ref
          /\ exec' \in [FUs -> DOMAIN ops \cup {0}] /\ dc' \in [FUs -> DOMAIN ops \cup {0}]
          /\ todo' \subseteq FUs
      BY <1>1, <1>2, <2>1, <2>2, <2>4, <2>7, <2>8 DEF IInv, TypeOK, Woken
    <3>2. QED
      BY <1>1, <2>4, <2>7, <3>1 DEF IInv, TypeOK, Pointer
  <2>10. SchedReady'
    <3>1. \A g \in FUs : sched[g] # 0 => sched[g] # s
      BY <2>1 DEF IInv, SchedReady, Busy
    <3>2. QED
      BY <1>1, <1>2, <2>4, <3>1 DEF IInv, SchedReady
  <2>11. InUnits'
    <3>1. \A g \in FUs : /\ exec'[g] # s
                         /\ exec'[g] = exec[g] \/ exec'[g] = 0
                         /\ g # f => dc'[g] = dc[g] /\ dc[g] # s
                         /\ dc'[f] = (IF outcome \in {"port", "buffer"} THEN s ELSE 0)
      BY <1>1, <1>2, <2>1, <2>2 DEF IInv, InUnits
    <3>2. /\ \A g \in FUs : exec'[g] # 0 => ops'[exec'[g]].state \in Busy /\ ~ops'[exec'[g]].done
          /\ \A g \in FUs : dc'[g] # 0 => ops'[dc'[g]].state \in Busy /\ ~ops'[dc'[g]].done
      <4>1. ASSUME NEW g \in FUs, exec'[g] # 0
            PROVE  ops'[exec'[g]].state \in Busy /\ ~ops'[exec'[g]].done
        BY <1>2, <2>4, <3>1, <4>1 DEF IInv, InUnits, Busy
      <4>2. ASSUME NEW g \in FUs, dc'[g] # 0, g # f
            PROVE  ops'[dc'[g]].state \in Busy /\ ~ops'[dc'[g]].done
        BY <1>2, <2>4, <3>1, <4>2 DEF IInv, InUnits, Busy
      <4>3. dc'[f] # 0 => ops'[dc'[f]].state \in Busy /\ ~ops'[dc'[f]].done
        BY <2>1, <2>4, <3>1
      <4>4. QED
        BY <4>1, <4>2, <4>3
    <3>3. /\ \A g, h \in FUs : exec'[g] = exec'[h] => exec'[g] = 0 \/ g = h
          /\ \A g, h \in FUs : dc'[g] = dc'[h] => dc'[g] = 0 \/ g = h
          /\ \A g, h \in FUs : exec'[g] = dc'[h] => exec'[g] = 0
      BY <3>1 DEF IInv, InUnits
    <3>4. ASSUME NEW m \in misses', Valid(ops', m)
          PROVE  ops'[m.slot].state \in Busy /\ \A g \in FUs : exec'[g] # m.slot /\ dc'[g] # m.slot
      <4>1. m.slot \in DOMAIN ops /\ Valid(ops, m)
        BY <2>7, <3>4 DEF Valid
      <4>2. CASE m \in misses
        <5>1. /\ ops[m.slot].state \in Busy
              /\ \A g \in FUs : exec[g] # m.slot /\ dc[g] # m.slot
          BY <4>1, <4>2 DEF IInv, InUnits
        <5>2. m.slot # s /\ m.slot # 0
          BY <1>2, <2>1, <4>1, <5>1
        <5>3. QED
          BY <2>4, <3>1, <4>1, <5>1, <5>2 DEF Busy
      <4>3. CASE m \notin misses
        <5>1. m.slot = s /\ outcome = "miss"
          BY <2>2, <3>4, <4>3 DEF RefTo
        <5>2. QED
          BY <1>2, <2>1, <2>4, <3>1, <5>1
      <4>4. QED
        BY <4>2, <4>3
    <3>5. QED
      BY <3>2, <3>3, <3>4 DEF InUnits
  <2>12. QED
    BY <2>6, <2>9, <2>10, <2>11 DEF IInv
<1>5. QED
  BY <1>3, <1>4

\* What exec_stage writes into the op it latches.
Executed(o, d, rcv, rdr) ==
  [o EXCEPT !.state = "SCHEDULED", !.executed = TRUE, !.done = d,
            !.recoverySched = rcv, !.redirectSched = rdr]

LEMMA MarkExecuted ==
  ASSUME NEW o \in Op, NEW d \in BOOLEAN, NEW rcv \in BOOLEAN, NEW rdr \in BOOLEAN
  PROVE  /\ Executed(o, d, rcv, rdr) \in Op
         /\ Executed(o, d, rcv, rdr).num = o.num
         /\ Executed(o, d, rcv, rdr).rs = o.rs
         /\ Executed(o, d, rcv, rdr).unique = o.unique
         /\ Executed(o, d, rcv, rdr).stage = o.stage
         /\ Executed(o, d, rcv, rdr).state = "SCHEDULED"
         /\ Executed(o, d, rcv, rdr).done = d
<1> DEFINE n == Executed(o, d, rcv, rdr)
<1>1. n \in Op
  BY ZenonT(60) DEF Op, Executed
<1>2. /\ n.num = o.num /\ n.rs = o.rs /\ n.unique = o.unique /\ n.stage = o.stage
      /\ n.state = "SCHEDULED" /\ n.done = d
  BY DEF Op, Executed
<1>3. QED
  BY <1>1, <1>2

\* A unit takes the op it was handed.
LEMMA LatchHolds == ASSUME IInv, NEW f \in FUs, Latch(f) PROVE IInv'
<1> DEFINE s      == sched[f]
           op     == ops[s]
           type   == IF op.inst.mem = "store" THEN "data" ELSE "reg"
           wakes  == op.inst.mem = "none" \/ (op.inst.mem = "store" /\ ~op.executed)
           after  == IF wakes THEN WakeUpOps(ops, s, type) ELSE ops
           target == /\ ~op.wrong
                     /\ op.inst.cf = "indirect" /\ op.btb = "noTarget"
                     /\ RedirectTaken(s)
           done   == op.inst.mem = "none"
           rcv    == after[s].recoverySched \/ (op.wrong /\ ~op.offPath)
           rdr    == after[s].redirectSched \/ target
           new    == [after[s] EXCEPT !.state = "SCHEDULED", !.executed = TRUE, !.done = done,
                                      !.recoverySched = rcv, !.redirectSched = rdr]
<1> USE DEF maps, streams
<1>1. /\ ops \in [DOMAIN ops -> Op] /\ DOMAIN ops \subseteq Nat \ {0} /\ IsFiniteSet(DOMAIN ops)
      /\ ready \subseteq DOMAIN ops
      /\ sched \in [FUs -> DOMAIN ops \cup {0}]
      /\ exec \in [FUs -> DOMAIN ops \cup {0}] /\ dc \in [FUs -> DOMAIN ops \cup {0}]
      /\ recovery \in [num : Nat, offPath : BOOLEAN]
      /\ redirect \in [slot : Nat, num : Nat, due : BOOLEAN]
  BY DEF IInv, TypeOK, Pointer
<1>2. s \in DOMAIN ops /\ ops[s].state = "READY" /\ s \in ready /\ ~ops[s].done
  BY <1>1 DEF Latch, IInv, SchedReady, ReadyList, StateOfStage
<1>3. type \in DepTypes
  BY DEF DepTypes
<1>4. /\ after \in [DOMAIN ops -> Op]
      /\ \A t \in DOMAIN ops : /\ after[t].num = ops[t].num
                               /\ after[t].stage = ops[t].stage
                               /\ after[t].rs = ops[t].rs
                               /\ after[t].unique = ops[t].unique
                               /\ after[t].done = ops[t].done
                               /\ \/ after[t].state = ops[t].state
                                  \/ ops[t].state = "IN_RS" /\ after[t].state = "READY"
  <2>1. CASE wakes
    <3>1. after = WakeUpOps(ops, s, type)
      BY <2>1
    <3> HIDE DEF after, type, wakes, s
    <3>2. QED
      BY <1>1, <1>2, <1>3, <3>1, WakeUpFrame
  <2>2. CASE ~wakes
    <3>1. after = ops
      BY <2>2
    <3> HIDE DEF after
    <3>2. QED
      BY <1>1, <3>1
  <2>3. QED
    BY <2>1, <2>2
<1>5. /\ ops' = [after EXCEPT ![s].state = "SCHEDULED", ![s].executed = TRUE, ![s].done = done,
                              ![s].recoverySched = rcv, ![s].redirectSched = rdr]
      /\ ready' = ready \cup NewlyReady(ops, after)
      /\ exec' = IF op.inst.mem = "none" THEN exec ELSE [exec EXCEPT ![f] = s]
      /\ recovery' = IF RecoveryTaken(s) THEN [num |-> op.num, offPath |-> op.offPath]
                     ELSE recovery
      /\ redirect' = IF target THEN [slot |-> s, num |-> op.num, due |-> FALSE]
                     ELSE redirect
      /\ sched' = [sched EXCEPT ![f] = 0]
      /\ todo' = todo \ {f}
      /\ exec[f] = 0 /\ phase = "exec"
      /\ UNCHANGED <<maps, fetch, retOp, nextIntoRS, rsCount, dc, misses, phase, count>>
  BY Zenon DEF Latch
<1>6. done \in BOOLEAN /\ rcv \in BOOLEAN /\ rdr \in BOOLEAN
  BY Zenon
<1>7. op.num \in Nat /\ op.offPath \in BOOLEAN
  BY <1>1, <1>2 DEF Op
<1>8. done => op.inst.mem = "none"
  OBVIOUS
<1> HIDE DEF after, done, rcv, rdr
<1>9. /\ new \in Op /\ new.num = after[s].num /\ new.rs = after[s].rs
      /\ new.unique = after[s].unique /\ new.stage = after[s].stage
      /\ new.state = "SCHEDULED" /\ new.done = done
  <2>1. after[s] \in Op
    BY <1>2, <1>4
  <2>2. new = Executed(after[s], done, rcv, rdr)
    BY DEF Executed
  <2> HIDE DEF new, s, op, target, wakes, type
  <2>3. PICK o \in Op : o = after[s]
    BY <2>1
  <2>4. PICK d \in BOOLEAN, a \in BOOLEAN, b \in BOOLEAN : d = done /\ a = rcv /\ b = rdr
    BY Zenon, <1>6
  <2>5. new = Executed(o, d, a, b)
    BY <2>2, <2>3, <2>4
  <2>6. /\ Executed(o, d, a, b) \in Op
        /\ Executed(o, d, a, b).num = o.num /\ Executed(o, d, a, b).rs = o.rs
        /\ Executed(o, d, a, b).unique = o.unique /\ Executed(o, d, a, b).stage = o.stage
        /\ Executed(o, d, a, b).state = "SCHEDULED" /\ Executed(o, d, a, b).done = d
    BY MarkExecuted
  <2>7. QED
    BY <2>3, <2>4, <2>5, <2>6
<1>10. ops' = [after EXCEPT ![s] = new]
  <2>1. s \in DOMAIN after /\ after = [t \in DOMAIN after |-> after[t]]
    BY <1>2, <1>4
  <2>2. ops' = [after EXCEPT ![s].state = "SCHEDULED", ![s].executed = TRUE, ![s].done = done,
                             ![s].recoverySched = rcv, ![s].redirectSched = rdr]
    BY <1>5
  <2> HIDE DEF s
  <2> QED  BY <2>1, <2>2
<1> HIDE DEF new
<1>11. /\ DOMAIN ops' = DOMAIN ops /\ ops' \in [DOMAIN ops -> Op]
       /\ \A t \in DOMAIN ops : ops'[t] = IF t = s THEN new ELSE after[t]
  <2> HIDE DEF s
  <2> QED  BY <1>2, <1>4, <1>9, <1>10
<1>12. /\ exec' = IF op.inst.mem = "none" THEN exec ELSE [exec EXCEPT ![f] = s]
       /\ dc' = dc /\ misses' = misses
  BY <1>5
<1> HIDE DEF op, target, s
<1>13. Steady
  BY <1>2, <1>4, <1>9, <1>11 DEF Steady
<1>14. ops'[s].state = "SCHEDULED" /\ ops'[s].done = done
  BY <1>2, <1>9, <1>11
<1>15. \A t \in DOMAIN ops \ {s} :
         /\ ops'[t].done = ops[t].done
         /\ \/ ops'[t].state = ops[t].state
            \/ ops[t].state = "IN_RS" /\ ops'[t].state = "READY"
  BY <1>4, <1>11
<1>16. ready' = ready \cup Woken
  <2>1. NewlyReady(ops, after) = Woken
    BY <1>2, <1>11, <1>14 DEF NewlyReady, Woken
  <2>2. QED
    BY <1>5, <2>1
<1>17. AgeOrder' /\ StateOfStage' /\ ReadyList' /\ NextInOrder' /\ RSCountExact'
  BY <1>2, <1>5, <1>11, <1>13, <1>14, <1>15, <1>16, OneOpServed DEF Busy
<1>18. TypeOK'
  <2>1. /\ IsFiniteSet(DOMAIN ops)' /\ ready' \subseteq DOMAIN ops
        /\ exec' \in [FUs -> DOMAIN ops \cup {0}] /\ sched' \in [FUs -> DOMAIN ops \cup {0}]
        /\ todo' \subseteq FUs
    BY <1>1, <1>2, <1>5, <1>11, <1>16 DEF IInv, TypeOK, Woken
  <2>2. /\ recovery' \in [num : Nat, offPath : BOOLEAN]
        /\ redirect' \in [slot : Nat, num : Nat, due : BOOLEAN]
    BY <1>1, <1>2, <1>5, <1>7
  <2>3. QED
    BY <1>5, <1>11, <2>1, <2>2 DEF IInv, TypeOK, Pointer
<1>19. SchedReady'
  <2>1. \A g \in FUs : g # f /\ sched[g] # 0 => sched[g] # s
    BY <1>1, <1>2 DEF IInv, SchedReady, s
  <2>2. \A g \in FUs : sched'[g] = IF g = f THEN 0 ELSE sched[g]
    BY <1>1, <1>5
  <2>3. QED
    BY <1>1, <1>11, <1>15, <2>1, <2>2 DEF IInv, SchedReady
<1>20. InUnits'
  <2>1. \A g \in FUs : exec[g] # s /\ dc[g] # s
    BY <1>1, <1>2 DEF IInv, InUnits, Busy
  <2>2. \A g \in FUs : exec'[g] = IF g = f /\ op.inst.mem # "none" THEN s ELSE exec[g]
    BY <1>1, <1>12
  <2>3. /\ \A g \in FUs : exec'[g] # 0 => ops'[exec'[g]].state \in Busy /\ ~ops'[exec'[g]].done
        /\ \A g \in FUs : dc'[g] # 0 => ops'[dc'[g]].state \in Busy /\ ~ops'[dc'[g]].done
    <3>1. ASSUME NEW g \in FUs, exec'[g] # 0
          PROVE  ops'[exec'[g]].state \in Busy /\ ~ops'[exec'[g]].done
      <4>1. CASE exec'[g] = s
        BY <1>8, <1>14, <2>1, <2>2, <4>1 DEF Busy
      <4>2. CASE exec'[g] # s
        BY <1>1, <1>15, <2>2, <3>1, <4>2 DEF IInv, InUnits, Busy
      <4>3. QED
        BY <4>1, <4>2
    <3>2. ASSUME NEW g \in FUs, dc'[g] # 0
          PROVE  ops'[dc'[g]].state \in Busy /\ ~ops'[dc'[g]].done
      BY <1>1, <1>12, <1>15, <2>1, <3>2 DEF IInv, InUnits, Busy
    <3>3. QED
      BY <3>1, <3>2
  <2>4. /\ \A g, h \in FUs : exec'[g] = exec'[h] => exec'[g] = 0 \/ g = h
        /\ \A g, h \in FUs : dc'[g] = dc'[h] => dc'[g] = 0 \/ g = h
        /\ \A g, h \in FUs : exec'[g] = dc'[h] => exec'[g] = 0
    BY <1>5, <2>1, <2>2 DEF IInv, InUnits
  <2>5. ASSUME NEW m \in misses', Valid(ops', m)
        PROVE  ops'[m.slot].state \in Busy /\ \A g \in FUs : exec'[g] # m.slot /\ dc'[g] # m.slot
    <3>1. m \in misses /\ m.slot \in DOMAIN ops /\ Valid(ops, m)
      BY <1>5, <1>11, <1>13, <2>5 DEF Valid, Steady
    <3>2. ops[m.slot].state \in Busy /\ \A g \in FUs : exec[g] # m.slot /\ dc[g] # m.slot
      BY <3>1 DEF IInv, InUnits
    <3>3. m.slot # s
      BY <1>2, <3>2 DEF Busy
    <3>4. QED
      BY <1>12, <1>15, <2>2, <3>1, <3>2, <3>3 DEF Busy
  <2>6. QED
    BY <2>3, <2>4, <2>5 DEF InUnits
<1>21. QED
  BY <1>17, <1>18, <1>19, <1>20 DEF IInv

\* A new op takes a free slot and a number nothing mentions.
LEMMA FetchHolds ==
    ASSUME IInv, NEW inst \in Insts, NEW prediction \in Predictions(inst),
           FetchOp(inst, prediction)
    PROVE  IInv'
<1> USE DEF maps, streams, window, units
<1>1. /\ ops \in [DOMAIN ops -> Op] /\ DOMAIN ops \subseteq Nat \ {0} /\ IsFiniteSet(DOMAIN ops)
      /\ storeMap \in [Addrs -> StoreEntry(DOMAIN ops \cup {0})]
      /\ regMap \in [Regs -> RegEntry]
      /\ ready \subseteq DOMAIN ops /\ misses \subseteq Ref /\ nextIntoRS \in DOMAIN ops \cup {0}
      /\ sched \in [FUs -> DOMAIN ops \cup {0}]
      /\ exec \in [FUs -> DOMAIN ops \cup {0}] /\ dc \in [FUs -> DOMAIN ops \cup {0}]
      /\ fetch \in [next : {"FETCH", "WAIT_MISS", "WAIT_REDIRECT", "WAIT_EMPTY_ROB"},
                    offPath : BOOLEAN, backOnPath : BOOLEAN, opCount : Nat \ {0}]
  BY DEF IInv, TypeOK, Pointer, StoreEntry, RegEntry
<1>2. PICK s \in 1 .. Cardinality(DOMAIN ops) + 1,
           unique \in 1 .. Cardinality(References) + 1 :
         /\ FirstFree(s, DOMAIN ops) /\ FirstFree(unique, References)
         /\ ops' = [t \in DOMAIN ops \cup {s} |->
                      IF t = s THEN NewOp(inst, prediction, unique) ELSE ops[t]]
         /\ regMap' = WriteRegs(regMap, inst.dests, [slot |-> s, unique |-> unique], OffPath)
         /\ storeMap' = IF inst.mem = "store"
                        THEN WriteStore(storeMap, inst.addr, s, OffPath) ELSE storeMap
  BY Zenon DEF FetchOp
<1>3. /\ s \in Nat \ {0} /\ unique \in Nat \ {0}
      /\ s \notin DOMAIN ops /\ unique \notin References
  BY <1>2 DEF FirstFree
<1>4. OffPath \in BOOLEAN /\ prediction.wrong \in BOOLEAN
      /\ prediction.btb \in {"hit", "miss", "noTarget"}
  <2>1. OffPath \in BOOLEAN
    BY <1>1 DEF OffPath
  <2>2. CASE inst.cf = "none" \/ "fetch" \in inst.bar
    <3>1. prediction = [wrong |-> FALSE, btb |-> "hit"]
      BY Zenon, <2>2 DEF Predictions
    <3>2. QED
      BY <2>1, <3>1
  <2>3. CASE ~(inst.cf = "none" \/ "fetch" \in inst.bar)
    <3>1. prediction \in [wrong : BOOLEAN,
                          btb : IF inst.cf = "direct" THEN {"hit", "miss"}
                                ELSE {"hit", "miss", "noTarget"}]
      BY Zenon, <2>3 DEF Predictions
    <3>2. QED
      BY <2>1, <3>1
  <2>4. QED
    BY <2>2, <2>3
<1> DEFINE new == NewOp(inst, prediction, unique)
<1>5. /\ new \in Op /\ new.num = fetch.opCount /\ new.stage = "ic" /\ new.state = "FETCHED"
      /\ new.done = FALSE /\ new.unique = unique
  <2>1. Deps(regMap, storeMap, ops, inst) \in SUBSET Dep
    BY <1>1, DepsTyped
  <2>2. fetch.opCount \in Nat \ {0}
    BY <1>1
  <2>3. QED
    BY <1>3, <1>4, <2>1, <2>2 DEF NewOp, Op
<1> HIDE DEF new
<1>6. ops' = [t \in DOMAIN ops \cup {s} |-> IF t = s THEN new ELSE ops[t]]
  BY <1>2 DEF new
<1>7. /\ DOMAIN ops' = DOMAIN ops \cup {s} /\ ops' \in [DOMAIN ops' -> Op]
      /\ ops'[s] = new /\ \A t \in DOMAIN ops : ops'[t] = ops[t]
      /\ DOMAIN ops' \subseteq Nat \ {0}
  BY <1>1, <1>3, <1>5, <1>6
<1>8. /\ fetch' \in [next : {"FETCH", "WAIT_MISS", "WAIT_REDIRECT", "WAIT_EMPTY_ROB"},
                     offPath : BOOLEAN, backOnPath : BOOLEAN, opCount : Nat \ {0}]
      /\ fetch'.opCount = fetch.opCount + 1
  <2> DEFINE next == IF prediction.btb # "hit" THEN "WAIT_REDIRECT"
                     ELSE IF "fetch" \in inst.bar THEN "WAIT_EMPTY_ROB" ELSE "FETCH"
             off == OffPath \/ prediction.wrong
  <2>1. fetch' = [next |-> next, offPath |-> off, backOnPath |-> FALSE,
                  opCount |-> fetch.opCount + 1]
    BY Zenon DEF FetchOp
  <2>2. next \in {"FETCH", "WAIT_REDIRECT", "WAIT_EMPTY_ROB"}
    OBVIOUS
  <2>3. off \in BOOLEAN
    BY Zenon
  <2> HIDE DEF next, off
  <2>4. fetch.opCount + 1 \in Nat \ {0}
    BY <1>1
  <2>5. QED
    BY <2>1, <2>2, <2>3, <2>4
<1>9. /\ phase = "icache" /\ phase' \in {"sched", "icache"}
      /\ count' = 0 \/ count' = count + 1
      /\ UNCHANGED <<recovery, redirect, retOp, window, units, todo>>
  BY DEF FetchOp, CanFetch
<1>10. TypeOK'
  <2>1. IsFiniteSet(DOMAIN ops')
    <3>1. IsFiniteSet(DOMAIN ops \cup {s})
      BY <1>1, FS_AddElement
    <3>2. QED
      BY <1>7, <3>1
  <2>2. regMap' \in [Regs -> RegEntry]
    <3>1. [slot |-> s, unique |-> unique] \in Ref
      BY <1>3 DEF Ref
    <3>2. QED
      BY <1>1, <1>2, <3>1, WriteRegsTyped
  <2>3. storeMap' \in [Addrs -> StoreEntry(DOMAIN ops' \cup {0})]
    <3>1. storeMap \in [Addrs -> StoreEntry(DOMAIN ops' \cup {0})]
      BY <1>1, <1>7 DEF StoreEntry
    <3>2. inst.addr \in Addrs /\ s \in DOMAIN ops'
      BY <1>7, InstsAssumption
    <3>3. storeMap[inst.addr] \in StoreEntry(DOMAIN ops' \cup {0})
      BY <3>1, <3>2
    <3>4. /\ [storeMap[inst.addr] EXCEPT !.off = s, !.flag = TRUE]
               \in StoreEntry(DOMAIN ops' \cup {0})
          /\ [storeMap[inst.addr] EXCEPT !.on = s, !.flag = FALSE]
               \in StoreEntry(DOMAIN ops' \cup {0})
      BY <3>2, <3>3 DEF StoreEntry
    <3>5. WriteStore(storeMap, inst.addr, s, OffPath)
            \in [Addrs -> StoreEntry(DOMAIN ops' \cup {0})]
      BY <3>1, <3>4 DEF WriteStore
    <3>6. QED
      BY <1>2, <3>1, <3>5
  <2>4. /\ ready' \subseteq DOMAIN ops' /\ nextIntoRS' \in DOMAIN ops' \cup {0}
        /\ sched' \in [FUs -> DOMAIN ops' \cup {0}]
        /\ exec' \in [FUs -> DOMAIN ops' \cup {0}] /\ dc' \in [FUs -> DOMAIN ops' \cup {0}]
    BY <1>1, <1>7, <1>9
  <2>5. count' \in Nat
    BY <1>9 DEF IInv, TypeOK
  <2>6. QED
    BY <1>7, <1>8, <1>9, <2>1, <2>2, <2>3, <2>4, <2>5
       DEF IInv, TypeOK, Pointer, StoreEntry, RegEntry
<1>11. AgeOrder'
  <2>1. \A t \in DOMAIN ops : /\ ops[t].stage \in {"ic", "dec", "map", "node"}
                              /\ ops[t].num \in Nat /\ ops[t].num < fetch.opCount
    BY <1>1 DEF IInv, AgeOrder, Op
  <2>2. fetch.opCount \in Nat
    BY <1>1
  <2>3. \A t \in DOMAIN ops : ~(Depth["ic"] > Depth[ops[t].stage])
    BY <2>1 DEF Depth
  <2>4. \A t, u \in DOMAIN ops' : ops'[t].num = ops'[u].num => t = u
    BY <1>5, <1>7, <2>1, <2>2 DEF IInv, AgeOrder
  <2>5. ASSUME NEW t \in DOMAIN ops', NEW u \in DOMAIN ops',
               Depth[ops'[t].stage] > Depth[ops'[u].stage]
        PROVE  ops'[t].num < ops'[u].num
    <3>1. CASE t = s
      BY <1>5, <1>7, <2>3, <2>5, <3>1 DEF Depth
    <3>2. CASE t # s /\ u = s
      BY <1>5, <1>7, <2>1, <3>2
    <3>3. CASE t # s /\ u # s
      BY <1>7, <2>5, <3>3 DEF IInv, AgeOrder
    <3>4. QED
      BY <3>1, <3>2, <3>3
  <2>6. \A t \in DOMAIN ops' : ops'[t].num < fetch'.opCount
    BY <1>5, <1>7, <1>8, <2>1, <2>2
  <2>7. QED
    BY <2>4, <2>5, <2>6 DEF AgeOrder
<1>12. StateOfStage'
  BY <1>5, <1>7 DEF IInv, StateOfStage
<1>13. ReadyList' /\ SchedReady'
  BY <1>1, <1>5, <1>7, <1>9 DEF IInv, ReadyList, SchedReady
<1>14. InUnits'
  <2>1. ASSUME NEW m \in misses, Valid(ops', m)
        PROVE  m.slot \in DOMAIN ops /\ Valid(ops, m)
    <3>1. m.unique \in References
      BY DEF References
    <3>2. m.slot # s
      BY <1>3, <1>5, <1>7, <2>1, <3>1 DEF Valid
    <3>3. QED
      BY <1>7, <2>1, <3>2 DEF Valid
  <2>2. \A m \in misses : Valid(ops', m) =>
          /\ ops'[m.slot].state \in Busy
          /\ \A f \in FUs : exec[f] # m.slot /\ dc[f] # m.slot
    BY <1>7, <2>1 DEF IInv, InUnits
  <2>3. QED
    BY <1>1, <1>7, <1>9, <2>2 DEF IInv, InUnits
<1>15. Node' = Node /\ Issued' = Issued /\ \A r : Held(r)' = Held(r)
  BY <1>5, <1>7, <1>9 DEF Node, In, Issued, Held
<1>16. NextInOrder' /\ RSCountExact'
  <2>1. Issued \subseteq DOMAIN ops /\ Node \subseteq DOMAIN ops
    BY DEF Issued, Node, In
  <2>2. QED
    BY <1>7, <1>9, <1>15, <2>1 DEF IInv, NextInOrder, RSCountExact
<1>17. QED
  BY <1>10, <1>11, <1>12, <1>13, <1>14, <1>16 DEF IInv

LEMMA NextHolds == ASSUME ~WidthReached, IInv, [Next]_vars PROVE IInv'
<1>1. CASE Recover
  BY <1>1, RecoverHolds
<1>2. CASE Redirect
  BY <1>2, RedirectHolds
<1>3. CASE \E ref \in misses : DcacheFill(ref)
  BY <1>3, FillLineHolds
<1>4. CASE \E f \in FUs, outcome \in Outcomes : DcacheAccess(f, outcome)
  BY <1>4, AccessHolds
<1>5. CASE \E f \in FUs : Latch(f)
  BY <1>5, LatchHolds
<1>6. CASE \E f \in FUs : Reject(f)
  BY <1>6, RejectHolds
<1>7. CASE Issue
  BY <1>7, IssueHolds
<1>8. CASE HandleScheduled
  BY <1>8, HandleHolds
<1>9. CASE \E r \in Stations : FillRS(r)
  BY <1>9, FillHolds
<1>10. CASE Retire
  BY <1>10, RetireHolds
<1>11. CASE MapStage
  BY <1>11, MapHolds
<1>12. CASE DecodeStage
  BY <1>12, DecodeHolds
<1>13. CASE \E inst \in Insts : \E prediction \in Predictions(inst) : FetchOp(inst, prediction)
  BY <1>13, FetchHolds
<1>14. CASE \E pick \in [FUs -> ready \cup {0}] : Schedule(pick)
  BY <1>14, ScheduleHolds
<1>15. CASE Quiet
  BY <1>15, QuietHolds
<1>16. QED
  BY Zenon, <1>1, <1>2, <1>3, <1>4, <1>5, <1>6, <1>7, <1>8, <1>9, <1>10, <1>11, <1>12, <1>13,
     <1>14, <1>15 DEF Next, Quiet

\* The pointer of the code is the CHOOSE of the property: numbers are distinct.
LEMMA Exact == IInv => StationsExact
<1> SUFFICES ASSUME IInv PROVE StationsExact
  OBVIOUS
<1>1. Issued \subseteq DOMAIN ops /\ DOMAIN ops \subseteq Nat \ {0}
      /\ \A s \in DOMAIN ops : ops[s].num \in Nat
  BY DEF IInv, TypeOK, Issued, Node, In, Op
<1>2. CASE Issued = {}
  BY <1>1, <1>2 DEF IInv, NextInOrder, StationsExact, NextIntoRSIsOldestIssued, Issued
<1>3. CASE Issued # {}
  <2>1. /\ nextIntoRS \in Issued
        /\ \A t \in Issued : ops[nextIntoRS].num <= ops[t].num
    BY <1>3 DEF IInv, NextInOrder
  <2>2. /\ Oldest(ops, Issued) \in Issued
        /\ \A t \in Issued : ops[Oldest(ops, Issued)].num <= ops[t].num
    <3> DEFINE S == Issued
    <3>1. S # {} /\ \A s \in S : ops[s].num \in Nat
      BY <1>1, <1>3
    <3> HIDE DEF S
    <3>2. Oldest(ops, S) \in S /\ \A t \in S : ops[Oldest(ops, S)].num <= ops[t].num
      BY <3>1, OldestFound
    <3>3. QED
      BY <3>2 DEF S
  <2>3. nextIntoRS = Oldest(ops, Issued)
    BY <1>1, <2>1, <2>2 DEF IInv, AgeOrder
  <2>4. QED
    BY <1>3, <2>3 DEF IInv, StationsExact, NextIntoRSIsOldestIssued, Issued
<1>4. QED
  BY <1>2, <1>3

\* The hypothesis is the weakest one: the turn of node_fill_rs that fills the last op of
\* the width always leaves next_op_into_rs at an op that waits for no place.
THEOREM WidthLeavesTheOpBehind ==
    ASSUME IInv, WidthReached, NEW r \in Stations, FillRS(r)
    PROVE  ~NextIntoRSIsOldestIssued'
<1> DEFINE s == nextIntoRS
           issued == {t \in Node' : ops'[t].state = "ISSUED"}
<1>1. /\ ops \in [DOMAIN ops -> Op] /\ DOMAIN ops \subseteq Nat \ {0}
      /\ IsFiniteSet(DOMAIN ops) /\ count \in Nat
  BY DEF IInv, TypeOK
<1>2. s \in DOMAIN ops /\ s # 0
  BY DEF FillRS, IInv, NextInOrder, Issued, Node, In
<1>3. nextIntoRS' = s
  BY DEF WidthReached, FillRS
<1>4. /\ DOMAIN ops' = DOMAIN ops
      /\ \A t \in DOMAIN ops : ops'[t].num = ops[t].num
      /\ ops'[s].state # "ISSUED"
  <2> DEFINE state == IF ops[s].notRdy = {} THEN "READY" ELSE "IN_RS"
  <2>1. ops' = [ops EXCEPT ![s].rs = r, ![s].state = state]
    BY DEF FillRS
  <2>2. state # "ISSUED"
    OBVIOUS
  <2> HIDE DEF state
  <2>3. ASSUME NEW op \in Op
        PROVE  LET o == [op EXCEPT !.rs = r, !.state = state]
               IN o.num = op.num /\ o.state = state
    BY DEF Op
  <2>4. ops'[s] = [ops[s] EXCEPT !.rs = r, !.state = state]
    BY <1>1, <1>2, <2>1
  <2>5. ops'[s].num = ops[s].num /\ ops'[s].state = state
    BY <1>1, <1>2, <2>3, <2>4
  <2>6. DOMAIN ops' = DOMAIN ops /\ \A t \in DOMAIN ops \ {s} : ops'[t] = ops[t]
    BY <1>1, <1>2, <2>1
  <2>7. QED
    BY <2>2, <2>5, <2>6
<1>5. \A t \in issued : t \in DOMAIN ops' /\ ops'[t].num \in Nat
  BY <1>1, <1>4 DEF Node, In, Op
<1>6. s \notin issued
  BY <1>4
<1>7. ASSUME issued # {}
      PROVE  Oldest(ops', issued) \in issued
  <2> HIDE DEF issued
  <2>1. \A t \in issued : ops'[t].num \in Nat
    BY <1>5
  <2>2. QED
    BY <1>7, <2>1, OldestFound
<1>8. QED
  BY <1>2, <1>3, <1>6, <1>7 DEF NextIntoRSIsOldestIssued

\* Until the fill width is reached the pipeline keeps its types: no unit, station, map
\* entry or list ever names an op that has left, and no station holds more than it has
\* places.
THEOREM PipelineTypeCorrect == Spec /\ []~WidthReached => []TypeOK
<1>1. Init => IInv
  BY InitHolds
<1>2. IInv /\ ~WidthReached /\ [Next]_vars => IInv'
  BY NextHolds
<1>3. IInv => TypeOK
  BY DEF IInv
<1>4. QED
  BY <1>1, <1>2, <1>3, PTL DEF Spec

\* Until the fill width is reached the counts of the stations are exact through issue, wake-up,
\* rejection, memory stalls and recovery, and next_op_into_rs is the oldest issued op.
THEOREM StationsAreExact == Spec /\ []~WidthReached => []StationsExact
<1>1. Init => IInv
  BY InitHolds
<1>2. IInv /\ ~WidthReached /\ [Next]_vars => IInv'
  BY NextHolds
<1>3. IInv => StationsExact
  BY Exact
<1>4. QED
  BY <1>1, <1>2, <1>3, PTL DEF Spec
=============================================================================

------------------------- MODULE PipelineFlowProofs -------------------------
(***************************************************************************)
(* What the pipeline computes, for any program: no wake-up is lost, the    *)
(* maps name the youngest writer, every op executes with the values of the *)
(* program, fetch and the ops in flight agree on the path, and the whole   *)
(* implements a machine that works in program order.                       *)
(***************************************************************************)
EXTENDS PipelineProofs

\* What an op gives out when it has its result.
Gives(op) == IF op.inst.mem = "store" THEN "data" ELSE "reg"

\* s is the youngest op in flight.
Last(s) == s \in DOMAIN ops /\ \A t \in DOMAIN ops : ops[t].num <= ops[s].num

\* An op has executed when its unit has taken it; then it waits for nothing, and it
\* has given its result out at the latest when it is done.  In a station it waits for
\* something unless it is ready.
Sound(op) ==
    /\ op.executed <=> op.state \in Busy
    /\ op.executed => op.notRdy = {}
    /\ op.signaled # {} => op.executed
    /\ op.done \/ (op.executed /\ op.inst.mem = "store") => Gives(op) \in op.signaled
    /\ op.state = "IN_RS" => op.notRdy # {}
    /\ op.state = "READY" => op.notRdy = {}

Execution == \A s \in DOMAIN ops : Sound(ops[s])

\* A source still in flight is older, and gives out what the op waits for.
SourcesOlder ==
    \A s \in DOMAIN ops : \A d \in ops[s].notRdy :
        Valid(ops, d.ref) => /\ ops[d.ref.slot].num < ops[s].num
                             /\ d.type = Gives(ops[d.ref.slot])

\* What waits in the back end is in the list of its source.
WakeLists ==
    \A s \in DOMAIN ops : ops[s].stage \in {"map", "node"} =>
        \A d \in ops[s].notRdy :
           /\ Valid(ops, d.ref)
           /\ d.type \notin ops[d.ref.slot].signaled
           /\ [ref |-> RefTo(ops, s), type |-> d.type] \in ops[d.ref.slot].wakeUp

\* t is the op of S that matters to s.
LastBefore(t, S, s) ==
    /\ t \in Before(S, s)
    /\ \A u \in Before(S, s) : ops[u].num <= ops[t].num

\* s waits for it, or it has given out its result.
Awaited(S, s, type) ==
    \A t \in S : LastBefore(t, S, s) =>
        \/ [ref |-> RefTo(ops, t), type |-> type] \in ops[s].notRdy
        \/ type \in ops[t].signaled

SourcesAwaited ==
    \A s \in DOMAIN ops :
        /\ \A r \in ops[s].inst.srcs : Awaited(Writers(r), s, "reg")
        /\ ops[s].inst.mem = "load" => Awaited(Stores(ops[s].inst.addr), s, "data")

OnOf(S) == {s \in S : ~ops[s].offPath}
OffOf(S) == {s \in S : ops[s].offPath}

\* s is the youngest op of S.
LastOf(s, S) == s \in S /\ \A t \in S : ops[t].num <= ops[s].num

\* Each half of a map entry names the youngest writer on its side of the path.
RegMapExact ==
    \A r \in Regs :
        /\ \A s \in DOMAIN ops : LastOf(s, OnOf(Writers(r))) => regMap[r].on = RefTo(ops, s)
        /\ Valid(ops, regMap[r].on) => regMap[r].on.slot \in OnOf(Writers(r))
        /\ \A s \in DOMAIN ops : LastOf(s, OffOf(Writers(r))) => regMap[r].off = RefTo(ops, s)
        /\ regMap[r].flag <=> OffOf(Writers(r)) # {}

StoreMapExact ==
    \A a \in Addrs :
        /\ \A s \in DOMAIN ops : LastOf(s, OnOf(Stores(a))) => storeMap[a].on = s
        /\ storeMap[a].on # 0 => storeMap[a].on \in OnOf(Stores(a))
        /\ \A s \in DOMAIN ops : LastOf(s, OffOf(Stores(a))) => storeMap[a].off = s
        /\ storeMap[a].flag <=> OffOf(Stores(a)) # {}

\* What bp_predict_op can have said.
Predicted ==
    \A s \in DOMAIN ops :
        /\ ops[s].btb # "hit" => ops[s].inst.cf # "none" /\ "fetch" \notin ops[s].inst.bar
        /\ ops[s].btb = "noTarget" => ops[s].inst.cf = "indirect"
        /\ ops[s].wrong => "fetch" \notin ops[s].inst.bar

\* A pending recovery belongs to a branch in the reorder buffer that cannot leave it.
RecoveryOwner ==
    /\ \A s \in DOMAIN ops :
         ops[s].recoverySched => recovery = [num |-> ops[s].num, offPath |-> FALSE]
    /\ recovery.num > 0 =>
         \E s \in Node : /\ ops[s].num = recovery.num
                         /\ ops[s].wrong /\ ops[s].executed
                         /\ ops[s].offPath = recovery.offPath
                         /\ ops[s].recoverySched \/ ops[s].offPath

\* A pending redirection belongs to the branch that fetch stopped at: to one just
\* decoded, or to one just executed that went the right way.
RedirectOwner ==
    /\ \A s \in DOMAIN ops :
         ops[s].redirectSched => redirect.slot = s /\ redirect.num = ops[s].num
    /\ redirect.slot # 0 =>
         /\ Last(redirect.slot)
         /\ ops[redirect.slot].redirectSched
         /\ fetch.next = "WAIT_REDIRECT"
         /\ redirect.due => /\ ops[redirect.slot].stage = "dec"
                            /\ ops[redirect.slot].btb # "noTarget"
                            /\ phase \in {"icache", "sched", "istreams"}
         /\ ~redirect.due => ops[redirect.slot].executed /\ ~ops[redirect.slot].wrong

\* The branch fetch stopped at is the youngest op until it is answered.
Stopped ==
    /\ \A s \in DOMAIN ops :
         /\ ops[s].btb # "hit"
         /\ ops[s].stage = "ic" \/ (ops[s].btb = "noTarget" /\ ~ops[s].executed)
         => fetch.next = "WAIT_REDIRECT" /\ Last(s)
    /\ fetch.next = "WAIT_REDIRECT" =>
         \E s \in DOMAIN ops :
            /\ Last(s) /\ ops[s].btb # "hit"
            /\ \/ redirect.slot = s
               \/ recovery.num > 0
               \/ ops[s].stage = "ic"
               \/ ops[s].btb = "noTarget" /\ ~ops[s].executed

\* Nothing is fetched behind a barrier.
BarrierLast ==
    \A s \in DOMAIN ops : "fetch" \in ops[s].inst.bar =>
        Last(s) /\ fetch.next = "WAIT_EMPTY_ROB"

MissesNamed == \A s \in DOMAIN ops : ops[s].state = "MISS" <=> RefTo(ops, s) \in misses

\* The ops in flight are numbered without gaps, from the next one to retire.
Numbered ==
    /\ retOp <= fetch.opCount
    /\ \A s \in DOMAIN ops : retOp <= ops[s].num
    /\ \A n \in retOp .. fetch.opCount - 1 : \E s \in DOMAIN ops : ops[s].num = n

Flow == /\ Execution /\ WakeLists /\ SourcesOlder /\ SourcesAwaited
Front == /\ Predicted /\ PathMarked /\ RecoveryOwner /\ RedirectOwner /\ Stopped
         /\ BarrierLast /\ MissesNamed
Maps == RegMapExact /\ StoreMapExact
-----------------------------------------------------------------------------
(* What the steps leave of an op.                                           *)

Same(new, old) ==
    /\ new.unique = old.unique /\ new.num = old.num /\ new.inst = old.inst
    /\ new.offPath = old.offPath /\ new.wrong = old.wrong /\ new.btb = old.btb

SameFlow(new, old) ==
    new.notRdy = old.notRdy /\ new.wakeUp = old.wakeUp /\ new.signaled = old.signaled

SameFront(new, old) ==
    /\ new.stage = old.stage /\ new.executed = old.executed
    /\ new.recoverySched = old.recoverySched /\ new.redirectSched = old.redirectSched

\* t is in the wake-up list of s and waits for it.
Bit(live, s, type) == [ref |-> RefTo(live, s), type |-> type]
Hears(live, s, type, t) ==
    Bit(live, t, type) \in live[s].wakeUp /\ Bit(live, s, type) \in live[t].notRdy

\* What a broadcast of s makes of op t.
Heard(live, s, type, t, new) ==
    /\ new.wakeUp = live[t].wakeUp
    /\ new.notRdy = IF Hears(live, s, type, t) THEN live[t].notRdy \ {Bit(live, s, type)}
                    ELSE live[t].notRdy
    /\ new.signaled = IF t = s THEN live[t].signaled \cup {type} ELSE live[t].signaled

HeardState(live, s, type, t) ==
    IF /\ Hears(live, s, type, t) /\ live[t].state = "IN_RS"
       /\ live[t].notRdy = {Bit(live, s, type)}
    THEN "READY" ELSE live[t].state

LEMMA WakeUpExact ==
    ASSUME NEW live, live \in [DOMAIN live -> Op], NEW s \in DOMAIN live,
           NEW type \in DepTypes
    PROVE  /\ DOMAIN WakeUpOps(live, s, type) = DOMAIN live
           /\ \A t \in DOMAIN live :
                LET new == WakeUpOps(live, s, type)[t]
                IN /\ Same(new, live[t]) /\ SameFront(new, live[t])
                   /\ new.done = live[t].done
                   /\ Heard(live, s, type, t, new)
                   /\ new.state = HeardState(live, s, type, t)
<1> DEFINE bit == [ref |-> RefTo(live, s), type |-> type]
           woken == {t \in DOMAIN live : /\ [ref |-> RefTo(live, t), type |-> type]
                                                \in live[s].wakeUp
                                         /\ bit \in live[t].notRdy}
           notRdy(t) == IF t \in woken THEN live[t].notRdy \ {bit} ELSE live[t].notRdy
           state(t) == IF t \in woken /\ live[t].state = "IN_RS" /\ live[t].notRdy = {bit}
                       THEN "READY" ELSE live[t].state
           signaled(t) == IF t = s THEN live[t].signaled \cup {type} ELSE live[t].signaled
           new(t) == [live[t] EXCEPT !.notRdy = notRdy(t), !.state = state(t),
                                     !.signaled = signaled(t)]
<1>1. WakeUpOps(live, s, type) = [t \in DOMAIN live |-> new(t)]
  BY Zenon DEF WakeUpOps
<1>2. \A t \in DOMAIN live : t \in woken <=> Hears(live, s, type, t)
  BY DEF Hears, Bit
<1>3. bit = Bit(live, s, type)
  BY DEF Bit
<1>4. ASSUME NEW t \in DOMAIN live
      PROVE  /\ Same(new(t), live[t]) /\ SameFront(new(t), live[t])
             /\ new(t).done = live[t].done
             /\ Heard(live, s, type, t, new(t))
             /\ new(t).state = HeardState(live, s, type, t)
  <2>1. live[t] \in Op
    OBVIOUS
  <2>2. /\ state(t) = HeardState(live, s, type, t)
        /\ notRdy(t) = IF Hears(live, s, type, t) THEN live[t].notRdy \ {Bit(live, s, type)}
                       ELSE live[t].notRdy
    <3> HIDE DEF bit, woken
    <3> QED  BY <1>2, <1>3 DEF HeardState
  <2> HIDE DEF notRdy, state, bit, woken
  <2>3. /\ new(t).notRdy = notRdy(t) /\ new(t).state = state(t) /\ new(t).signaled = signaled(t)
        /\ new(t).wakeUp = live[t].wakeUp /\ new(t).done = live[t].done
    BY <2>1 DEF Op
  <2>4. Same(new(t), live[t]) /\ SameFront(new(t), live[t])
    BY <2>1 DEF Op, Same, SameFront
  <2> HIDE DEF new
  <2>5. QED
    BY <2>2, <2>3, <2>4 DEF Heard
<1> HIDE DEF new
<1>5. QED
  BY <1>1, <1>4

\* An op gets its data; a store gives nothing out any more.
LEMMA SupplyExact ==
    ASSUME IInv, NEW s \in DOMAIN ops, Supply(s)
    PROVE  /\ DOMAIN ops' = DOMAIN ops
           /\ \A t \in DOMAIN ops :
                /\ Same(ops'[t], ops[t]) /\ SameFront(ops'[t], ops[t])
                /\ ops'[t].done <=> (t = s \/ ops[t].done)
           /\ ops'[s].state = "SCHEDULED"
           /\ ops[s].inst.mem = "store" =>
                \A t \in DOMAIN ops : /\ SameFlow(ops'[t], ops[t])
                                      /\ t # s => ops'[t].state = ops[t].state
           /\ ops[s].inst.mem # "store" =>
                \A t \in DOMAIN ops :
                   /\ Heard(ops, s, "reg", t, ops'[t])
                   /\ t # s => ops'[t].state = HeardState(ops, s, "reg", t)
<1> DEFINE new == [ops[s] EXCEPT !.state = "SCHEDULED", !.done = TRUE]
           now == [ops EXCEPT ![s] = new]
<1>1. ops \in [DOMAIN ops -> Op]
  BY DEF IInv, TypeOK
<1>2. ops' = IF ops[s].inst.mem = "store" THEN now ELSE WakeUpOps(now, s, "reg")
  <2>1. [ops EXCEPT ![s].state = "SCHEDULED", ![s].done = TRUE] = now
    BY <1>1
  <2> HIDE DEF now
  <2>2. QED
    BY Zenon, <2>1 DEF Supply
<1>3. /\ new \in Op /\ Same(new, ops[s]) /\ SameFlow(new, ops[s]) /\ SameFront(new, ops[s])
      /\ new.state = "SCHEDULED" /\ new.done
  <2> SUFFICES ASSUME NEW op \in Op
               PROVE  LET o == [op EXCEPT !.state = "SCHEDULED", !.done = TRUE]
                      IN /\ o \in Op /\ Same(o, op) /\ SameFlow(o, op) /\ SameFront(o, op)
                         /\ o.state = "SCHEDULED" /\ o.done
    BY <1>1
  <2> QED  BY DEF Op, Same, SameFlow, SameFront
<1> HIDE DEF new
<1>4. /\ DOMAIN now = DOMAIN ops /\ now \in [DOMAIN now -> Op] /\ s \in DOMAIN now
      /\ \A t \in DOMAIN ops : now[t] = IF t = s THEN new ELSE ops[t]
  BY <1>1, <1>3
<1> HIDE DEF now
<1>5. \A t \in DOMAIN ops :
         /\ Same(now[t], ops[t]) /\ SameFlow(now[t], ops[t]) /\ SameFront(now[t], ops[t])
         /\ now[t].done <=> (t = s \/ ops[t].done)
         /\ t # s => now[t].state = ops[t].state
  BY <1>3, <1>4 DEF Same, SameFlow, SameFront
<1>6. CASE ops[s].inst.mem = "store"
  <2>1. ops' = now
    BY <1>2, <1>6
  <2>2. QED
    BY <1>3, <1>4, <1>5, <1>6, <2>1
<1>7. CASE ops[s].inst.mem # "store"
  <2>1. ops' = WakeUpOps(now, s, "reg")
    BY <1>2, <1>7
  <2>2. "reg" \in DepTypes
    BY DEF DepTypes
  <2>3. /\ DOMAIN ops' = DOMAIN ops
        /\ \A t \in DOMAIN ops :
             /\ Same(ops'[t], now[t]) /\ SameFront(ops'[t], now[t])
             /\ ops'[t].done = now[t].done
             /\ Heard(now, s, "reg", t, ops'[t])
             /\ ops'[t].state = HeardState(now, s, "reg", t)
    BY <1>4, <2>1, <2>2, WakeUpExact
  <2>4. ASSUME NEW t \in DOMAIN ops
        PROVE  /\ Bit(now, t, "reg") = Bit(ops, t, "reg")
               /\ now[t].notRdy = ops[t].notRdy /\ now[t].wakeUp = ops[t].wakeUp
               /\ now[t].signaled = ops[t].signaled
    BY <1>5 DEF Bit, RefTo, Same, SameFlow
  <2>5. \A t \in DOMAIN ops : Hears(now, s, "reg", t) <=> Hears(ops, s, "reg", t)
    BY <2>4 DEF Hears
  <2>6. \A t \in DOMAIN ops : Heard(ops, s, "reg", t, ops'[t])
    BY <2>3, <2>4, <2>5 DEF Heard
  <2>7. \A t \in DOMAIN ops \ {s} : ops'[t].state = HeardState(ops, s, "reg", t)
    BY <1>5, <2>3, <2>4, <2>5 DEF HeardState
  <2>8. ops'[s].state = "SCHEDULED"
    BY <1>3, <1>4, <2>3 DEF HeardState
  <2>9. \A t \in DOMAIN ops : Same(ops'[t], ops[t]) /\ SameFront(ops'[t], ops[t])
    BY <1>5, <2>3 DEF Same, SameFront
  <2>10. QED
    BY <1>5, <1>7, <2>3, <2>6, <2>7, <2>8, <2>9
<1>8. QED
  BY <1>6, <1>7

\* The branch that has just executed tells fetch where to go on.
Targets(s) == /\ ~ops[s].wrong
              /\ ops[s].inst.cf = "indirect" /\ ops[s].btb = "noTarget"
              /\ RedirectTaken(s)

\* A unit takes an op: all but loads give out their result.
LEMMA LatchExact ==
    ASSUME IInv, Execution, NEW f \in FUs, Latch(f), NEW s, s = sched[f]
    PROVE  /\ s \in DOMAIN ops /\ ops[s].state = "READY" /\ ~ops[s].executed
           /\ DOMAIN ops' = DOMAIN ops
           /\ \A t \in DOMAIN ops :
                /\ Same(ops'[t], ops[t]) /\ ops'[t].stage = ops[t].stage
                /\ ops'[t].executed <=> (t = s \/ ops[t].executed)
                /\ ops'[t].done <=> IF t = s THEN ops[s].inst.mem = "none" ELSE ops[t].done
                /\ ops'[t].recoverySched <=>
                     (ops[t].recoverySched \/ (t = s /\ ops[s].wrong /\ ~ops[s].offPath))
                /\ ops'[t].redirectSched <=> (ops[t].redirectSched \/ (t = s /\ Targets(s)))
           /\ ops'[s].state = "SCHEDULED"
           /\ ops[s].inst.mem = "load" =>
                \A t \in DOMAIN ops : /\ SameFlow(ops'[t], ops[t])
                                      /\ t # s => ops'[t].state = ops[t].state
           /\ ops[s].inst.mem # "load" =>
                \A t \in DOMAIN ops :
                   /\ Heard(ops, s, Gives(ops[s]), t, ops'[t])
                   /\ t # s => ops'[t].state = HeardState(ops, s, Gives(ops[s]), t)
<1> DEFINE op     == ops[s]
           type   == IF op.inst.mem = "store" THEN "data" ELSE "reg"
           wakes  == op.inst.mem = "none" \/ (op.inst.mem = "store" /\ ~op.executed)
           after  == IF wakes THEN WakeUpOps(ops, s, type) ELSE ops
           target == /\ ~op.wrong
                     /\ op.inst.cf = "indirect" /\ op.btb = "noTarget"
                     /\ RedirectTaken(s)
           done   == op.inst.mem = "none"
           rcv    == after[s].recoverySched \/ (op.wrong /\ ~op.offPath)
           rdr    == after[s].redirectSched \/ target
           new    == [after[s] EXCEPT !.state = "SCHEDULED", !.executed = TRUE, !.done = done,
                                      !.recoverySched = rcv, !.redirectSched = rdr]
<1>1. /\ ops \in [DOMAIN ops -> Op] /\ sched \in [FUs -> DOMAIN ops \cup {0}]
      /\ ready \subseteq DOMAIN ops
  BY DEF IInv, TypeOK, Pointer
<1>2. s \in DOMAIN ops /\ ops[s].state = "READY"
  BY <1>1 DEF Latch, IInv, SchedReady
<1>3. ~ops[s].executed
  BY <1>2 DEF Execution, Sound, Busy
<1>4. op.inst.mem \in {"none", "load", "store"}
  <2>1. op.inst \in Insts
    BY <1>1, <1>2 DEF Op
  <2>2. QED
    BY <2>1, InstsAssumption
<1>5. type \in DepTypes /\ type = Gives(ops[s])
  BY DEF DepTypes, Gives
<1>6. ops' = [after EXCEPT ![s].state = "SCHEDULED", ![s].executed = TRUE, ![s].done = done,
                           ![s].recoverySched = rcv, ![s].redirectSched = rdr]
  BY Zenon DEF Latch
<1>7. wakes <=> op.inst.mem # "load"
  BY <1>3, <1>4
<1>8. done \in BOOLEAN /\ rcv \in BOOLEAN /\ rdr \in BOOLEAN
  BY Zenon
<1>9. /\ DOMAIN after = DOMAIN ops /\ after \in [DOMAIN ops -> Op]
      /\ \A t \in DOMAIN ops :
           /\ Same(after[t], ops[t]) /\ SameFront(after[t], ops[t])
           /\ after[t].done = ops[t].done
      /\ ~wakes => \A t \in DOMAIN ops :
           SameFlow(after[t], ops[t]) /\ after[t].state = ops[t].state
      /\ wakes => \A t \in DOMAIN ops :
           /\ Heard(ops, s, type, t, after[t])
           /\ after[t].state = HeardState(ops, s, type, t)
  <2>1. CASE wakes
    <3>1. after = WakeUpOps(ops, s, type)
      BY <2>1
    <3> HIDE DEF after, type, wakes
    <3>2. QED
      BY <1>1, <1>2, <1>5, <2>1, <3>1, WakeUpExact, WakeUpFrame
  <2>2. CASE ~wakes
    <3>1. after = ops
      BY <2>2
    <3> HIDE DEF after, wakes
    <3>2. QED
      BY <1>1, <2>2, <3>1 DEF Same, SameFront, SameFlow
  <2>3. QED
    BY <2>1, <2>2
<1>10. target <=> Targets(s)
  BY DEF Targets
<1>11. done <=> ops[s].inst.mem = "none"
  OBVIOUS
<1>12. /\ rcv <=> (ops[s].recoverySched \/ (ops[s].wrong /\ ~ops[s].offPath))
       /\ rdr <=> (ops[s].redirectSched \/ Targets(s))
  <2> HIDE DEF target, after
  <2> QED  BY <1>2, <1>9, <1>10 DEF SameFront
<1> HIDE DEF after, done, rcv, rdr, target, wakes, type
<1>13. /\ Same(new, after[s]) /\ SameFlow(new, after[s]) /\ new.stage = after[s].stage
       /\ new.state = "SCHEDULED" /\ new.executed = TRUE /\ new.done = done
       /\ new.recoverySched = rcv /\ new.redirectSched = rdr
  <2> SUFFICES ASSUME NEW o \in Op
               PROVE  LET n == [o EXCEPT !.state = "SCHEDULED", !.executed = TRUE,
                                         !.done = done, !.recoverySched = rcv,
                                         !.redirectSched = rdr]
                      IN /\ Same(n, o) /\ SameFlow(n, o) /\ n.stage = o.stage
                         /\ n.state = "SCHEDULED" /\ n.executed = TRUE /\ n.done = done
                         /\ n.recoverySched = rcv /\ n.redirectSched = rdr
    BY <1>2, <1>9
  <2> QED  BY <1>8 DEF Op, Same, SameFlow
<1>14. ops' = [after EXCEPT ![s] = new]
  BY <1>2, <1>6, <1>9
<1> HIDE DEF new
<1>15. /\ DOMAIN ops' = DOMAIN ops
       /\ \A t \in DOMAIN ops : ops'[t] = IF t = s THEN new ELSE after[t]
  BY <1>2, <1>9, <1>14
<1>16. \A t \in DOMAIN ops : Same(ops'[t], ops[t]) /\ ops'[t].stage = ops[t].stage
  BY <1>2, <1>9, <1>13, <1>15 DEF Same, SameFront
<1>17. \A t \in DOMAIN ops :
          /\ ops'[t].executed <=> (t = s \/ ops[t].executed)
          /\ ops'[t].done <=> IF t = s THEN ops[s].inst.mem = "none" ELSE ops[t].done
  BY <1>2, <1>9, <1>11, <1>13, <1>15 DEF SameFront
<1>18. \A t \in DOMAIN ops :
          /\ ops'[t].recoverySched <=>
               (ops[t].recoverySched \/ (t = s /\ ops[s].wrong /\ ~ops[s].offPath))
          /\ ops'[t].redirectSched <=> (ops[t].redirectSched \/ (t = s /\ Targets(s)))
  BY <1>2, <1>9, <1>12, <1>13, <1>15 DEF SameFront
<1>19. ASSUME ops[s].inst.mem = "load", NEW t \in DOMAIN ops
       PROVE  SameFlow(ops'[t], ops[t]) /\ (t # s => ops'[t].state = ops[t].state)
  BY <1>2, <1>7, <1>9, <1>13, <1>15, <1>19 DEF SameFlow
<1>20. ASSUME ops[s].inst.mem # "load", NEW t \in DOMAIN ops
       PROVE  /\ Heard(ops, s, Gives(ops[s]), t, ops'[t])
              /\ t # s => ops'[t].state = HeardState(ops, s, Gives(ops[s]), t)
  <2>1. /\ Heard(ops, s, Gives(ops[s]), t, after[t])
        /\ after[t].state = HeardState(ops, s, Gives(ops[s]), t)
    BY <1>5, <1>7, <1>9, <1>20
  <2>2. SameFlow(ops'[t], after[t])
    BY <1>2, <1>13, <1>15 DEF SameFlow
  <2>3. QED
    BY <1>15, <2>1, <2>2 DEF Heard, SameFlow
<1>21. ops'[s].state = "SCHEDULED"
  BY <1>2, <1>13, <1>15
<1>22. QED
  BY <1>2, <1>3, <1>15, <1>16, <1>17, <1>18, <1>19, <1>20, <1>21

\* Only the state of op s changes.
OnlyState(s, state) ==
    /\ DOMAIN ops' = DOMAIN ops
    /\ \A t \in DOMAIN ops :
         /\ Same(ops'[t], ops[t]) /\ SameFlow(ops'[t], ops[t]) /\ SameFront(ops'[t], ops[t])
         /\ ops'[t].done = ops[t].done
         /\ ops'[t].state = IF t = s THEN state ELSE ops[t].state

\* The data cache misses, or the op has to try again.
LEMMA AccessExact ==
    ASSUME IInv, NEW f \in FUs, NEW outcome \in Outcomes, DcacheAccess(f, outcome),
           NEW s, s = AtDcache(f)
    PROVE  /\ s \in DOMAIN ops /\ ops[s].state \in Busy
           /\ \/ outcome = "late" /\ UNCHANGED <<ops, misses>>
              \/ outcome = "hit" /\ Supply(s) /\ UNCHANGED misses
              \/ outcome = "miss" /\ OnlyState(s, "MISS") /\ misses' = misses \cup {RefTo(ops, s)}
              \/ outcome = "port" /\ OnlyState(s, "WAIT_DCACHE") /\ UNCHANGED misses
              \/ outcome = "buffer" /\ OnlyState(s, "WAIT_MEM") /\ UNCHANGED misses
<1> DEFINE state == CASE outcome = "miss"   -> "MISS"
                      [] outcome = "port"   -> "WAIT_DCACHE"
                      [] outcome = "buffer" -> "WAIT_MEM"
           new == [ops[s] EXCEPT !.state = state]
<1>1. /\ ops \in [DOMAIN ops -> Op]
      /\ exec \in [FUs -> DOMAIN ops \cup {0}] /\ dc \in [FUs -> DOMAIN ops \cup {0}]
  BY DEF IInv, TypeOK, Pointer
<1>2. s # 0
  BY DEF DcacheAccess
<1>3. s \in DOMAIN ops /\ ops[s].state \in Busy
  BY <1>1, <1>2 DEF AtDcache, IInv, InUnits
<1>4. CASE outcome = "late"
  BY <1>3, <1>4 DEF DcacheAccess
<1>5. CASE outcome = "hit"
  BY <1>3, <1>5 DEF DcacheAccess
<1>6. CASE outcome \in {"miss", "port", "buffer"}
  <2>1. /\ ops' = [ops EXCEPT ![s].state = state]
        /\ misses' = IF outcome = "miss" THEN misses \cup {RefTo(ops, s)} ELSE misses
    BY <1>6 DEF DcacheAccess
  <2>2. /\ outcome = "miss" => state = "MISS"
        /\ outcome = "port" => state = "WAIT_DCACHE"
        /\ outcome = "buffer" => state = "WAIT_MEM"
    OBVIOUS
  <2> HIDE DEF state
  <2>3. /\ Same(new, ops[s]) /\ SameFlow(new, ops[s]) /\ SameFront(new, ops[s])
        /\ new.state = state /\ new.done = ops[s].done
    <3> SUFFICES ASSUME NEW o \in Op
                 PROVE  LET n == [o EXCEPT !.state = state]
                        IN /\ Same(n, o) /\ SameFlow(n, o) /\ SameFront(n, o)
                           /\ n.state = state /\ n.done = o.done
      BY <1>1, <1>3
    <3> QED  BY DEF Op, Same, SameFlow, SameFront
  <2>4. ops' = [ops EXCEPT ![s] = new]
    BY <1>1, <1>3, <2>1
  <2> HIDE DEF new
  <2>5. DOMAIN ops' = DOMAIN ops /\ \A t \in DOMAIN ops : ops'[t] = IF t = s THEN new ELSE ops[t]
    BY <1>1, <1>3, <2>4
  <2>6. OnlyState(s, state)
    BY <2>3, <2>5 DEF OnlyState, Same, SameFlow, SameFront
  <2>7. QED
    BY <1>3, <1>6, <2>1, <2>2, <2>6
<1>7. QED
  BY <1>4, <1>5, <1>6 DEF Outcomes

\* An op takes its place in a station.
LEMMA FillExact ==
    ASSUME IInv, NEW r \in Stations, FillRS(r), NEW s, s = nextIntoRS
    PROVE  /\ s \in DOMAIN ops /\ ops[s].state = "ISSUED"
           /\ OnlyState(s, IF ops[s].notRdy = {} THEN "READY" ELSE "IN_RS")
<1> DEFINE state == IF ops[s].notRdy = {} THEN "READY" ELSE "IN_RS"
           new == [ops[s] EXCEPT !.rs = r, !.state = state]
<1>1. ops \in [DOMAIN ops -> Op]
  BY DEF IInv, TypeOK
<1>2. s \in DOMAIN ops /\ ops[s].state = "ISSUED"
  BY DEF FillRS, IInv, NextInOrder, Issued, Node, In
<1>3. ops' = [ops EXCEPT ![s].rs = r, ![s].state = state]
  BY DEF FillRS
<1> HIDE DEF state
<1>4. /\ Same(new, ops[s]) /\ SameFlow(new, ops[s]) /\ SameFront(new, ops[s])
      /\ new.state = state /\ new.done = ops[s].done
  <2> SUFFICES ASSUME NEW o \in Op
               PROVE  LET n == [o EXCEPT !.rs = r, !.state = state]
                      IN /\ Same(n, o) /\ SameFlow(n, o) /\ SameFront(n, o)
                         /\ n.state = state /\ n.done = o.done
    BY <1>1, <1>2
  <2> QED  BY DEF Op, Same, SameFlow, SameFront
<1>5. ops' = [ops EXCEPT ![s] = new]
  BY <1>1, <1>2, <1>3
<1> HIDE DEF new
<1>6. DOMAIN ops' = DOMAIN ops /\ \A t \in DOMAIN ops : ops'[t] = IF t = s THEN new ELSE ops[t]
  BY <1>1, <1>2, <1>5
<1>7. OnlyState(s, state)
  BY <1>4, <1>6 DEF OnlyState, Same, SameFlow, SameFront
<1>8. QED
  BY <1>2, <1>7 DEF state

\* An op enters the reorder buffer.
LEMMA IssueExact ==
    ASSUME IInv, Issue
    PROVE  \E s \in DOMAIN ops :
             /\ ops[s].stage = "map"
             /\ DOMAIN ops' = DOMAIN ops
             /\ \A t \in DOMAIN ops :
                  /\ Same(ops'[t], ops[t]) /\ SameFlow(ops'[t], ops[t])
                  /\ ops'[t].executed = ops[t].executed /\ ops'[t].done = ops[t].done
                  /\ ops'[t].recoverySched = ops[t].recoverySched
                  /\ ops'[t].redirectSched = ops[t].redirectSched
                  /\ ops'[t].stage = IF t = s THEN "node" ELSE ops[t].stage
                  /\ ops'[t].state = IF t = s THEN "ISSUED" ELSE ops[t].state
<1> DEFINE s == Oldest(ops, In("map"))
           new == [ops[s] EXCEPT !.stage = "node", !.state = "ISSUED"]
<1>1. ops \in [DOMAIN ops -> Op]
  BY DEF IInv, TypeOK
<1>2. s \in DOMAIN ops /\ ops[s].stage = "map"
  <2>1. \A t \in In("map") : ops[t].num \in Nat
    BY <1>1 DEF In, Op
  <2>2. In("map") # {}
    BY DEF Issue, CanIssue
  <2>3. s \in In("map")
    BY <2>1, <2>2, OldestFound
  <2> HIDE DEF s
  <2>4. QED
    BY <2>3 DEF In
<1>3. ops' = [ops EXCEPT ![s].stage = "node", ![s].state = "ISSUED"]
  BY DEF Issue
<1> HIDE DEF s
<1>4. /\ Same(new, ops[s]) /\ SameFlow(new, ops[s])
      /\ new.state = "ISSUED" /\ new.stage = "node"
      /\ new.executed = ops[s].executed /\ new.done = ops[s].done
      /\ new.recoverySched = ops[s].recoverySched /\ new.redirectSched = ops[s].redirectSched
  <2> SUFFICES ASSUME NEW o \in Op
               PROVE  LET n == [o EXCEPT !.stage = "node", !.state = "ISSUED"]
                      IN /\ Same(n, o) /\ SameFlow(n, o)
                         /\ n.state = "ISSUED" /\ n.stage = "node"
                         /\ n.executed = o.executed /\ n.done = o.done
                         /\ n.recoverySched = o.recoverySched
                         /\ n.redirectSched = o.redirectSched
    BY <1>1, <1>2
  <2> QED  BY DEF Op, Same, SameFlow
<1>5. ops' = [ops EXCEPT ![s] = new]
  BY <1>1, <1>2, <1>3
<1> HIDE DEF new
<1>6. DOMAIN ops' = DOMAIN ops /\ \A t \in DOMAIN ops : ops'[t] = IF t = s THEN new ELSE ops[t]
  BY <1>1, <1>2, <1>5
<1>7. QED
  BY <1>2, <1>4, <1>6 DEF Same, SameFlow

\* Fetch goes on behind the redirected op.
LEMMA RedirectExact ==
    ASSUME IInv, Redirect, redirect.slot \in DOMAIN ops
    PROVE  /\ DOMAIN ops' = DOMAIN ops
           /\ \A t \in DOMAIN ops :
                /\ Same(ops'[t], ops[t]) /\ SameFlow(ops'[t], ops[t])
                /\ ops'[t].stage = ops[t].stage /\ ops'[t].executed = ops[t].executed
                /\ ops'[t].state = ops[t].state /\ ops'[t].done = ops[t].done
                /\ ops'[t].recoverySched = ops[t].recoverySched
                /\ ops'[t].redirectSched <=> (ops[t].redirectSched /\ t # redirect.slot)
<1> DEFINE s == redirect.slot
           new == [ops[s] EXCEPT !.redirectSched = FALSE]
<1>1. ops \in [DOMAIN ops -> Op] /\ s \in DOMAIN ops
  BY DEF IInv, TypeOK
<1>2. ops' = [ops EXCEPT ![s] = new]
  BY <1>1 DEF Redirect
<1> HIDE DEF s
<1>3. /\ Same(new, ops[s]) /\ SameFlow(new, ops[s])
      /\ new.stage = ops[s].stage /\ new.executed = ops[s].executed
      /\ new.state = ops[s].state /\ new.done = ops[s].done
      /\ new.recoverySched = ops[s].recoverySched /\ new.redirectSched = FALSE
  <2> SUFFICES ASSUME NEW o \in Op
               PROVE  LET n == [o EXCEPT !.redirectSched = FALSE]
                      IN /\ Same(n, o) /\ SameFlow(n, o)
                         /\ n.stage = o.stage /\ n.executed = o.executed
                         /\ n.state = o.state /\ n.done = o.done
                         /\ n.recoverySched = o.recoverySched /\ n.redirectSched = FALSE
    BY <1>1
  <2> QED  BY DEF Op, Same, SameFlow
<1> HIDE DEF new
<1>4. DOMAIN ops' = DOMAIN ops /\ \A t \in DOMAIN ops : ops'[t] = IF t = s THEN new ELSE ops[t]
  BY <1>1, <1>2
<1>5. QED
  BY <1>3, <1>4 DEF Same, SameFlow, s

\* A packet of ops reaches the map stage and joins the lists of its sources.
LEMMA MapExact ==
    ASSUME IInv, MapStage
    PROVE  /\ DOMAIN ops' = DOMAIN ops
           /\ \A t \in DOMAIN ops :
                /\ Same(ops'[t], ops[t])
                /\ ops'[t].executed = ops[t].executed
                /\ ops'[t].state = ops[t].state /\ ops'[t].done = ops[t].done
                /\ ops'[t].recoverySched = ops[t].recoverySched
                /\ ops'[t].redirectSched = ops[t].redirectSched
                /\ ops'[t].signaled = ops[t].signaled
                /\ ops[t].wakeUp \subseteq ops'[t].wakeUp
                /\ \/ ops'[t].stage = ops[t].stage /\ ops'[t].notRdy = ops[t].notRdy
                   \/ /\ ops[t].stage = "dec" /\ ops'[t].stage = "map"
                      /\ ops'[t].notRdy = {d \in ops[t].notRdy :
                                             /\ Valid(ops, d.ref)
                                             /\ d.type \notin ops[d.ref.slot].signaled}
                      /\ \A u \in DOMAIN ops : \A type \in DepTypes :
                           Bit(ops, u, type) \in ops[t].notRdy
                             => Bit(ops, t, type) \in ops'[u].wakeUp
<1>1. ops \in [DOMAIN ops -> Op] /\ DOMAIN ops \subseteq Nat
  BY DEF IInv, TypeOK
<1>2. CASE In("map") # {}
  <2>1. ops' = ops
    BY <1>2 DEF MapStage
  <2>2. QED
    BY <1>1, <2>1 DEF Same
<1>3. CASE In("map") = {}
  <2> DEFINE stage(t) == IF ops[t].stage = "dec" THEN "map" ELSE ops[t].stage
             op(t) == [ops[t] EXCEPT !.stage = stage(t)]
             live == [t \in DOMAIN ops |-> op(t)]
             S == In("dec")
             joins == [ref : {RefTo(live, s) : s \in S}, type : DepTypes]
             notRdy(t) == IF t \notin S THEN live[t].notRdy
                          ELSE {d \in live[t].notRdy :
                                   /\ Valid(live, d.ref)
                                   /\ d.type \notin live[d.ref.slot].signaled}
             wakeUp(t) == live[t].wakeUp \cup
                          {e \in joins : [ref |-> RefTo(live, t), type |-> e.type]
                                             \in live[e.ref.slot].notRdy}
             new(t) == [live[t] EXCEPT !.notRdy = notRdy(t), !.wakeUp = wakeUp(t)]
  <2>1. ops' = AddToWakeUpLists(live, S)
    BY <1>3 DEF MapStage
  <2>2. AddToWakeUpLists(live, S) = [t \in DOMAIN live |-> new(t)]
    BY Zenon DEF AddToWakeUpLists
  <2>3. ASSUME NEW t \in DOMAIN ops
        PROVE  /\ op(t) \in Op /\ Same(op(t), ops[t]) /\ SameFlow(op(t), ops[t])
               /\ op(t).stage = stage(t) /\ op(t).executed = ops[t].executed
               /\ op(t).state = ops[t].state /\ op(t).done = ops[t].done
               /\ op(t).recoverySched = ops[t].recoverySched
               /\ op(t).redirectSched = ops[t].redirectSched
    <3>1. stage(t) \in {"ic", "dec", "map", "node"}
      BY <1>1 DEF Op
    <3> HIDE DEF stage
    <3>2. QED
      BY <1>1, <3>1 DEF Op, Same, SameFlow
  <2> HIDE DEF op
  <2>4. DOMAIN live = DOMAIN ops /\ \A t \in DOMAIN ops : live[t] = op(t)
    OBVIOUS
  <2> HIDE DEF live
  <2>5. S \subseteq DOMAIN ops /\ \A t \in DOMAIN ops : t \in S <=> ops[t].stage = "dec"
    BY DEF In
  <2> HIDE DEF S
  <2>6. \A t \in DOMAIN ops : RefTo(live, t) = RefTo(ops, t)
    BY <2>3, <2>4 DEF RefTo, Same
  <2>7. \A ref : Valid(live, ref) <=> Valid(ops, ref)
    BY <2>3, <2>4 DEF Valid, Same
  <2>8. ASSUME NEW t \in DOMAIN ops
        PROVE  notRdy(t) = IF t \notin S THEN ops[t].notRdy
                           ELSE {d \in ops[t].notRdy :
                                    /\ Valid(ops, d.ref)
                                    /\ d.type \notin ops[d.ref.slot].signaled}
    <3>1. live[t].notRdy = ops[t].notRdy
      BY <2>3, <2>4 DEF SameFlow
    <3>2. \A d \in ops[t].notRdy :
             (Valid(live, d.ref) /\ d.type \notin live[d.ref.slot].signaled)
               <=> (Valid(ops, d.ref) /\ d.type \notin ops[d.ref.slot].signaled)
      <4>1. \A u \in DOMAIN ops : live[u].signaled = ops[u].signaled
        BY <2>3, <2>4 DEF SameFlow
      <4>2. \A d \in ops[t].notRdy : Valid(ops, d.ref) => d.ref.slot \in DOMAIN ops
        BY DEF Valid
      <4>3. QED
        BY <2>7, <4>1, <4>2
    <3> DEFINE kept == {d \in live[t].notRdy : /\ Valid(live, d.ref)
                                              /\ d.type \notin live[d.ref.slot].signaled}
               same == {d \in ops[t].notRdy : /\ Valid(ops, d.ref)
                                             /\ d.type \notin ops[d.ref.slot].signaled}
    <3>3. kept = same
      BY <3>1, <3>2
    <3> HIDE DEF kept, same
    <3>4. notRdy(t) = IF t \notin S THEN live[t].notRdy ELSE kept
      BY DEF kept
    <3>5. QED
      BY <3>1, <3>3, <3>4 DEF same
  <2>9. ASSUME NEW u \in DOMAIN ops
        PROVE  /\ ops[u].wakeUp \subseteq wakeUp(u)
               /\ \A t \in S : \A type \in DepTypes :
                     Bit(ops, u, type) \in ops[t].notRdy => Bit(ops, t, type) \in wakeUp(u)
    <3>1. ops[u].wakeUp \subseteq wakeUp(u)
      BY <2>3, <2>4 DEF SameFlow
    <3>2. ASSUME NEW t \in S, NEW type \in DepTypes, Bit(ops, u, type) \in ops[t].notRdy
          PROVE  Bit(ops, t, type) \in wakeUp(u)
      <4>1. Bit(ops, t, type) \in joins
        BY <2>5, <2>6 DEF Bit
      <4>2. /\ Bit(ops, t, type).type = type /\ Bit(ops, t, type).ref.slot = t
        BY DEF Bit, RefTo
      <4>3. live[t].notRdy = ops[t].notRdy
        BY <2>3, <2>4, <2>5 DEF SameFlow
      <4>4. [ref |-> RefTo(live, u), type |-> type] \in live[t].notRdy
        BY <2>6, <3>2, <4>3 DEF Bit
      <4> HIDE DEF joins
      <4>5. QED
        BY <4>1, <4>2, <4>4
    <3>3. QED
      BY <3>1, <3>2
  <2> HIDE DEF notRdy, wakeUp
  <2>10. ASSUME NEW t \in DOMAIN ops
         PROVE  /\ Same(new(t), live[t]) /\ SameFront(new(t), live[t])
                /\ new(t).notRdy = notRdy(t) /\ new(t).wakeUp = wakeUp(t)
                /\ new(t).signaled = live[t].signaled
                /\ new(t).state = live[t].state /\ new(t).done = live[t].done
    <3>1. live[t] \in Op
      BY <2>3, <2>4
    <3>2. QED
      BY <3>1 DEF Op, Same, SameFront
  <2> HIDE DEF new
  <2>11. DOMAIN ops' = DOMAIN ops /\ \A t \in DOMAIN ops : ops'[t] = new(t)
    BY <2>1, <2>2, <2>4
  <2>12. ASSUME NEW t \in DOMAIN ops
         PROVE  /\ Same(ops'[t], ops[t])
                /\ ops'[t].executed = ops[t].executed
                /\ ops'[t].state = ops[t].state /\ ops'[t].done = ops[t].done
                /\ ops'[t].recoverySched = ops[t].recoverySched
                /\ ops'[t].redirectSched = ops[t].redirectSched
                /\ ops'[t].signaled = ops[t].signaled
                /\ ops'[t].stage = stage(t)
    BY <2>3, <2>4, <2>10, <2>11 DEF Same, SameFlow, SameFront
  <2>13. \A u \in DOMAIN ops : ops'[u].wakeUp = wakeUp(u)
    BY <2>10, <2>11
  <2>14. \A t \in DOMAIN ops : ops'[t].notRdy = notRdy(t)
    BY <2>10, <2>11
  <2>15. ASSUME NEW t \in DOMAIN ops
         PROVE  \/ ops'[t].stage = ops[t].stage /\ ops'[t].notRdy = ops[t].notRdy
                \/ /\ ops[t].stage = "dec" /\ ops'[t].stage = "map"
                   /\ ops'[t].notRdy = {d \in ops[t].notRdy :
                                          /\ Valid(ops, d.ref)
                                          /\ d.type \notin ops[d.ref.slot].signaled}
                   /\ \A u \in DOMAIN ops : \A type \in DepTypes :
                        Bit(ops, u, type) \in ops[t].notRdy
                          => Bit(ops, t, type) \in ops'[u].wakeUp
    <3>1. CASE t \in S
      BY <2>5, <2>8, <2>9, <2>12, <2>13, <2>14, <3>1
    <3>2. CASE t \notin S
      BY <2>5, <2>8, <2>12, <2>14, <3>2
    <3>3. QED
      BY <3>1, <3>2
  <2>16. QED
    BY <2>9, <2>11, <2>12, <2>13, <2>15
<1>4. QED
  BY <1>2, <1>3

Decoded == IF In("dec") = {} THEN In("ic") ELSE {}
Resume == {s \in Decoded : ResumesFetch(ops[s])}
Taken == Resume # {} /\ RedirectTaken(Oldest(ops, Resume))

\* A packet is decoded, and fetch may go on behind it.
LEMMA DecodeExact ==
    ASSUME IInv, DecodeStage
    PROVE  /\ DOMAIN ops' = DOMAIN ops
           /\ Decoded \subseteq In("ic")
           /\ \A t \in DOMAIN ops :
                /\ Same(ops'[t], ops[t]) /\ SameFlow(ops'[t], ops[t])
                /\ ops'[t].executed = ops[t].executed
                /\ ops'[t].state = ops[t].state /\ ops'[t].done = ops[t].done
                /\ ops'[t].recoverySched = ops[t].recoverySched
                /\ ops'[t].stage = IF t \in Decoded THEN "dec" ELSE ops[t].stage
                /\ ops'[t].redirectSched <=>
                     (ops[t].redirectSched \/ (Taken /\ t = Oldest(ops, Resume)))
           /\ redirect' = IF ~Taken THEN redirect
                          ELSE [slot |-> Oldest(ops, Resume),
                                num |-> ops[Oldest(ops, Resume)].num, due |-> TRUE]
<1> DEFINE stage(t) == IF t \in Decoded THEN "dec" ELSE ops[t].stage
           rdr(t) == ops[t].redirectSched \/ (Taken /\ t = Oldest(ops, Resume))
           new(t) == [ops[t] EXCEPT !.stage = stage(t), !.redirectSched = rdr(t)]
<1>1. ops \in [DOMAIN ops -> Op]
  BY DEF IInv, TypeOK
<1>2. /\ ops' = [t \in DOMAIN ops |-> new(t)]
      /\ redirect' = IF ~Taken THEN redirect
                     ELSE [slot |-> Oldest(ops, Resume),
                           num |-> ops[Oldest(ops, Resume)].num, due |-> TRUE]
  BY Zenon DEF DecodeStage, Decoded, Resume, Taken
<1>3. ASSUME NEW t \in DOMAIN ops
      PROVE  /\ Same(new(t), ops[t]) /\ SameFlow(new(t), ops[t])
             /\ new(t).executed = ops[t].executed
             /\ new(t).state = ops[t].state /\ new(t).done = ops[t].done
             /\ new(t).recoverySched = ops[t].recoverySched
             /\ new(t).stage = stage(t) /\ new(t).redirectSched = rdr(t)
  <2>1. rdr(t) \in BOOLEAN
    BY Zenon
  <2> HIDE DEF rdr, stage
  <2>2. QED
    BY <1>1, <2>1 DEF Op, Same, SameFlow
<1>4. \A t \in DOMAIN ops :
         rdr(t) <=> (ops[t].redirectSched \/ (Taken /\ t = Oldest(ops, Resume)))
  BY Zenon
<1> HIDE DEF new, rdr
<1>5. DOMAIN ops' = DOMAIN ops /\ \A t \in DOMAIN ops : ops'[t] = new(t)
  BY <1>2
<1>6. Decoded \subseteq In("ic")
  BY DEF Decoded
<1>7. QED
  BY <1>2, <1>3, <1>4, <1>5, <1>6
-----------------------------------------------------------------------------
(* Who waits for whom.                                                      *)

LEMMA Nums ==
    ASSUME IInv
    PROVE  /\ \A s \in DOMAIN ops : ops[s].num \in Nat \ {0} /\ ops[s].num < fetch.opCount
           /\ \A s, t \in DOMAIN ops : ops[s].num = ops[t].num => s = t
           /\ fetch.opCount \in Nat
BY DEF IInv, TypeOK, Op, AgeOrder

LEMMA SameRefs ==
    ASSUME DOMAIN ops' = DOMAIN ops, \A t \in DOMAIN ops : Same(ops'[t], ops[t])
    PROVE  /\ \A t \in DOMAIN ops : /\ RefTo(ops', t) = RefTo(ops, t)
                                    /\ Gives(ops'[t]) = Gives(ops[t])
           /\ \A ref : Valid(ops', ref) <=> Valid(ops, ref)
           /\ \A r : Writers(r)' = Writers(r)
           /\ \A a : Stores(a)' = Stores(a)
BY DEF Same, RefTo, Gives, Valid, Writers, Stores

LEMMA SameLast ==
    ASSUME DOMAIN ops' = DOMAIN ops, \A t \in DOMAIN ops : Same(ops'[t], ops[t]),
           NEW S \in SUBSET DOMAIN ops, NEW s \in DOMAIN ops, NEW t
    PROVE  LastBefore(t, S, s)' <=> LastBefore(t, S, s)
BY DEF Same, LastBefore, Before

\* A dependence on an op in flight is its bit.
LEMMA ValidBit ==
    ASSUME NEW d \in Dep, Valid(ops, d.ref)
    PROVE  /\ d.ref.slot \in DOMAIN ops
           /\ d = Bit(ops, d.ref.slot, d.type)
           /\ d.type \in DepTypes
BY DEF Dep, Ref, Valid, Bit, RefTo

LEMMA BitFields ==
    ASSUME NEW s, NEW type
    PROVE  /\ Bit(ops, s, type).ref = RefTo(ops, s) /\ Bit(ops, s, type).type = type
           /\ RefTo(ops, s).slot = s
           /\ s \in DOMAIN ops => Valid(ops, RefTo(ops, s))
BY DEF Bit, RefTo, Valid

\* The ops stay the same: a bit goes when its source has signaled, and what waits in
\* the back end is in a list.
LEMMA FlowStep ==
    ASSUME IInv, SourcesOlder, SourcesAwaited,
           DOMAIN ops' = DOMAIN ops,
           \A t \in DOMAIN ops : /\ Same(ops'[t], ops[t])
                                 /\ ops'[t].notRdy \subseteq ops[t].notRdy
                                 /\ ops[t].signaled \subseteq ops'[t].signaled,
           \A t, u \in DOMAIN ops : \A type \in DepTypes :
              /\ Bit(ops, u, type) \in ops[t].notRdy
              /\ Bit(ops, u, type) \notin ops'[t].notRdy
              => type \in ops'[u].signaled,
           \A t \in DOMAIN ops : ops'[t].stage \in {"map", "node"} =>
              \A d \in ops'[t].notRdy :
                 /\ Valid(ops, d.ref)
                 /\ d.type \notin ops'[d.ref.slot].signaled
                 /\ Bit(ops, t, d.type) \in ops'[d.ref.slot].wakeUp
    PROVE  WakeLists' /\ SourcesOlder' /\ SourcesAwaited'
<1>1. /\ \A t \in DOMAIN ops : /\ RefTo(ops', t) = RefTo(ops, t)
                               /\ Gives(ops'[t]) = Gives(ops[t])
      /\ \A ref : Valid(ops', ref) <=> Valid(ops, ref)
      /\ \A r : Writers(r)' = Writers(r)
      /\ \A a : Stores(a)' = Stores(a)
  BY SameRefs
<1>2. WakeLists'
  BY <1>1 DEF WakeLists, Bit
<1>3. SourcesOlder'
  BY <1>1 DEF SourcesOlder, Same, Valid
<1>4. ASSUME NEW s \in DOMAIN ops, NEW S \in SUBSET DOMAIN ops, NEW type \in DepTypes,
             Awaited(S, s, type)
      PROVE  Awaited(S, s, type)'
  <2> SUFFICES ASSUME NEW t \in S, LastBefore(t, S, s)'
               PROVE  \/ [ref |-> RefTo(ops', t), type |-> type] \in ops'[s].notRdy
                      \/ type \in ops'[t].signaled
    BY DEF Awaited
  <2>1. LastBefore(t, S, s)
    BY SameLast
  <2>2. Bit(ops, t, type) \in ops[s].notRdy \/ type \in ops[t].signaled
    BY <1>4, <2>1 DEF Awaited, Bit
  <2>3. QED
    BY <1>1, <2>2 DEF Bit
<1>5. SourcesAwaited'
  <2> SUFFICES ASSUME NEW s \in DOMAIN ops
               PROVE  /\ \A r \in ops'[s].inst.srcs : Awaited(Writers(r), s, "reg")'
                      /\ ops'[s].inst.mem = "load" => \A a : a = ops'[s].inst.addr
                           => Awaited(Stores(a), s, "data")'
    BY DEF SourcesAwaited
  <2>1. ops'[s].inst = ops[s].inst
    BY DEF Same
  <2>2. ASSUME NEW r \in ops[s].inst.srcs PROVE Awaited(Writers(r), s, "reg")'
    <3>1. Awaited(Writers(r), s, "reg") /\ Writers(r) \in SUBSET DOMAIN ops /\ "reg" \in DepTypes
      BY DEF SourcesAwaited, Writers, DepTypes
    <3>2. QED
      BY <1>1, <1>4, <3>1 DEF Awaited, LastBefore, Before
  <2>3. ASSUME ops[s].inst.mem = "load", NEW a, a = ops[s].inst.addr
        PROVE  Awaited(Stores(a), s, "data")'
    <3>1. Awaited(Stores(a), s, "data") /\ Stores(a) \in SUBSET DOMAIN ops /\ "data" \in DepTypes
      BY <2>3 DEF SourcesAwaited, Stores, DepTypes
    <3>2. QED
      BY <1>1, <1>4, <3>1 DEF Awaited, LastBefore, Before
  <2>4. QED
    BY <2>1, <2>2, <2>3
<1>6. QED
  BY <1>2, <1>3, <1>5

LEMMA Dependence ==
    ASSUME IInv, NEW t \in DOMAIN ops, NEW d \in ops[t].notRdy
    PROVE  d \in Dep
BY DEF IInv, TypeOK, Op

\* Nothing is waited for anew and nobody is woken.
LEMMA StillStep ==
    ASSUME IInv, WakeLists, SourcesOlder, SourcesAwaited,
           DOMAIN ops' = DOMAIN ops,
           \A t \in DOMAIN ops :
              /\ Same(ops'[t], ops[t]) /\ SameFlow(ops'[t], ops[t])
              /\ ops'[t].stage \in {"map", "node"} => ops[t].stage \in {"map", "node"}
    PROVE  WakeLists' /\ SourcesOlder' /\ SourcesAwaited'
<1>1. \A t \in DOMAIN ops : ops'[t].stage \in {"map", "node"} =>
         \A d \in ops'[t].notRdy :
            /\ Valid(ops, d.ref)
            /\ d.type \notin ops'[d.ref.slot].signaled
            /\ Bit(ops, t, d.type) \in ops'[d.ref.slot].wakeUp
  BY DEF WakeLists, SameFlow, Valid, Bit
<1>2. \A t \in DOMAIN ops : /\ Same(ops'[t], ops[t])
                            /\ ops'[t].notRdy = ops[t].notRdy
                            /\ ops'[t].signaled = ops[t].signaled
  BY DEF SameFlow
<1>3. QED
  BY <1>1, <1>2, FlowStep

\* wake_up_ops: whoever waited for s does no more.
LEMMA WakeStep ==
    ASSUME IInv, WakeLists, SourcesOlder, SourcesAwaited,
           NEW s \in DOMAIN ops, NEW type \in DepTypes, DOMAIN ops' = DOMAIN ops,
           \A t \in DOMAIN ops :
              /\ Same(ops'[t], ops[t]) /\ Heard(ops, s, type, t, ops'[t])
              /\ ops'[t].stage = ops[t].stage
    PROVE  WakeLists' /\ SourcesOlder' /\ SourcesAwaited'
<1>1. \A t \in DOMAIN ops :
         /\ Same(ops'[t], ops[t]) /\ ops'[t].wakeUp = ops[t].wakeUp
         /\ ops'[t].notRdy \subseteq ops[t].notRdy
         /\ ops[t].signaled \subseteq ops'[t].signaled
  BY DEF Heard
<1>2. ASSUME NEW t \in DOMAIN ops, NEW u \in DOMAIN ops, NEW k \in DepTypes,
             Bit(ops, u, k) \in ops[t].notRdy, Bit(ops, u, k) \notin ops'[t].notRdy
      PROVE  k \in ops'[u].signaled
  <2>1. Bit(ops, u, k) = Bit(ops, s, type)
    BY <1>2 DEF Heard
  <2>2. u = s /\ k = type
    BY <2>1, BitFields
  <2>3. QED
    BY <2>2 DEF Heard
<1>3. ASSUME NEW t \in DOMAIN ops, ops'[t].stage \in {"map", "node"},
             NEW d \in ops'[t].notRdy
      PROVE  /\ Valid(ops, d.ref)
             /\ d.type \notin ops'[d.ref.slot].signaled
             /\ Bit(ops, t, d.type) \in ops'[d.ref.slot].wakeUp
  <2>1. d \in ops[t].notRdy
    BY <1>1
  <2>2. /\ Valid(ops, d.ref) /\ d.type \notin ops[d.ref.slot].signaled
        /\ Bit(ops, t, d.type) \in ops[d.ref.slot].wakeUp
    BY <1>3, <2>1 DEF WakeLists, Bit
  <2>3. d.ref.slot \in DOMAIN ops /\ d = Bit(ops, d.ref.slot, d.type)
    BY <2>1, <2>2, Dependence, ValidBit
  <2>4. ASSUME d.ref.slot = s, d.type = type PROVE FALSE
    <3>1. Hears(ops, s, type, t)
      BY <2>1, <2>2, <2>3, <2>4 DEF Hears
    <3>2. d \notin ops'[t].notRdy
      <4>1. ops'[t].notRdy = ops[t].notRdy \ {Bit(ops, s, type)}
        BY <1>3, <3>1 DEF Heard
      <4>2. d = Bit(ops, s, type)
        BY <2>3, <2>4
      <4>3. QED
        BY <4>1, <4>2
    <3>3. QED
      BY <3>2
  <2>5. ops'[d.ref.slot].signaled \subseteq ops[d.ref.slot].signaled
                                              \cup (IF d.ref.slot = s THEN {type} ELSE {})
    BY <2>3 DEF Heard
  <2>6. d.type \notin ops'[d.ref.slot].signaled
    BY <2>2, <2>4, <2>5
  <2>7. QED
    BY <1>1, <2>2, <2>3, <2>6
<1>4. QED
  BY <1>1, <1>2, <1>3, FlowStep

\* add_to_wake_up_lists: an op that reaches the map stage joins the lists of the sources
\* that have not signaled.
LEMMA MapFlow ==
    ASSUME IInv, WakeLists, SourcesOlder, SourcesAwaited, MapStage
    PROVE  WakeLists' /\ SourcesOlder' /\ SourcesAwaited'
<1>1. /\ DOMAIN ops' = DOMAIN ops
      /\ \A t \in DOMAIN ops :
           /\ Same(ops'[t], ops[t])
           /\ ops'[t].signaled = ops[t].signaled
           /\ ops[t].wakeUp \subseteq ops'[t].wakeUp
           /\ \/ ops'[t].stage = ops[t].stage /\ ops'[t].notRdy = ops[t].notRdy
              \/ /\ ops[t].stage = "dec" /\ ops'[t].stage = "map"
                 /\ ops'[t].notRdy = {d \in ops[t].notRdy :
                                        /\ Valid(ops, d.ref)
                                        /\ d.type \notin ops[d.ref.slot].signaled}
                 /\ \A u \in DOMAIN ops : \A type \in DepTypes :
                      Bit(ops, u, type) \in ops[t].notRdy
                        => Bit(ops, t, type) \in ops'[u].wakeUp
  BY MapExact
<1>2. \A t \in DOMAIN ops :
         /\ Same(ops'[t], ops[t])
         /\ ops'[t].notRdy \subseteq ops[t].notRdy
         /\ ops[t].signaled \subseteq ops'[t].signaled
  BY <1>1
<1>3. ASSUME NEW t \in DOMAIN ops, NEW u \in DOMAIN ops, NEW k \in DepTypes,
             Bit(ops, u, k) \in ops[t].notRdy, Bit(ops, u, k) \notin ops'[t].notRdy
      PROVE  k \in ops'[u].signaled
  <2>1. ~(/\ Valid(ops, Bit(ops, u, k).ref)
          /\ Bit(ops, u, k).type \notin ops[Bit(ops, u, k).ref.slot].signaled)
    BY <1>1, <1>3
  <2>2. QED
    BY <1>1, <2>1, BitFields
<1>4. ASSUME NEW t \in DOMAIN ops, ops'[t].stage \in {"map", "node"},
             NEW d \in ops'[t].notRdy
      PROVE  /\ Valid(ops, d.ref)
             /\ d.type \notin ops'[d.ref.slot].signaled
             /\ Bit(ops, t, d.type) \in ops'[d.ref.slot].wakeUp
  <2>1. d \in ops[t].notRdy
    BY <1>2
  <2>2. CASE ops'[t].stage = ops[t].stage /\ ops'[t].notRdy = ops[t].notRdy
    <3>1. /\ Valid(ops, d.ref) /\ d.type \notin ops[d.ref.slot].signaled
          /\ Bit(ops, t, d.type) \in ops[d.ref.slot].wakeUp
      BY <1>4, <2>1, <2>2 DEF WakeLists, Bit
    <3>2. QED
      BY <1>1, <3>1 DEF Valid
  <2>3. CASE ~(ops'[t].stage = ops[t].stage /\ ops'[t].notRdy = ops[t].notRdy)
    <3>1. Valid(ops, d.ref) /\ d.type \notin ops[d.ref.slot].signaled
      BY <1>1, <2>3
    <3>2. d.ref.slot \in DOMAIN ops /\ d = Bit(ops, d.ref.slot, d.type) /\ d.type \in DepTypes
      BY <2>1, <3>1, Dependence, ValidBit
    <3>3. Bit(ops, d.ref.slot, d.type) \in ops[t].notRdy
      BY <2>1, <3>2
    <3>4. Bit(ops, t, d.type) \in ops'[d.ref.slot].wakeUp
      BY <1>1, <2>3, <3>2, <3>3
    <3>5. QED
      BY <1>1, <3>1, <3>2, <3>4
  <2>4. QED
    BY <2>2, <2>3
<1>5. QED
  BY <1>1, <1>2, <1>3, <1>4, FlowStep

\* Ops leave.  An op that stays has its sources, and what left was younger than it or
\* no younger than anything else.
LEMMA LeaveFlow ==
    ASSUME IInv, WakeLists, SourcesOlder, SourcesAwaited,
           DOMAIN ops' \subseteq DOMAIN ops,
           \A t \in DOMAIN ops' :
              /\ Same(ops'[t], ops[t]) /\ SameFlow(ops'[t], ops[t])
              /\ ops'[t].stage = ops[t].stage,
           \A t \in DOMAIN ops' : ops[t].stage \in {"map", "node"} =>
              \A d \in ops[t].notRdy : d.ref.slot \in DOMAIN ops',
           \A x \in DOMAIN ops \ DOMAIN ops' : \A s, t \in DOMAIN ops' :
              ops[x].num < ops[s].num => ops[x].num <= ops[t].num
    PROVE  WakeLists' /\ SourcesOlder' /\ SourcesAwaited'
<1>1. \A t \in DOMAIN ops' : /\ RefTo(ops', t) = RefTo(ops, t)
                             /\ Gives(ops'[t]) = Gives(ops[t])
  BY DEF RefTo, Gives, Same
<1>2. \A ref : Valid(ops', ref) <=> Valid(ops, ref) /\ ref.slot \in DOMAIN ops'
  BY DEF Valid, Same
<1>3. WakeLists'
  BY <1>1, <1>2 DEF WakeLists, SameFlow, Same
<1>4. SourcesOlder'
  BY <1>1, <1>2 DEF SourcesOlder, Same, SameFlow
<1>5. /\ \A r : Writers(r)' = Writers(r) \cap DOMAIN ops'
      /\ \A a : Stores(a)' = Stores(a) \cap DOMAIN ops'
  BY DEF Writers, Stores, Same
<1>6. ASSUME NEW s \in DOMAIN ops', NEW S \in SUBSET DOMAIN ops,
             NEW T, T = S \cap DOMAIN ops', NEW type, Awaited(S, s, type)
      PROVE  Awaited(T, s, type)'
  <2> SUFFICES ASSUME NEW t \in T, LastBefore(t, T, s)'
               PROVE  \/ [ref |-> RefTo(ops', t), type |-> type] \in ops'[s].notRdy
                      \/ type \in ops'[t].signaled
    BY DEF Awaited
  <2>1. \A u \in DOMAIN ops' : ops'[u].num = ops[u].num
    BY DEF Same
  <2>2. /\ t \in S /\ t \in DOMAIN ops' /\ ops[t].num < ops[s].num
        /\ \A u \in T : ops[u].num < ops[s].num => ops[u].num <= ops[t].num
    BY <1>6, <2>1 DEF LastBefore, Before
  <2>3. \A u \in S : ops[u].num < ops[s].num => ops[u].num <= ops[t].num
    BY <1>6, <2>2
  <2>4. LastBefore(t, S, s)
    BY <2>2, <2>3 DEF LastBefore, Before
  <2>5. [ref |-> RefTo(ops, t), type |-> type] \in ops[s].notRdy \/ type \in ops[t].signaled
    BY <1>6, <2>2, <2>4 DEF Awaited
  <2>6. QED
    BY <1>1, <2>2, <2>5 DEF SameFlow
<1>7. SourcesAwaited'
  <2> SUFFICES ASSUME NEW s \in DOMAIN ops'
               PROVE  /\ \A r \in ops'[s].inst.srcs : Awaited(Writers(r), s, "reg")'
                      /\ ops'[s].inst.mem = "load" => \A a : a = ops'[s].inst.addr
                           => Awaited(Stores(a), s, "data")'
    BY DEF SourcesAwaited
  <2>1. ops'[s].inst = ops[s].inst /\ s \in DOMAIN ops
    BY DEF Same
  <2>2. ASSUME NEW r \in ops[s].inst.srcs PROVE Awaited(Writers(r), s, "reg")'
    <3>1. PICK T : T = Writers(r) \cap DOMAIN ops'
      OBVIOUS
    <3>2. Awaited(Writers(r), s, "reg") /\ Writers(r) \in SUBSET DOMAIN ops
      BY <2>1 DEF SourcesAwaited, Writers
    <3>3. Awaited(T, s, "reg")'
      BY <1>6, <3>1, <3>2
    <3>4. QED
      BY <1>5, <3>1, <3>3 DEF Awaited, LastBefore, Before
  <2>3. ASSUME ops[s].inst.mem = "load", NEW a, a = ops[s].inst.addr
        PROVE  Awaited(Stores(a), s, "data")'
    <3>1. PICK T : T = Stores(a) \cap DOMAIN ops'
      OBVIOUS
    <3>2. Awaited(Stores(a), s, "data") /\ Stores(a) \in SUBSET DOMAIN ops
      BY <2>1, <2>3 DEF SourcesAwaited, Stores
    <3>3. Awaited(T, s, "data")'
      BY <1>6, <3>1, <3>2
    <3>4. QED
      BY <1>5, <3>1, <3>3 DEF Awaited, LastBefore, Before
  <2>4. QED
    BY <2>1, <2>2, <2>3
<1>8. QED
  BY <1>3, <1>4, <1>7
-----------------------------------------------------------------------------
(* What leaves and what comes.                                              *)

\* The op stays as it is, but for a recovery or redirection that it waits for.
SameStay(new, old) ==
    /\ Same(new, old) /\ SameFlow(new, old)
    /\ new.stage = old.stage /\ new.state = old.state
    /\ new.executed = old.executed /\ new.done = old.done
    /\ new.redirectSched = old.redirectSched

LEMMA RecoverExact ==
    ASSUME IInv, Recover
    PROVE  /\ DOMAIN ops' = {t \in DOMAIN ops : ops[t].num <= recovery.num}
           /\ \A t \in DOMAIN ops' :
                /\ SameStay(ops'[t], ops[t])
                /\ ops'[t].recoverySched <=>
                     /\ ops[t].recoverySched
                     /\ ~(ops[t].stage = "node" /\ ops[t].num = recovery.num)
<1> DEFINE gone == {s \in DOMAIN ops : ops[s].num > recovery.num}
           flag(s) == ops[s].recoverySched /\ ~(ops[s].stage = "node" /\ ops[s].num = recovery.num)
           new(s) == [ops[s] EXCEPT !.recoverySched = flag(s)]
<1>1. ops \in [DOMAIN ops -> Op] /\ recovery.num \in Nat
  BY DEF IInv, TypeOK
<1>2. ops' = [s \in DOMAIN ops \ gone |-> new(s)]
  BY Zenon DEF Recover
<1>3. ASSUME NEW s \in DOMAIN ops
      PROVE  SameStay(new(s), ops[s]) /\ new(s).recoverySched = flag(s)
  <2>1. flag(s) \in BOOLEAN
    BY Zenon
  <2> HIDE DEF flag
  <2>2. QED
    BY <1>1, <2>1 DEF Op, SameStay, Same, SameFlow
<1>4. \A s \in DOMAIN ops :
         flag(s) <=> /\ ops[s].recoverySched
                     /\ ~(ops[s].stage = "node" /\ ops[s].num = recovery.num)
  BY Zenon
<1> HIDE DEF new, flag
<1>5. DOMAIN ops' = DOMAIN ops \ gone /\ \A s \in DOMAIN ops' : ops'[s] = new(s)
  BY <1>2
<1>6. DOMAIN ops \ gone = {t \in DOMAIN ops : ops[t].num <= recovery.num}
  <2>1. \A t \in DOMAIN ops : ops[t].num \in Nat
    BY <1>1 DEF Op
  <2>2. QED
    BY <1>1, <2>1
<1>7. QED
  BY <1>3, <1>4, <1>5, <1>6

LEMMA RetireExact ==
    ASSUME IInv, Retire
    PROVE  \E s \in Node :
             /\ CanRetire(s)
             /\ \A t \in DOMAIN ops : t # s => ops[s].num < ops[t].num
             /\ DOMAIN ops' = DOMAIN ops \ {s}
             /\ \A t \in DOMAIN ops' : ops'[t] = ops[t]
             /\ storeMap' = FreeStores(storeMap, {s})
<1> DEFINE s == Oldest(ops, Node)
<1>1. /\ ops \in [DOMAIN ops -> Op]
      /\ \A t \in DOMAIN ops : ops[t].num \in Nat
  BY DEF IInv, TypeOK, Op
<1>2. s \in Node /\ \A t \in Node : ops[s].num <= ops[t].num
  <2> DEFINE S == Node
  <2>1. S # {} /\ \A t \in S : ops[t].num \in Nat
    BY <1>1 DEF Retire, Node, In
  <2> HIDE DEF S
  <2>2. Oldest(ops, S) \in S /\ \A t \in S : ops[Oldest(ops, S)].num <= ops[t].num
    BY <2>1, OldestFound
  <2>3. QED
    BY <2>2 DEF S
<1>3. /\ CanRetire(s)
      /\ ops' = [t \in DOMAIN ops \ {s} |-> ops[t]]
      /\ storeMap' = FreeStores(storeMap, {s})
  BY DEF Retire
<1> HIDE DEF s
<1>4. s \in DOMAIN ops /\ ops[s].stage = "node"
  BY <1>2 DEF Node, In
<1>5. ASSUME NEW t \in DOMAIN ops, t # s PROVE ops[s].num < ops[t].num
  <2>1. CASE t \in Node
    BY <1>1, <1>2, <1>4, <1>5, <2>1 DEF IInv, AgeOrder
  <2>2. CASE t \notin Node
    <3>1. ops[t].stage \in {"ic", "dec", "map"}
      BY <1>1, <2>2 DEF Node, In, Op
    <3>2. Depth[ops[s].stage] > Depth[ops[t].stage]
      BY <1>4, <3>1 DEF Depth
    <3>3. QED
      BY <1>4, <3>2 DEF IInv, AgeOrder
  <2>3. QED
    BY <2>1, <2>2
<1>6. QED
  BY <1>2, <1>3, <1>4, <1>5

\* The op fetch adds has a slot and a number that nothing names.
LEMMA FetchExact ==
    ASSUME IInv, NEW inst \in Insts, NEW prediction \in Predictions(inst),
           FetchOp(inst, prediction)
    PROVE  \E n \in Nat \ {0}, unique \in Nat \ {0} :
             /\ n \notin DOMAIN ops /\ unique \notin References
             /\ DOMAIN ops' = DOMAIN ops \cup {n}
             /\ \A t \in DOMAIN ops : ops'[t] = ops[t]
             /\ ops'[n] = NewOp(inst, prediction, unique)
             /\ regMap' = WriteRegs(regMap, inst.dests, [slot |-> n, unique |-> unique], OffPath)
             /\ storeMap' = IF inst.mem = "store"
                            THEN WriteStore(storeMap, inst.addr, n, OffPath) ELSE storeMap
<1>1. \E n \in 1 .. Cardinality(DOMAIN ops) + 1, unique \in 1 .. Cardinality(References) + 1 :
         /\ FirstFree(n, DOMAIN ops) /\ FirstFree(unique, References)
         /\ ops' = [t \in DOMAIN ops \cup {n} |->
                      IF t = n THEN NewOp(inst, prediction, unique) ELSE ops[t]]
         /\ regMap' = WriteRegs(regMap, inst.dests, [slot |-> n, unique |-> unique], OffPath)
         /\ storeMap' = IF inst.mem = "store"
                        THEN WriteStore(storeMap, inst.addr, n, OffPath) ELSE storeMap
  BY Zenon DEF FetchOp
<1>2. PICK n \in 1 .. Cardinality(DOMAIN ops) + 1, unique \in 1 .. Cardinality(References) + 1 :
         /\ FirstFree(n, DOMAIN ops) /\ FirstFree(unique, References)
         /\ ops' = [t \in DOMAIN ops \cup {n} |->
                      IF t = n THEN NewOp(inst, prediction, unique) ELSE ops[t]]
         /\ regMap' = WriteRegs(regMap, inst.dests, [slot |-> n, unique |-> unique], OffPath)
         /\ storeMap' = IF inst.mem = "store"
                        THEN WriteStore(storeMap, inst.addr, n, OffPath) ELSE storeMap
  BY <1>1
<1>3. n \in Nat \ {0} /\ unique \in Nat \ {0}
  OBVIOUS
<1>4. n \notin DOMAIN ops /\ unique \notin References
  BY <1>2 DEF FirstFree
<1>5. /\ DOMAIN ops' = DOMAIN ops \cup {n}
      /\ \A t \in DOMAIN ops : ops'[t] = ops[t]
      /\ ops'[n] = NewOp(inst, prediction, unique)
  BY <1>2, <1>4
<1>6. QED
  BY <1>2, <1>3, <1>4, <1>5
-----------------------------------------------------------------------------
(* What the maps name.                                                      *)

LEMMA HasLast ==
    ASSUME IInv, NEW S \in SUBSET DOMAIN ops, S # {}
    PROVE  \E s \in S : LastOf(s, S)
<1> DEFINE f == [s \in S |-> ops[s].num]
           b == fetch.opCount
<1>1. f \in [S -> 0 .. b] /\ b \in Nat
  BY DEF IInv, TypeOK, Op, AgeOrder
<1>2. \E s \in S : \A t \in S : f[t] <= f[s]
  <2> HIDE DEF f, b
  <2> QED  BY <1>1, MaximumAttained
<1>3. QED
  BY <1>2 DEF LastOf

LEMMA LastUnique ==
    ASSUME IInv, NEW S \in SUBSET DOMAIN ops, NEW s, NEW t, LastOf(s, S), LastOf(t, S)
    PROVE  s = t
BY Nums DEF LastOf

LEMMA YoungestIsLast ==
    ASSUME IInv, NEW S \in SUBSET DOMAIN ops, NEW s, LastOf(s, S)
    PROVE  Youngest(ops, S) = s
<1>1. LastOf(Youngest(ops, S), S)
  BY DEF LastOf, Youngest
<1>2. QED
  BY <1>1, LastUnique

\* An op off the path was fetched after every op on it.
LEMMA OffPathYounger ==
    ASSUME IInv, PathMarked, NEW s \in DOMAIN ops, NEW t \in DOMAIN ops,
           ~ops[s].offPath, ops[t].offPath
    PROVE  ops[s].num < ops[t].num
<1>1. PICK u \in Unresolved : ops[u].num < ops[t].num
  BY DEF PathMarked, Before
<1>2. u \in DOMAIN ops
  BY DEF Unresolved
<1>3. ~(ops[u].num < ops[s].num)
  BY DEF PathMarked, Before
<1>4. ops[s].num \in Nat /\ ops[t].num \in Nat /\ ops[u].num \in Nat
  BY <1>2 DEF IInv, TypeOK, Op
<1>5. QED
  BY <1>1, <1>3, <1>4

LEMMA SideLast ==
    ASSUME IInv, PathMarked, NEW S \in SUBSET DOMAIN ops, NEW s, LastOf(s, S)
    PROVE  IF OffOf(S) = {} THEN LastOf(s, OnOf(S)) ELSE LastOf(s, OffOf(S))
<1>1. CASE OffOf(S) = {}
  BY <1>1 DEF OffOf, OnOf, LastOf
<1>2. CASE OffOf(S) # {}
  <2>1. PICK t \in S : ops[t].offPath
    BY <1>2 DEF OffOf
  <2>2. ops[t].num <= ops[s].num /\ s \in S
    BY DEF LastOf
  <2>3. ops[s].num \in Nat /\ ops[t].num \in Nat
    BY <2>2 DEF IInv, TypeOK, Op
  <2>4. ops[s].offPath
    <3>1. ~ops[s].offPath => ops[s].num < ops[t].num
      BY <2>1, <2>2, OffPathYounger
    <3>2. QED
      BY <2>2, <2>3, <3>1
  <2>5. QED
    BY <1>2, <2>2, <2>4 DEF OffOf, LastOf
<1>3. QED
  BY <1>1, <1>2

\* map_reg finds the last writer, and names no other op in flight.
LEMMA ReadRegLast ==
    ASSUME IInv, PathMarked, RegMapExact, NEW r \in Regs
    PROVE  /\ \A s : LastOf(s, Writers(r)) => ReadReg(regMap, r) = RefTo(ops, s)
           /\ Valid(ops, ReadReg(regMap, r)) => ReadReg(regMap, r).slot \in Writers(r)
<1>1. Writers(r) \in SUBSET DOMAIN ops /\ OffOf(Writers(r)) \in SUBSET DOMAIN ops
  BY DEF Writers, OffOf
<1>2. ASSUME NEW s, LastOf(s, Writers(r)) PROVE ReadReg(regMap, r) = RefTo(ops, s)
  <2>1. s \in DOMAIN ops
    BY <1>1, <1>2 DEF LastOf
  <2>2. IF OffOf(Writers(r)) = {} THEN LastOf(s, OnOf(Writers(r)))
        ELSE LastOf(s, OffOf(Writers(r)))
    BY <1>1, <1>2, SideLast
  <2>3. QED
    BY <2>1, <2>2 DEF RegMapExact, ReadReg
<1>3. ASSUME Valid(ops, ReadReg(regMap, r)) PROVE ReadReg(regMap, r).slot \in Writers(r)
  <2>1. CASE Writers(r) # {}
    <3>1. PICK s \in Writers(r) : LastOf(s, Writers(r))
      BY <1>1, <2>1, HasLast
    <3>2. ReadReg(regMap, r).slot = s
      BY <1>2, <3>1 DEF RefTo
    <3>3. QED
      BY <3>2
  <2>2. CASE Writers(r) = {}
    BY <1>3, <2>2 DEF RegMapExact, ReadReg, OnOf, OffOf
  <2>3. QED
    BY <2>1, <2>2
<1>4. QED
  BY <1>2, <1>3

LEMMA ReadStoreLast ==
    ASSUME IInv, PathMarked, StoreMapExact, NEW a \in Addrs
    PROVE  /\ \A s : LastOf(s, Stores(a)) => ReadStore(storeMap, a) = s
           /\ ReadStore(storeMap, a) # 0 => ReadStore(storeMap, a) \in Stores(a)
<1>1. Stores(a) \in SUBSET DOMAIN ops
  BY DEF Stores
<1>2. ASSUME NEW s, LastOf(s, Stores(a)) PROVE ReadStore(storeMap, a) = s
  <2>1. s \in DOMAIN ops
    BY <1>1, <1>2 DEF LastOf
  <2>2. IF OffOf(Stores(a)) = {} THEN LastOf(s, OnOf(Stores(a)))
        ELSE LastOf(s, OffOf(Stores(a)))
    BY <1>1, <1>2, SideLast
  <2>3. QED
    BY <2>1, <2>2 DEF StoreMapExact, ReadStore
<1>3. ASSUME ReadStore(storeMap, a) # 0 PROVE ReadStore(storeMap, a) \in Stores(a)
  <2>1. CASE Stores(a) # {}
    <3>1. PICK s \in Stores(a) : LastOf(s, Stores(a))
      BY <1>1, <2>1, HasLast
    <3>2. QED
      BY <1>2, <3>1
  <2>2. CASE Stores(a) = {}
    BY <1>3, <2>2 DEF StoreMapExact, ReadStore, OnOf, OffOf
  <2>3. QED
    BY <2>1, <2>2
<1>4. QED
  BY <1>2, <1>3

LEMMA NamesYoungest == IInv /\ PathMarked /\ Maps => MapsNameYoungest
<1> SUFFICES ASSUME IInv, PathMarked, RegMapExact, StoreMapExact PROVE MapsNameYoungest
  BY DEF Maps
<1>1. ASSUME NEW r \in Regs
      PROVE  IF Writers(r) = {} THEN ~Valid(ops, ReadReg(regMap, r))
             ELSE ReadReg(regMap, r) = RefTo(ops, Youngest(ops, Writers(r)))
  <2>1. CASE Writers(r) = {}
    BY <2>1, ReadRegLast
  <2>2. CASE Writers(r) # {}
    <3>1. Writers(r) \in SUBSET DOMAIN ops
      BY DEF Writers
    <3>2. PICK s \in Writers(r) : LastOf(s, Writers(r))
      BY <2>2, <3>1, HasLast
    <3>3. QED
      BY <2>2, <3>1, <3>2, ReadRegLast, YoungestIsLast
  <2>3. QED
    BY <2>1, <2>2
<1>2. ASSUME NEW a \in Addrs
      PROVE  ReadStore(storeMap, a) = IF Stores(a) = {} THEN 0 ELSE Youngest(ops, Stores(a))
  <2>1. CASE Stores(a) = {}
    BY <2>1, ReadStoreLast
  <2>2. CASE Stores(a) # {}
    <3>1. Stores(a) \in SUBSET DOMAIN ops
      BY DEF Stores
    <3>2. PICK s \in Stores(a) : LastOf(s, Stores(a))
      BY <2>2, <3>1, HasLast
    <3>3. QED
      BY <2>2, <3>1, <3>2, ReadStoreLast, YoungestIsLast
  <2>3. QED
    BY <2>1, <2>2
<1>3. QED
  BY <1>1, <1>2 DEF MapsNameYoungest
-----------------------------------------------------------------------------
(* A fetched op waits for the right ones.                                   *)

LEMMA FreshReference ==
    ASSUME IInv, NEW unique, unique \notin References
    PROVE  /\ \A t \in DOMAIN ops : ops[t].unique # unique
           /\ \A t \in DOMAIN ops : \A d \in ops[t].notRdy : d.ref.unique # unique
           /\ \A ref \in misses : ref.unique # unique
           /\ \A r \in Regs : /\ regMap[r].on.unique # unique
                              /\ regMap[r].off.unique # unique
                              /\ ReadReg(regMap, r).unique # unique
BY DEF References, ReadReg

LEMMA DepsOlder ==
    ASSUME IInv, PathMarked, Maps, NEW inst \in Insts,
           NEW d \in Deps(regMap, storeMap, ops, inst)
    PROVE  /\ Valid(ops, d.ref) => d.type = Gives(ops[d.ref.slot])
           /\ \/ Valid(ops, d.ref)
              \/ \E r \in Regs : d.ref = ReadReg(regMap, r)
<1>1. inst.srcs \subseteq Regs /\ inst.addr \in Addrs
  BY InstsAssumption
<1>2. CASE \E r \in inst.srcs : d = [ref |-> ReadReg(regMap, r), type |-> "reg"]
  <2>1. PICK r \in inst.srcs : d = [ref |-> ReadReg(regMap, r), type |-> "reg"]
    BY <1>2
  <2>2. d.ref = ReadReg(regMap, r) /\ d.type = "reg"
    BY <2>1
  <2>3. ASSUME Valid(ops, d.ref) PROVE Gives(ops[d.ref.slot]) = "reg"
    <3>1. d.ref.slot \in Writers(r)
      BY <1>1, <2>2, <2>3, ReadRegLast DEF Maps
    <3>2. ops[d.ref.slot] \in Op /\ r \in ops[d.ref.slot].inst.dests
      BY <3>1 DEF Writers, IInv, TypeOK
    <3>3. ops[d.ref.slot].inst \in Insts
      BY <3>2 DEF Op
    <3>4. ops[d.ref.slot].inst.mem # "store"
      BY <3>2, <3>3, StoresAssumption
    <3>5. QED
      BY <3>4 DEF Gives
  <2>4. QED
    BY <1>1, <2>2, <2>3
<1>3. CASE /\ ReadStore(storeMap, inst.addr) # 0
           /\ d = [ref |-> RefTo(ops, ReadStore(storeMap, inst.addr)), type |-> "data"]
  <2>1. ReadStore(storeMap, inst.addr) \in Stores(inst.addr)
    BY <1>1, <1>3, ReadStoreLast DEF Maps
  <2>2. d.ref = RefTo(ops, ReadStore(storeMap, inst.addr)) /\ d.type = "data"
    BY <1>3
  <2>3. QED
    BY <2>1, <2>2 DEF Stores, RefTo, Valid, Gives
<1>4. QED
  BY <1>2, <1>3 DEF Deps

\* What the new op waits for: the last writer of each source, the last store it loads from.
LEMMA DepsComplete ==
    ASSUME IInv, PathMarked, Maps, NEW inst \in Insts
    PROVE  /\ \A r \in inst.srcs : \A t : LastOf(t, Writers(r)) =>
                Bit(ops, t, "reg") \in Deps(regMap, storeMap, ops, inst)
           /\ inst.mem = "load" => \A t : LastOf(t, Stores(inst.addr)) =>
                Bit(ops, t, "data") \in Deps(regMap, storeMap, ops, inst)
<1>1. inst.srcs \subseteq Regs /\ inst.addr \in Addrs
  BY InstsAssumption
<1>2. ASSUME NEW r \in inst.srcs, NEW t, LastOf(t, Writers(r))
      PROVE  Bit(ops, t, "reg") \in Deps(regMap, storeMap, ops, inst)
  <2>1. ReadReg(regMap, r) = RefTo(ops, t)
    BY <1>1, <1>2, ReadRegLast DEF Maps
  <2>2. QED
    BY <2>1 DEF Deps, Bit
<1>3. ASSUME inst.mem = "load", NEW t, LastOf(t, Stores(inst.addr))
      PROVE  Bit(ops, t, "data") \in Deps(regMap, storeMap, ops, inst)
  <2>1. ReadStore(storeMap, inst.addr) = t
    BY <1>1, <1>3, ReadStoreLast DEF Maps
  <2>2. t # 0
    BY <1>3 DEF LastOf, Stores, IInv, TypeOK
  <2>3. QED
    BY <1>3, <2>1, <2>2 DEF Deps, Bit
<1>4. QED
  BY <1>2, <1>3

LEMMA FetchFlow ==
    ASSUME IInv, IInv', PathMarked, Maps, WakeLists, SourcesOlder, SourcesAwaited,
           NEW inst \in Insts, NEW prediction \in Predictions(inst), FetchOp(inst, prediction)
    PROVE  WakeLists' /\ SourcesOlder' /\ SourcesAwaited'
<1>1. PICK n \in Nat \ {0}, unique \in Nat \ {0} :
         /\ n \notin DOMAIN ops /\ unique \notin References
         /\ DOMAIN ops' = DOMAIN ops \cup {n}
         /\ \A t \in DOMAIN ops : ops'[t] = ops[t]
         /\ ops'[n] = NewOp(inst, prediction, unique)
  BY FetchExact
<1>2. /\ ops'[n].unique = unique /\ ops'[n].num = fetch.opCount /\ ops'[n].inst = inst
      /\ ops'[n].stage = "ic" /\ ops'[n].notRdy = Deps(regMap, storeMap, ops, inst)
  BY <1>1 DEF NewOp
<1>3. \A t \in DOMAIN ops : RefTo(ops', t) = RefTo(ops, t)
  BY <1>1 DEF RefTo
<1>4. /\ \A ref : Valid(ops, ref) => Valid(ops', ref) /\ ref.slot \in DOMAIN ops
      /\ \A ref : Valid(ops', ref) /\ ref.unique # unique => Valid(ops, ref)
  BY <1>1, <1>2 DEF Valid
<1>5. WakeLists'
  BY <1>1, <1>2, <1>3, <1>4 DEF WakeLists
<1>6. SourcesOlder'
  <2> SUFFICES ASSUME NEW s \in DOMAIN ops', NEW d \in ops'[s].notRdy, Valid(ops', d.ref)
               PROVE  /\ ops'[d.ref.slot].num < ops'[s].num
                      /\ d.type = Gives(ops'[d.ref.slot])
    BY DEF SourcesOlder
  <2>1. CASE s \in DOMAIN ops
    <3>1. d \in ops[s].notRdy /\ d.ref.unique # unique
      BY <1>1, <2>1, FreshReference
    <3>2. Valid(ops, d.ref) /\ d.ref.slot \in DOMAIN ops
      BY <1>4, <3>1
    <3>3. QED
      BY <1>1, <2>1, <3>1, <3>2 DEF SourcesOlder
  <2>2. CASE s = n
    <3>1. d \in Deps(regMap, storeMap, ops, inst)
      BY <1>2, <2>2
    <3>2. Valid(ops, d.ref) \/ \E r \in Regs : d.ref = ReadReg(regMap, r)
      BY <3>1, DepsOlder
    <3>3. Valid(ops, d.ref) /\ d.ref.slot \in DOMAIN ops
      BY <1>1, <1>4, <3>2, FreshReference
    <3>4. d.type = Gives(ops[d.ref.slot])
      BY <3>1, <3>3, DepsOlder
    <3>5. ops[d.ref.slot].num < fetch.opCount
      BY <3>3, Nums
    <3>6. QED
      BY <1>1, <1>2, <2>2, <3>3, <3>4, <3>5
  <2>3. QED
    BY <1>1, <2>1, <2>2
<1>7. /\ \A r : Writers(r) \subseteq Writers(r)' /\ Writers(r)' \subseteq Writers(r) \cup {n}
      /\ \A a : Stores(a) \subseteq Stores(a)' /\ Stores(a)' \subseteq Stores(a) \cup {n}
      /\ \A r : Writers(r) \subseteq DOMAIN ops
      /\ \A a : Stores(a) \subseteq DOMAIN ops
  BY <1>1 DEF Writers, Stores
<1>8. ASSUME NEW s \in DOMAIN ops, NEW S \in SUBSET DOMAIN ops,
             NEW T, S \subseteq T, T \subseteq S \cup {n}, NEW type, Awaited(S, s, type)
      PROVE  Awaited(T, s, type)'
  <2> SUFFICES ASSUME NEW t \in T, LastBefore(t, T, s)'
               PROVE  \/ [ref |-> RefTo(ops', t), type |-> type] \in ops'[s].notRdy
                      \/ type \in ops'[t].signaled
    BY DEF Awaited
  <2>1. /\ ops'[t].num < ops[s].num
        /\ \A u \in S : ops[u].num < ops[s].num => ops[u].num <= ops'[t].num
    BY <1>1, <1>8 DEF LastBefore, Before
  <2>2. t # n
    BY <1>2, <2>1, Nums
  <2>3. t \in S /\ t \in DOMAIN ops
    BY <1>8, <2>2
  <2>4. LastBefore(t, S, s)
    BY <1>1, <2>1, <2>3 DEF LastBefore, Before
  <2>5. QED
    BY <1>1, <1>3, <1>8, <2>3, <2>4 DEF Awaited
<1>9. ASSUME NEW S \in SUBSET DOMAIN ops, NEW T, S \subseteq T, T \subseteq S \cup {n}, NEW type,
             \A t : LastOf(t, S) => Bit(ops, t, type) \in Deps(regMap, storeMap, ops, inst)
      PROVE  Awaited(T, n, type)'
  <2> SUFFICES ASSUME NEW t \in T, LastBefore(t, T, n)'
               PROVE  [ref |-> RefTo(ops', t), type |-> type] \in ops'[n].notRdy
    BY DEF Awaited
  <2>1. t # n
    <3>1. ops'[t].num < ops'[n].num /\ ops'[n].num \in Nat
      BY <1>1, <1>2, Nums DEF LastBefore, Before
    <3>2. QED
      BY <3>1
  <2>2. t \in S /\ t \in DOMAIN ops
    BY <1>9, <2>1
  <2>3. \A u \in S : ops[u].num <= ops[t].num
    <3>1. \A u \in S : u \in T /\ ops'[u].num = ops[u].num /\ ops[u].num < fetch.opCount
      BY <1>1, <1>9, Nums
    <3>2. QED
      BY <1>1, <1>2, <2>2, <3>1 DEF LastBefore, Before
  <2>4. LastOf(t, S)
    BY <2>2, <2>3 DEF LastOf
  <2>5. QED
    BY <1>2, <1>3, <1>9, <2>2, <2>4 DEF Bit
<1>10. SourcesAwaited'
  <2> SUFFICES ASSUME NEW s \in DOMAIN ops'
               PROVE  /\ \A r \in ops'[s].inst.srcs : Awaited(Writers(r), s, "reg")'
                      /\ ops'[s].inst.mem = "load" => \A a : a = ops'[s].inst.addr
                           => Awaited(Stores(a), s, "data")'
    BY DEF SourcesAwaited
  <2>1. CASE s \in DOMAIN ops
    <3>1. ops'[s] = ops[s]
      BY <1>1, <2>1
    <3>2. ASSUME NEW r \in ops[s].inst.srcs PROVE Awaited(Writers(r), s, "reg")'
      <4>1. PICK T : T = Writers(r)'
        OBVIOUS
      <4>2. Awaited(Writers(r), s, "reg")
        BY <2>1 DEF SourcesAwaited
      <4>3. Awaited(T, s, "reg")'
        BY <1>7, <1>8, <2>1, <4>1, <4>2
      <4>4. QED
        BY <4>1, <4>3 DEF Awaited, LastBefore, Before
    <3>3. ASSUME ops[s].inst.mem = "load", NEW a, a = ops[s].inst.addr
          PROVE  Awaited(Stores(a), s, "data")'
      <4>1. PICK T : T = Stores(a)'
        OBVIOUS
      <4>2. Awaited(Stores(a), s, "data")
        BY <2>1, <3>3 DEF SourcesAwaited
      <4>3. Awaited(T, s, "data")'
        BY <1>7, <1>8, <2>1, <4>1, <4>2
      <4>4. QED
        BY <4>1, <4>3 DEF Awaited, LastBefore, Before
    <3>4. QED
      BY <3>1, <3>2, <3>3
  <2>2. CASE s = n
    <3>1. ASSUME NEW r \in inst.srcs PROVE Awaited(Writers(r), n, "reg")'
      <4>1. PICK T : T = Writers(r)'
        OBVIOUS
      <4>2. \A t : LastOf(t, Writers(r)) => Bit(ops, t, "reg") \in Deps(regMap, storeMap, ops, inst)
        BY DepsComplete
      <4>3. Awaited(T, n, "reg")'
        BY <1>7, <1>9, <4>1, <4>2
      <4>4. QED
        BY <4>1, <4>3 DEF Awaited, LastBefore, Before
    <3>2. ASSUME inst.mem = "load", NEW a, a = inst.addr PROVE Awaited(Stores(a), n, "data")'
      <4>1. PICK T : T = Stores(a)'
        OBVIOUS
      <4>2. \A t : LastOf(t, Stores(a)) => Bit(ops, t, "data") \in Deps(regMap, storeMap, ops, inst)
        BY <3>2, DepsComplete
      <4>3. Awaited(T, n, "data")'
        BY <1>7, <1>9, <4>1, <4>2
      <4>4. QED
        BY <4>1, <4>3 DEF Awaited, LastBefore, Before
    <3>3. QED
      BY <1>2, <2>2, <3>1, <3>2
  <2>3. QED
    BY <1>1, <2>1, <2>2
<1>11. QED
  BY <1>5, <1>6, <1>10
-----------------------------------------------------------------------------
(* What an op has done, action by action.                                   *)

LEMMA SoundStays ==
    ASSUME NEW new, NEW old, Sound(old), new.inst = old.inst, SameFlow(new, old),
           new.executed = old.executed, new.done = old.done, new.state = old.state
    PROVE  Sound(new)
BY DEF Sound, SameFlow, Gives

LEMMA SoundMoves ==
    ASSUME NEW new, NEW old, Sound(old), new.inst = old.inst, SameFlow(new, old),
           new.executed = old.executed, new.done = old.done,
           new.state \in Busy <=> old.state \in Busy,
           new.state = "IN_RS" => new.notRdy # {},
           new.state = "READY" => new.notRdy = {}
    PROVE  Sound(new)
BY DEF Sound, SameFlow, Gives

\* An op that hears of its source.
LEMMA SoundHears ==
    ASSUME NEW live, NEW s, NEW t, t # s, NEW type, NEW new, Sound(live[t]),
           Same(new, live[t]), Heard(live, s, type, t, new),
           new.executed <=> live[t].executed, new.done <=> live[t].done,
           new.state = HeardState(live, s, type, t)
    PROVE  Sound(new)
<1>1. new.signaled = live[t].signaled /\ Gives(new) = Gives(live[t]) /\ new.inst = live[t].inst
  BY DEF Heard, Same, Gives
<1>2. CASE Hears(live, s, type, t)
  <2>1. /\ new.notRdy = live[t].notRdy \ {Bit(live, s, type)}
        /\ Bit(live, s, type) \in live[t].notRdy
    BY <1>2 DEF Heard, Hears
  <2>2. ~live[t].executed /\ live[t].state \notin Busy /\ live[t].state # "READY"
    BY <2>1 DEF Sound
  <2>3. new.state = IF live[t].state = "IN_RS" /\ live[t].notRdy = {Bit(live, s, type)}
                    THEN "READY" ELSE live[t].state
    BY <1>2 DEF HeardState
  <2>4. QED
    BY <1>1, <2>1, <2>2, <2>3 DEF Sound, Busy
<1>3. CASE ~Hears(live, s, type, t)
  <2>1. new.notRdy = live[t].notRdy /\ new.state = live[t].state
    BY <1>3 DEF Heard, HeardState
  <2>2. QED
    BY <1>1, <2>1 DEF Sound
<1>4. QED
  BY <1>2, <1>3

LEMMA SupplySound ==
    ASSUME IInv, Execution, NEW s \in DOMAIN ops, ops[s].state \in Busy, Supply(s)
    PROVE  Execution'
<1>1. /\ DOMAIN ops' = DOMAIN ops
      /\ \A t \in DOMAIN ops :
           /\ Same(ops'[t], ops[t]) /\ SameFront(ops'[t], ops[t])
           /\ ops'[t].done <=> (t = s \/ ops[t].done)
      /\ ops'[s].state = "SCHEDULED"
      /\ ops[s].inst.mem = "store" =>
           \A t \in DOMAIN ops : /\ SameFlow(ops'[t], ops[t])
                                 /\ t # s => ops'[t].state = ops[t].state
      /\ ops[s].inst.mem # "store" =>
           \A t \in DOMAIN ops :
              /\ Heard(ops, s, "reg", t, ops'[t])
              /\ t # s => ops'[t].state = HeardState(ops, s, "reg", t)
  BY SupplyExact
<1>2. ASSUME NEW t \in DOMAIN ops, t # s PROVE Sound(ops'[t])
  <2>1. /\ Sound(ops[t]) /\ ops'[t].inst = ops[t].inst
        /\ ops'[t].executed <=> ops[t].executed
        /\ ops'[t].done <=> ops[t].done
    BY <1>1, <1>2 DEF Execution, Same, SameFront
  <2>2. CASE ops[s].inst.mem = "store"
    BY <1>1, <1>2, <2>1, <2>2 DEF Sound, SameFlow, Gives
  <2>3. CASE ops[s].inst.mem # "store"
    BY <1>1, <1>2, <2>1, <2>3, SoundHears
  <2>4. QED
    BY <2>2, <2>3
<1>3. Sound(ops'[s])
  <2>1. /\ Sound(ops[s]) /\ ops[s].executed /\ ops[s].notRdy = {}
        /\ ops'[s].inst = ops[s].inst /\ ops'[s].executed /\ ops'[s].state = "SCHEDULED"
    BY <1>1 DEF Execution, Sound, Same, SameFront
  <2>2. CASE ops[s].inst.mem = "store"
    <3>1. SameFlow(ops'[s], ops[s])
      BY <1>1, <2>2
    <3>2. QED
      BY <2>1, <2>2, <3>1 DEF Sound, SameFlow, Gives, Busy
  <2>3. CASE ops[s].inst.mem # "store"
    <3>1. ops'[s].notRdy = {} /\ ops'[s].signaled = ops[s].signaled \cup {"reg"}
      BY <1>1, <2>1, <2>3 DEF Heard
    <3>2. QED
      BY <2>1, <2>3, <3>1 DEF Sound, Gives, Busy
  <2>4. QED
    BY <2>2, <2>3
<1>4. QED
  BY <1>1, <1>2, <1>3 DEF Execution

LEMMA LatchSound ==
    ASSUME IInv, Execution, NEW f \in FUs, Latch(f)
    PROVE  Execution'
<1>1. PICK s : s = sched[f]
  OBVIOUS
<1>2. /\ s \in DOMAIN ops /\ ops[s].state = "READY" /\ ~ops[s].executed
      /\ DOMAIN ops' = DOMAIN ops
      /\ \A t \in DOMAIN ops :
           /\ Same(ops'[t], ops[t]) /\ ops'[t].stage = ops[t].stage
           /\ ops'[t].executed <=> (t = s \/ ops[t].executed)
           /\ ops'[t].done <=> IF t = s THEN ops[s].inst.mem = "none" ELSE ops[t].done
      /\ ops'[s].state = "SCHEDULED"
      /\ ops[s].inst.mem = "load" =>
           \A t \in DOMAIN ops : /\ SameFlow(ops'[t], ops[t])
                                 /\ t # s => ops'[t].state = ops[t].state
      /\ ops[s].inst.mem # "load" =>
           \A t \in DOMAIN ops :
              /\ Heard(ops, s, Gives(ops[s]), t, ops'[t])
              /\ t # s => ops'[t].state = HeardState(ops, s, Gives(ops[s]), t)
  BY <1>1, LatchExact
<1>3. ASSUME NEW t \in DOMAIN ops, t # s PROVE Sound(ops'[t])
  <2>1. /\ Sound(ops[t]) /\ ops'[t].inst = ops[t].inst
        /\ ops'[t].executed <=> ops[t].executed
        /\ ops'[t].done <=> ops[t].done
    BY <1>2, <1>3 DEF Execution, Same
  <2>2. CASE ops[s].inst.mem = "load"
    BY <1>2, <1>3, <2>1, <2>2 DEF Sound, SameFlow, Gives
  <2>3. CASE ops[s].inst.mem # "load"
    BY <1>2, <1>3, <2>1, <2>3, SoundHears
  <2>4. QED
    BY <2>2, <2>3
<1>4. Sound(ops'[s])
  <2>1. /\ ops[s].notRdy = {} /\ ops[s].signaled = {}
        /\ ops'[s].inst = ops[s].inst /\ ops'[s].executed /\ ops'[s].state = "SCHEDULED"
        /\ ops'[s].done => ops[s].inst.mem = "none"
    BY <1>2 DEF Execution, Sound, Same
  <2>2. CASE ops[s].inst.mem = "load"
    BY <1>2, <2>1, <2>2 DEF Sound, SameFlow, Gives, Busy
  <2>3. CASE ops[s].inst.mem # "load"
    <3>1. ops'[s].notRdy = {} /\ ops'[s].signaled = ops[s].signaled \cup {Gives(ops[s])}
      BY <1>2, <2>1, <2>3 DEF Heard
    <3>2. QED
      BY <2>1, <2>3, <3>1 DEF Sound, Gives, Busy
  <2>4. QED
    BY <2>2, <2>3
<1>5. QED
  BY <1>2, <1>3, <1>4 DEF Execution

LEMMA AccessSound ==
    ASSUME IInv, Execution, NEW f \in FUs, NEW outcome \in Outcomes, DcacheAccess(f, outcome)
    PROVE  Execution'
<1>1. PICK s : s = AtDcache(f)
  OBVIOUS
<1>2. /\ s \in DOMAIN ops /\ ops[s].state \in Busy
      /\ \/ outcome = "late" /\ UNCHANGED <<ops, misses>>
         \/ outcome = "hit" /\ Supply(s) /\ UNCHANGED misses
         \/ outcome = "miss" /\ OnlyState(s, "MISS") /\ misses' = misses \cup {RefTo(ops, s)}
         \/ outcome = "port" /\ OnlyState(s, "WAIT_DCACHE") /\ UNCHANGED misses
         \/ outcome = "buffer" /\ OnlyState(s, "WAIT_MEM") /\ UNCHANGED misses
  BY <1>1, AccessExact
<1>3. CASE UNCHANGED ops
  BY <1>3 DEF Execution
<1>4. CASE Supply(s)
  BY <1>2, <1>4, SupplySound
<1>5. ASSUME NEW state \in Busy \ {"SCHEDULED"}, OnlyState(s, state) PROVE Execution'
  <2> SUFFICES ASSUME NEW t \in DOMAIN ops PROVE Sound(ops'[t])
    BY <1>5 DEF Execution, OnlyState
  <2>1. /\ Sound(ops[t]) /\ ops'[t].inst = ops[t].inst /\ SameFlow(ops'[t], ops[t])
        /\ ops'[t].executed = ops[t].executed /\ ops'[t].done = ops[t].done
        /\ ops'[t].state = IF t = s THEN state ELSE ops[t].state
    BY <1>5 DEF Execution, OnlyState, Same, SameFront
  <2>2. /\ ops'[t].state \in Busy <=> ops[t].state \in Busy
        /\ ops'[t].state = "IN_RS" => ops'[t].notRdy # {}
        /\ ops'[t].state = "READY" => ops'[t].notRdy = {}
    BY <1>2, <1>5, <2>1 DEF Sound, SameFlow, Busy
  <2>3. QED
    BY <2>1, <2>2, SoundMoves
<1>6. QED
  BY <1>2, <1>3, <1>4, <1>5 DEF Busy

LEMMA FillSound ==
    ASSUME IInv, Execution, NEW r \in Stations, FillRS(r)
    PROVE  Execution'
<1>1. PICK s : s = nextIntoRS
  OBVIOUS
<1>2. PICK state : state = IF ops[s].notRdy = {} THEN "READY" ELSE "IN_RS"
  OBVIOUS
<1>3. s \in DOMAIN ops /\ ops[s].state = "ISSUED" /\ OnlyState(s, state)
  BY <1>1, <1>2, FillExact
<1> SUFFICES ASSUME NEW t \in DOMAIN ops PROVE Sound(ops'[t])
  BY <1>3 DEF Execution, OnlyState
<1>4. /\ Sound(ops[t]) /\ ops'[t].inst = ops[t].inst /\ SameFlow(ops'[t], ops[t])
      /\ ops'[t].executed = ops[t].executed /\ ops'[t].done = ops[t].done
      /\ ops'[t].state = IF t = s THEN state ELSE ops[t].state
  BY <1>3 DEF Execution, OnlyState, Same, SameFront
<1>5. /\ ops'[t].state \in Busy <=> ops[t].state \in Busy
      /\ ops'[t].state = "IN_RS" => ops'[t].notRdy # {}
      /\ ops'[t].state = "READY" => ops'[t].notRdy = {}
  BY <1>2, <1>3, <1>4 DEF Sound, SameFlow, Busy
<1>6. QED
  BY <1>4, <1>5, SoundMoves

LEMMA IssueSound == ASSUME IInv, Execution, Issue PROVE Execution'
<1>1. PICK s \in DOMAIN ops :
         /\ ops[s].stage = "map"
         /\ DOMAIN ops' = DOMAIN ops
         /\ \A t \in DOMAIN ops :
              /\ Same(ops'[t], ops[t]) /\ SameFlow(ops'[t], ops[t])
              /\ ops'[t].executed = ops[t].executed /\ ops'[t].done = ops[t].done
              /\ ops'[t].state = IF t = s THEN "ISSUED" ELSE ops[t].state
  BY IssueExact
<1>2. ops[s].state = "FETCHED"
  BY <1>1 DEF IInv, StateOfStage
<1> SUFFICES ASSUME NEW t \in DOMAIN ops PROVE Sound(ops'[t])
  BY <1>1 DEF Execution
<1>3. /\ Sound(ops[t]) /\ ops'[t].inst = ops[t].inst /\ SameFlow(ops'[t], ops[t])
      /\ ops'[t].executed = ops[t].executed /\ ops'[t].done = ops[t].done
  BY <1>1 DEF Execution, Same
<1>4. /\ ops'[t].state \in Busy <=> ops[t].state \in Busy
      /\ ops'[t].state = "IN_RS" => ops'[t].notRdy # {}
      /\ ops'[t].state = "READY" => ops'[t].notRdy = {}
  BY <1>1, <1>2, <1>3 DEF Sound, SameFlow, Busy
<1>5. QED
  BY <1>3, <1>4, SoundMoves

LEMMA MapSound == ASSUME IInv, Execution, MapStage PROVE Execution'
<1>1. /\ DOMAIN ops' = DOMAIN ops
      /\ \A t \in DOMAIN ops :
           /\ Same(ops'[t], ops[t]) /\ ops'[t].executed = ops[t].executed
           /\ ops'[t].state = ops[t].state /\ ops'[t].done = ops[t].done
           /\ ops'[t].signaled = ops[t].signaled
           /\ ops'[t].notRdy = ops[t].notRdy \/ ops[t].stage = "dec"
  BY MapExact
<1> SUFFICES ASSUME NEW t \in DOMAIN ops PROVE Sound(ops'[t])
  BY <1>1 DEF Execution
<1>2. Sound(ops[t]) /\ ops'[t].inst = ops[t].inst
  BY <1>1 DEF Execution, Same
<1>3. CASE ops'[t].notRdy = ops[t].notRdy
  BY <1>1, <1>2, <1>3 DEF Sound, Gives
<1>4. CASE ops[t].stage = "dec"
  <2>1. ops[t].state = "FETCHED"
    BY <1>4 DEF IInv, StateOfStage
  <2>2. QED
    BY <1>1, <1>2, <2>1 DEF Sound, Gives, Busy
<1>5. QED
  BY <1>1, <1>3, <1>4

LEMMA FetchSound ==
    ASSUME IInv, Execution, NEW inst \in Insts, NEW prediction \in Predictions(inst),
           FetchOp(inst, prediction)
    PROVE  Execution'
<1>1. PICK n \in Nat \ {0}, unique \in Nat \ {0} :
         /\ n \notin DOMAIN ops
         /\ DOMAIN ops' = DOMAIN ops \cup {n}
         /\ \A t \in DOMAIN ops : ops'[t] = ops[t]
         /\ ops'[n] = NewOp(inst, prediction, unique)
  BY FetchExact
<1>2. /\ ops'[n].state = "FETCHED" /\ ops'[n].signaled = {}
      /\ ops'[n].executed = FALSE /\ ops'[n].done = FALSE
  BY <1>1 DEF NewOp
<1>3. Sound(ops'[n])
  BY <1>2 DEF Sound, Busy
<1>4. QED
  BY <1>1, <1>3 DEF Execution

LEMMA RecoverFlow == ASSUME IInv, Flow, Recover PROVE Flow'
<1>1. /\ DOMAIN ops' = {t \in DOMAIN ops : ops[t].num <= recovery.num}
      /\ \A t \in DOMAIN ops' : SameStay(ops'[t], ops[t])
  BY RecoverExact
<1>2. recovery.num \in Nat /\ \A t \in DOMAIN ops : ops[t].num \in Nat
  BY Nums DEF IInv, TypeOK
<1>3. Execution'
  <2> SUFFICES ASSUME NEW t \in DOMAIN ops' PROVE Sound(ops'[t])
    BY DEF Execution
  <2>1. /\ Sound(ops[t]) /\ ops'[t].inst = ops[t].inst /\ SameFlow(ops'[t], ops[t])
        /\ ops'[t].executed = ops[t].executed /\ ops'[t].done = ops[t].done
        /\ ops'[t].state = ops[t].state
    BY <1>1 DEF Flow, Execution, SameStay, Same
  <2>2. QED
    BY <2>1, SoundStays
<1>4. ASSUME NEW t \in DOMAIN ops', ops[t].stage \in {"map", "node"}, NEW d \in ops[t].notRdy
      PROVE  d.ref.slot \in DOMAIN ops'
  <2>1. Valid(ops, d.ref)
    BY <1>1, <1>4 DEF Flow, WakeLists
  <2>2. d.ref.slot \in DOMAIN ops /\ ops[d.ref.slot].num < ops[t].num
    BY <1>1, <1>4, <2>1 DEF Flow, SourcesOlder, Valid
  <2>3. QED
    BY <1>1, <1>2, <2>2
<1>5. WakeLists' /\ SourcesOlder' /\ SourcesAwaited'
  <2>1. \A x \in DOMAIN ops \ DOMAIN ops' : \A s, t \in DOMAIN ops' :
           ops[x].num < ops[s].num => ops[x].num <= ops[t].num
    BY <1>1, <1>2
  <2>2. /\ DOMAIN ops' \subseteq DOMAIN ops
        /\ \A t \in DOMAIN ops' :
             /\ Same(ops'[t], ops[t]) /\ SameFlow(ops'[t], ops[t])
             /\ ops'[t].stage = ops[t].stage
    BY <1>1 DEF SameStay
  <2>3. QED
    BY <1>4, <2>1, <2>2, LeaveFlow DEF Flow
<1>6. QED
  BY <1>3, <1>5 DEF Flow

\* Nobody waits for an op that retires: it is done, so it has signaled.
LEMMA RetireFlow == ASSUME IInv, Flow, Retire PROVE Flow'
<1>1. PICK s \in Node :
         /\ CanRetire(s)
         /\ \A t \in DOMAIN ops : t # s => ops[s].num < ops[t].num
         /\ DOMAIN ops' = DOMAIN ops \ {s}
         /\ \A t \in DOMAIN ops' : ops'[t] = ops[t]
  BY RetireExact
<1>2. s \in DOMAIN ops /\ ops[s].done /\ \A t \in DOMAIN ops : ops[t].num \in Nat
  BY <1>1, Nums DEF Node, In, CanRetire
<1>3. Gives(ops[s]) \in ops[s].signaled
  BY <1>2 DEF Flow, Execution, Sound
<1>4. Execution'
  BY <1>1 DEF Flow, Execution
<1>5. ASSUME NEW t \in DOMAIN ops', ops[t].stage \in {"map", "node"}, NEW d \in ops[t].notRdy
      PROVE  d.ref.slot \in DOMAIN ops'
  <2>1. Valid(ops, d.ref) /\ d.type \notin ops[d.ref.slot].signaled
    BY <1>1, <1>5 DEF Flow, WakeLists
  <2>2. d.ref.slot \in DOMAIN ops /\ d.type = Gives(ops[d.ref.slot])
    BY <1>1, <1>5, <2>1 DEF Flow, SourcesOlder, Valid
  <2>3. QED
    BY <1>1, <1>3, <2>1, <2>2
<1>6. WakeLists' /\ SourcesOlder' /\ SourcesAwaited'
  <2>1. \A x \in DOMAIN ops \ DOMAIN ops' : \A u, t \in DOMAIN ops' :
           ops[x].num < ops[u].num => ops[x].num <= ops[t].num
    BY <1>1, <1>2
  <2>2. /\ DOMAIN ops' \subseteq DOMAIN ops
        /\ \A t \in DOMAIN ops' :
             /\ Same(ops'[t], ops[t]) /\ SameFlow(ops'[t], ops[t])
             /\ ops'[t].stage = ops[t].stage
    BY <1>1 DEF Same, SameFlow
  <2>3. QED
    BY <1>5, <2>1, <2>2, LeaveFlow DEF Flow
<1>7. QED
  BY <1>4, <1>6 DEF Flow

LEMMA SupplyFlow ==
    ASSUME IInv, Flow, NEW s \in DOMAIN ops, ops[s].state \in Busy, Supply(s)
    PROVE  Flow'
<1>1. /\ DOMAIN ops' = DOMAIN ops
      /\ \A t \in DOMAIN ops : Same(ops'[t], ops[t]) /\ ops'[t].stage = ops[t].stage
      /\ ops[s].inst.mem = "store" => \A t \in DOMAIN ops : SameFlow(ops'[t], ops[t])
      /\ ops[s].inst.mem # "store" => \A t \in DOMAIN ops : Heard(ops, s, "reg", t, ops'[t])
  BY SupplyExact DEF SameFront
<1>2. Execution'
  BY SupplySound DEF Flow
<1>3. WakeLists' /\ SourcesOlder' /\ SourcesAwaited'
  <2>1. CASE ops[s].inst.mem = "store"
    BY <1>1, <2>1, StillStep DEF Flow
  <2>2. CASE ops[s].inst.mem # "store"
    BY <1>1, <2>2, WakeStep DEF Flow, DepTypes
  <2>3. QED
    BY <2>1, <2>2
<1>4. QED
  BY <1>2, <1>3 DEF Flow

LEMMA AccessFlow ==
    ASSUME IInv, Flow, NEW f \in FUs, NEW outcome \in Outcomes, DcacheAccess(f, outcome)
    PROVE  Flow'
<1>1. PICK s : s = AtDcache(f)
  OBVIOUS
<1>2. /\ s \in DOMAIN ops /\ ops[s].state \in Busy
      /\ \/ UNCHANGED ops
         \/ Supply(s)
         \/ OnlyState(s, "MISS") \/ OnlyState(s, "WAIT_DCACHE") \/ OnlyState(s, "WAIT_MEM")
  BY <1>1, AccessExact
<1>3. CASE Supply(s)
  BY <1>2, <1>3, SupplyFlow
<1>4. CASE UNCHANGED ops \/ \E state : OnlyState(s, state)
  <2>1. /\ DOMAIN ops' = DOMAIN ops
        /\ \A t \in DOMAIN ops : /\ Same(ops'[t], ops[t]) /\ SameFlow(ops'[t], ops[t])
                                 /\ ops'[t].stage = ops[t].stage
    BY <1>4 DEF OnlyState, Same, SameFlow, SameFront
  <2>2. WakeLists' /\ SourcesOlder' /\ SourcesAwaited'
    BY <2>1, StillStep DEF Flow
  <2>3. QED
    BY <2>2, AccessSound DEF Flow
<1>5. QED
  BY <1>2, <1>3, <1>4

LEMMA LatchFlow == ASSUME IInv, Flow, NEW f \in FUs, Latch(f) PROVE Flow'
<1>1. PICK s : s = sched[f]
  OBVIOUS
<1>2. Execution
  BY DEF Flow
<1>3. /\ s \in DOMAIN ops
      /\ DOMAIN ops' = DOMAIN ops
      /\ \A t \in DOMAIN ops : Same(ops'[t], ops[t]) /\ ops'[t].stage = ops[t].stage
      /\ ops[s].inst.mem = "load" => \A t \in DOMAIN ops : SameFlow(ops'[t], ops[t])
      /\ ops[s].inst.mem # "load" =>
           \A t \in DOMAIN ops : Heard(ops, s, Gives(ops[s]), t, ops'[t])
  BY <1>1, <1>2, LatchExact
<1>4. WakeLists' /\ SourcesOlder' /\ SourcesAwaited'
  <2>1. CASE ops[s].inst.mem = "load"
    BY <1>3, <2>1, StillStep DEF Flow
  <2>2. CASE ops[s].inst.mem # "load"
    <3>1. Gives(ops[s]) \in DepTypes
      BY DEF Gives, DepTypes
    <3>2. QED
      BY <1>3, <2>2, <3>1, WakeStep DEF Flow
  <2>3. QED
    BY <2>1, <2>2
<1>5. QED
  BY <1>2, <1>4, LatchSound DEF Flow

\* The ops stay as they are.
LEMMA StayFlow ==
    ASSUME IInv, Flow, DOMAIN ops' = DOMAIN ops,
           \A t \in DOMAIN ops :
              /\ Same(ops'[t], ops[t]) /\ SameFlow(ops'[t], ops[t])
              /\ ops'[t].executed = ops[t].executed /\ ops'[t].done = ops[t].done
              /\ ops'[t].state = ops[t].state
              /\ ops'[t].stage \in {"map", "node"} => ops[t].stage \in {"map", "node"}
    PROVE  Flow'
<1>1. Execution'
  <2> SUFFICES ASSUME NEW t \in DOMAIN ops PROVE Sound(ops'[t])
    BY DEF Execution
  <2>1. Sound(ops[t]) /\ ops'[t].inst = ops[t].inst
    BY DEF Flow, Execution, Same
  <2>2. QED
    BY <2>1, SoundStays
<1>2. WakeLists' /\ SourcesOlder' /\ SourcesAwaited'
  BY StillStep DEF Flow
<1>3. QED
  BY <1>1, <1>2 DEF Flow

LEMMA FlowNext ==
    ASSUME ~WidthReached, IInv, IInv', Flow, PathMarked, Maps, [Next]_vars
    PROVE  Flow'
<1>1. CASE Recover
  BY <1>1, RecoverFlow
<1>2. CASE Redirect
  <2>1. redirect.slot \in DOMAIN ops \/ redirect.slot \notin DOMAIN ops
    OBVIOUS
  <2>2. CASE redirect.slot \in DOMAIN ops
    BY <1>2, <2>2, RedirectExact, StayFlow
  <2>3. CASE redirect.slot \notin DOMAIN ops
    <3>1. ops' = ops
      BY <1>2, <2>3 DEF Redirect, IInv, TypeOK
    <3>2. QED
      BY <3>1, StayFlow DEF Same, SameFlow
  <2>4. QED
    BY <2>1, <2>2, <2>3
<1>3. CASE \E ref \in misses : DcacheFill(ref)
  <2>1. PICK ref \in misses : DcacheFill(ref)
    BY <1>3
  <2>2. CASE Valid(ops, ref)
    <3>1. Supply(ref.slot) /\ ref.slot \in DOMAIN ops /\ ops[ref.slot].state \in Busy
      BY <2>1, <2>2 DEF DcacheFill, Valid, IInv, InUnits
    <3>2. QED
      BY <3>1, SupplyFlow
  <2>3. CASE ~Valid(ops, ref)
    <3>1. ops' = ops
      BY <2>1, <2>3 DEF DcacheFill
    <3>2. QED
      BY <3>1, StayFlow DEF Same, SameFlow
  <2>4. QED
    BY <2>2, <2>3
<1>4. CASE \E f \in FUs, outcome \in Outcomes : DcacheAccess(f, outcome)
  BY <1>4, AccessFlow
<1>5. CASE \E f \in FUs : Latch(f)
  BY <1>5, LatchFlow
<1>6. CASE Issue
  <2>1. /\ DOMAIN ops' = DOMAIN ops
        /\ \A t \in DOMAIN ops :
             /\ Same(ops'[t], ops[t]) /\ SameFlow(ops'[t], ops[t])
             /\ ops'[t].stage \in {"map", "node"} => ops[t].stage \in {"map", "node"}
    BY <1>6, IssueExact
  <2>2. QED
    BY <1>6, <2>1, IssueSound, StillStep DEF Flow
<1>7. CASE \E r \in Stations : FillRS(r)
  <2>1. PICK r \in Stations : FillRS(r)
    BY <1>7
  <2>2. OnlyState(nextIntoRS, IF ops[nextIntoRS].notRdy = {} THEN "READY" ELSE "IN_RS")
    BY <2>1, FillExact
  <2>3. /\ DOMAIN ops' = DOMAIN ops
        /\ \A t \in DOMAIN ops : /\ Same(ops'[t], ops[t]) /\ SameFlow(ops'[t], ops[t])
                                 /\ ops'[t].stage = ops[t].stage
    BY <2>2 DEF OnlyState, SameFront
  <2>4. QED
    BY <2>1, <2>3, FillSound, StillStep DEF Flow
<1>8. CASE Retire
  BY <1>8, RetireFlow
<1>9. CASE MapStage
  BY <1>9, MapFlow, MapSound DEF Flow
<1>10. CASE DecodeStage
  <2>1. /\ DOMAIN ops' = DOMAIN ops
        /\ \A t \in DOMAIN ops :
             /\ Same(ops'[t], ops[t]) /\ SameFlow(ops'[t], ops[t])
             /\ ops'[t].executed = ops[t].executed /\ ops'[t].done = ops[t].done
             /\ ops'[t].state = ops[t].state
             /\ ops'[t].stage \in {"map", "node"} => ops[t].stage \in {"map", "node"}
    BY <1>10, DecodeExact
  <2>2. QED
    BY <2>1, StayFlow
<1>11. CASE \E inst \in Insts : \E prediction \in Predictions(inst) : FetchOp(inst, prediction)
  BY <1>11, FetchFlow, FetchSound DEF Flow
<1>12. CASE UNCHANGED ops
  BY <1>12, StayFlow DEF Same, SameFlow
<1>13. Next => \/ Recover \/ Redirect \/ (\E ref \in misses : DcacheFill(ref))
               \/ (\E f \in FUs, outcome \in Outcomes : DcacheAccess(f, outcome))
               \/ (\E f \in FUs : Latch(f)) \/ Issue \/ (\E r \in Stations : FillRS(r))
               \/ Retire \/ MapStage \/ DecodeStage
               \/ (\E inst \in Insts : \E prediction \in Predictions(inst) :
                      FetchOp(inst, prediction))
               \/ UNCHANGED ops
  BY DEF Next, NoStream, IcacheFill, MemoryDone, DcacheDone, Reject, ExecDone, IssueDone,
         HandleScheduled, FillDone, RetireDone, FetchEnd, FetchMiss, FetchIdle, Schedule
<1>14. QED
  BY Zenon, <1>1, <1>2, <1>3, <1>4, <1>5, <1>6, <1>7, <1>8, <1>9, <1>10, <1>11, <1>12, <1>13
     DEF vars
-----------------------------------------------------------------------------
(* The maps, action by action.                                              *)

LEMMA MapsStay ==
    ASSUME Maps, DOMAIN ops' = DOMAIN ops, \A t \in DOMAIN ops : Same(ops'[t], ops[t]),
           UNCHANGED maps
    PROVE  Maps'
<1>1. /\ \A t \in DOMAIN ops : RefTo(ops', t) = RefTo(ops, t)
      /\ \A ref : Valid(ops', ref) <=> Valid(ops, ref)
      /\ \A r : Writers(r)' = Writers(r)
      /\ \A a : Stores(a)' = Stores(a)
  BY SameRefs
<1>2. /\ \A r : OnOf(Writers(r))' = OnOf(Writers(r)) /\ OffOf(Writers(r))' = OffOf(Writers(r))
      /\ \A a : OnOf(Stores(a))' = OnOf(Stores(a)) /\ OffOf(Stores(a))' = OffOf(Stores(a))
  BY DEF Same, OnOf, OffOf, Writers, Stores
<1>3. ASSUME NEW s, NEW S \in SUBSET DOMAIN ops
      PROVE  LastOf(s, S)' <=> LastOf(s, S)
  BY DEF Same, LastOf
<1>4. /\ \A r : OnOf(Writers(r)) \in SUBSET DOMAIN ops /\ OffOf(Writers(r)) \in SUBSET DOMAIN ops
      /\ \A a : OnOf(Stores(a)) \in SUBSET DOMAIN ops /\ OffOf(Stores(a)) \in SUBSET DOMAIN ops
  BY DEF OnOf, OffOf, Writers, Stores
<1>5. /\ \A s, r : LastOf(s, OnOf(Writers(r)))' <=> LastOf(s, OnOf(Writers(r)))
      /\ \A s, r : LastOf(s, OffOf(Writers(r)))' <=> LastOf(s, OffOf(Writers(r)))
      /\ \A s, a : LastOf(s, OnOf(Stores(a)))' <=> LastOf(s, OnOf(Stores(a)))
      /\ \A s, a : LastOf(s, OffOf(Stores(a)))' <=> LastOf(s, OffOf(Stores(a)))
  BY <1>2, <1>3, <1>4 DEF LastOf
<1>6. RegMapExact'
  BY <1>1, <1>2, <1>5 DEF Maps, RegMapExact, maps
<1>7. StoreMapExact'
  BY <1>1, <1>2, <1>5 DEF Maps, StoreMapExact, maps
<1>8. QED
  BY <1>6, <1>7 DEF Maps

\* The op that retires is on the path and the oldest of all.
LEMMA RetireMaps == ASSUME IInv, Maps, Retire PROVE Maps'
<1>1. PICK s \in Node :
         /\ CanRetire(s)
         /\ \A t \in DOMAIN ops : t # s => ops[s].num < ops[t].num
         /\ DOMAIN ops' = DOMAIN ops \ {s}
         /\ \A t \in DOMAIN ops' : ops'[t] = ops[t]
         /\ storeMap' = FreeStores(storeMap, {s})
  BY RetireExact
<1>2. s \in DOMAIN ops /\ ~ops[s].offPath /\ \A t \in DOMAIN ops : ops[t].num \in Nat
  BY <1>1, Nums DEF Node, In, CanRetire
<1>3. /\ \A r : /\ OnOf(Writers(r))' = OnOf(Writers(r)) \ {s}
                /\ OffOf(Writers(r))' = OffOf(Writers(r))
      /\ \A a : /\ OnOf(Stores(a))' = OnOf(Stores(a)) \ {s}
                /\ OffOf(Stores(a))' = OffOf(Stores(a))
  BY <1>1, <1>2 DEF OnOf, OffOf, Writers, Stores
<1>4. ASSUME NEW S \in SUBSET DOMAIN ops, NEW T, S \ {s} = T, NEW t, LastOf(t, T)'
      PROVE  LastOf(t, S) /\ t \in DOMAIN ops' /\ t # s
  BY <1>1, <1>2, <1>4 DEF LastOf
<1>5. /\ \A r : OnOf(Writers(r)) \in SUBSET DOMAIN ops /\ OffOf(Writers(r)) \in SUBSET DOMAIN ops
      /\ \A a : OnOf(Stores(a)) \in SUBSET DOMAIN ops /\ OffOf(Stores(a)) \in SUBSET DOMAIN ops
      /\ \A r : s \notin OffOf(Writers(r))
      /\ \A a : s \notin OffOf(Stores(a))
  BY <1>2 DEF OnOf, OffOf, Writers, Stores
<1>6. /\ \A t, r : LastOf(t, OnOf(Writers(r)))'
                     => LastOf(t, OnOf(Writers(r))) /\ t \in DOMAIN ops' /\ t # s
      /\ \A t, a : LastOf(t, OnOf(Stores(a)))'
                     => LastOf(t, OnOf(Stores(a))) /\ t \in DOMAIN ops' /\ t # s
  BY <1>3, <1>4, <1>5 DEF LastOf
<1>7. /\ \A t, r : LastOf(t, OffOf(Writers(r)))'
                     => LastOf(t, OffOf(Writers(r))) /\ t \in DOMAIN ops' /\ t # s
      /\ \A t, a : LastOf(t, OffOf(Stores(a)))'
                     => LastOf(t, OffOf(Stores(a))) /\ t \in DOMAIN ops' /\ t # s
  BY <1>3, <1>4, <1>5 DEF LastOf
<1>8. /\ \A t \in DOMAIN ops' : RefTo(ops', t) = RefTo(ops, t)
      /\ \A ref : Valid(ops', ref) => Valid(ops, ref) /\ ref.slot # s
  BY <1>1 DEF RefTo, Valid
<1>9. RegMapExact'
  <2>1. regMap' = regMap
    BY DEF Retire
  <2>2. QED
    BY <1>1, <1>3, <1>6, <1>7, <1>8, <2>1 DEF Maps, RegMapExact
<1>10. StoreMapExact'
  <2> SUFFICES ASSUME NEW a \in Addrs
               PROVE  /\ \A t \in DOMAIN ops' : LastOf(t, OnOf(Stores(a)))' => storeMap'[a].on = t
                      /\ storeMap'[a].on # 0 => storeMap'[a].on \in OnOf(Stores(a))'
                      /\ \A t \in DOMAIN ops' : LastOf(t, OffOf(Stores(a)))' => storeMap'[a].off = t
                      /\ storeMap'[a].flag <=> OffOf(Stores(a))' # {}
    BY DEF StoreMapExact
  <2> DEFINE on  == IF storeMap[a].on \in {s} THEN 0 ELSE storeMap[a].on
             off == IF storeMap[a].off \in {s} THEN 0 ELSE storeMap[a].off
             flag == storeMap[a].flag /\ <<on, off>> # <<0, 0>>
  <2>1. storeMap'[a] = [on |-> on, off |-> off, flag |-> flag]
    BY <1>1 DEF FreeStores
  <2>2. /\ \A t \in DOMAIN ops : LastOf(t, OnOf(Stores(a))) => storeMap[a].on = t
        /\ storeMap[a].on # 0 => storeMap[a].on \in OnOf(Stores(a))
        /\ \A t \in DOMAIN ops : LastOf(t, OffOf(Stores(a))) => storeMap[a].off = t
        /\ storeMap[a].flag <=> OffOf(Stores(a)) # {}
    BY DEF Maps, StoreMapExact
  <2>3. flag <=> OffOf(Stores(a)) # {}
    <3>1. ASSUME OffOf(Stores(a)) # {} PROVE off # 0
      <4>1. PICK t \in OffOf(Stores(a)) : LastOf(t, OffOf(Stores(a)))
        BY <1>5, <3>1, HasLast
      <4>2. t \in DOMAIN ops /\ t # s /\ t # 0
        BY <1>5, <4>1 DEF IInv, TypeOK
      <4>3. storeMap[a].off = t
        BY <2>2, <4>1, <4>2
      <4>4. QED
        BY <4>2, <4>3
    <3> HIDE DEF on, off
    <3>2. QED
      BY <2>2, <3>1
  <2>4. \A t \in DOMAIN ops' : LastOf(t, OnOf(Stores(a)))' => on = t
    BY <1>1, <1>6, <2>2
  <2>5. on # 0 => on \in OnOf(Stores(a))'
    BY <1>3, <2>2
  <2>6. \A t \in DOMAIN ops' : LastOf(t, OffOf(Stores(a)))' => off = t
    BY <1>1, <1>7, <2>2
  <2>7. flag \in BOOLEAN
    BY Zenon
  <2> HIDE DEF on, off, flag
  <2>8. storeMap'[a].on = on /\ storeMap'[a].off = off /\ storeMap'[a].flag = flag
    BY <2>1
  <2>9. QED
    BY <1>3, <2>3, <2>4, <2>5, <2>6, <2>7, <2>8
<1>11. QED
  BY <1>9, <1>10 DEF Maps

\* A recovery flushes no op of the path.
LEMMA FlushedOff ==
    ASSUME IInv, PathMarked, RecoveryOwner, recovery.num > 0,
           NEW t \in DOMAIN ops, ops[t].num > recovery.num
    PROVE  ops[t].offPath
<1>1. PICK s \in Node : /\ ops[s].num = recovery.num /\ ops[s].wrong
                        /\ ops[s].recoverySched \/ ops[s].offPath
  BY DEF RecoveryOwner
<1>2. s \in DOMAIN ops /\ ops[s].num \in Nat /\ ops[t].num \in Nat
  BY <1>1, Nums DEF Node, In
<1>3. ops[s].num < ops[t].num
  BY <1>1, <1>2
<1>4. CASE ops[s].offPath
  <2>1. ~ops[t].offPath => ops[t].num < ops[s].num
    BY <1>2, <1>4, OffPathYounger
  <2>2. QED
    BY <1>2, <1>3, <2>1
<1>5. CASE ~ops[s].offPath
  BY <1>1, <1>2, <1>3, <1>5 DEF PathMarked, Unresolved, Before
<1>6. QED
  BY <1>4, <1>5

LEMMA YoungestIn ==
    ASSUME IInv, NEW live, DOMAIN live \subseteq DOMAIN ops,
           \A t \in DOMAIN live : live[t].num = ops[t].num,
           NEW S \in SUBSET DOMAIN live, S # {}
    PROVE  /\ Youngest(live, S) \in S
           /\ \A t \in S : (\A u \in S : live[u].num <= live[t].num) => Youngest(live, S) = t
<1>1. S \in SUBSET DOMAIN ops
  OBVIOUS
<1>2. PICK s \in S : LastOf(s, S)
  BY <1>1, HasLast
<1>3. \E t \in S : \A u \in S : live[u].num <= live[t].num
  BY <1>2 DEF LastOf
<1>4. Youngest(live, S) \in S /\ \A u \in S : live[u].num <= live[Youngest(live, S)].num
  BY <1>3 DEF Youngest
<1>5. PICK y : y = Youngest(live, S)
  OBVIOUS
<1>6. \A t \in S : (\A u \in S : live[u].num <= live[t].num) => y = t
  BY <1>4, <1>5, Nums
<1>7. QED
  BY <1>4, <1>5, <1>6

LEMMA RecoverMaps ==
    ASSUME IInv, Maps, PathMarked, RecoveryOwner, Recover
    PROVE  Maps'
<1> DEFINE gone == {s \in DOMAIN ops : ops[s].num > recovery.num}
<1>1. /\ DOMAIN ops' = {t \in DOMAIN ops : ops[t].num <= recovery.num}
      /\ \A t \in DOMAIN ops' : Same(ops'[t], ops[t])
  BY RecoverExact DEF SameStay
<1>2. /\ regMap' = RecoverRegs(regMap, ops')
      /\ storeMap' = FreeStores(RecoverStores(storeMap, ops'), gone)
      /\ recovery.num > 0
  BY Zenon DEF Recover
<1>3. /\ DOMAIN ops' \subseteq DOMAIN ops
      /\ \A t \in DOMAIN ops' : ops'[t].num = ops[t].num /\ RefTo(ops', t) = RefTo(ops, t)
      /\ \A t \in DOMAIN ops : t \in gone <=> t \notin DOMAIN ops'
      /\ \A t \in gone : t \in DOMAIN ops /\ ops[t].offPath
      /\ 0 \notin gone /\ 0 \notin DOMAIN ops'
  <2>1. recovery.num \in Nat /\ DOMAIN ops \subseteq Nat \ {0}
    BY DEF IInv, TypeOK
  <2>2. QED
    BY <1>1, <1>2, <2>1, Nums, FlushedOff DEF Same, RefTo
<1>4. /\ \A r : OnOf(Writers(r))' = OnOf(Writers(r))
      /\ \A a : OnOf(Stores(a))' = OnOf(Stores(a))
  BY <1>1, <1>3 DEF OnOf, Writers, Stores, Same
<1>5. /\ \A r : OffOf(Writers(r))' = OffWriters(ops', r) /\ OffWriters(ops', r) \subseteq DOMAIN ops'
      /\ \A a : OffOf(Stores(a))' = OffStores(ops', a) /\ OffStores(ops', a) \subseteq DOMAIN ops'
  BY DEF OffOf, Writers, Stores, OffWriters, OffStores
<1>6. /\ \A t, r : LastOf(t, OnOf(Writers(r)))' => LastOf(t, OnOf(Writers(r)))
      /\ \A t, a : LastOf(t, OnOf(Stores(a)))' => LastOf(t, OnOf(Stores(a)))
  <2>1. ASSUME NEW S \in SUBSET DOMAIN ops', NEW t, LastOf(t, S)' PROVE LastOf(t, S)
    BY <1>3, <2>1 DEF LastOf
  <2>2. /\ \A r : OnOf(Writers(r))' \in SUBSET DOMAIN ops'
        /\ \A a : OnOf(Stores(a))' \in SUBSET DOMAIN ops'
    BY DEF OnOf, Writers, Stores
  <2>3. QED
    BY <1>4, <2>1, <2>2 DEF LastOf
<1>7. ASSUME NEW S \in SUBSET DOMAIN ops', S # {}
      PROVE  /\ Youngest(ops', S) \in S
             /\ \A t : LastOf(t, S)' => Youngest(ops', S) = t
  <2>1. PICK live : live = ops'
    OBVIOUS
  <2>2. /\ Youngest(live, S) \in S
        /\ \A t \in S : (\A u \in S : live[u].num <= live[t].num) => Youngest(live, S) = t
    BY <1>3, <1>7, <2>1, YoungestIn
  <2>3. QED
    BY <2>1, <2>2 DEF LastOf
<1>8. RegMapExact'
  <2> SUFFICES ASSUME NEW r \in Regs
               PROVE  /\ \A t \in DOMAIN ops' :
                           LastOf(t, OnOf(Writers(r)))' => regMap'[r].on = RefTo(ops', t)
                      /\ Valid(ops', regMap'[r].on) => regMap'[r].on.slot \in OnOf(Writers(r))'
                      /\ \A t \in DOMAIN ops' :
                           LastOf(t, OffOf(Writers(r)))' => regMap'[r].off = RefTo(ops', t)
                      /\ regMap'[r].flag <=> OffOf(Writers(r))' # {}
    BY DEF RegMapExact
  <2>1. regMap[r] \in RegEntry
    BY DEF IInv, TypeOK, RegEntry
  <2>2. regMap'[r] = IF OffWriters(ops', r) = {} THEN [regMap[r] EXCEPT !.flag = FALSE]
                     ELSE [regMap[r] EXCEPT
                             !.off = RefTo(ops', Youngest(ops', OffWriters(ops', r))),
                             !.flag = TRUE]
    BY <1>2 DEF RecoverRegs
  <2>3. /\ regMap'[r].on = regMap[r].on
        /\ regMap'[r].flag <=> OffWriters(ops', r) # {}
        /\ OffWriters(ops', r) # {}
             => regMap'[r].off = RefTo(ops', Youngest(ops', OffWriters(ops', r)))
    BY <2>1, <2>2 DEF RegEntry
  <2>4. /\ \A t \in DOMAIN ops : LastOf(t, OnOf(Writers(r))) => regMap[r].on = RefTo(ops, t)
        /\ Valid(ops, regMap[r].on) => regMap[r].on.slot \in OnOf(Writers(r))
    BY DEF Maps, RegMapExact
  <2>5. \A ref : Valid(ops', ref) => Valid(ops, ref)
    BY <1>1, <1>3 DEF Valid, Same
  <2>6. ASSUME NEW t, LastOf(t, OffOf(Writers(r)))' PROVE regMap'[r].off = RefTo(ops', t)
    <3>1. PICK S : S = OffWriters(ops', r)
      OBVIOUS
    <3>2. S \in SUBSET DOMAIN ops' /\ S # {} /\ LastOf(t, S)'
      BY <1>5, <2>6, <3>1 DEF LastOf
    <3>3. Youngest(ops', S) = t
      BY <1>7, <3>2
    <3>4. QED
      BY <2>3, <3>1, <3>2, <3>3
  <2>7. QED
    BY <1>3, <1>4, <1>5, <1>6, <2>3, <2>4, <2>5, <2>6
<1>9. StoreMapExact'
  <2> SUFFICES ASSUME NEW a \in Addrs
               PROVE  /\ \A t \in DOMAIN ops' : LastOf(t, OnOf(Stores(a)))' => storeMap'[a].on = t
                      /\ storeMap'[a].on # 0 => storeMap'[a].on \in OnOf(Stores(a))'
                      /\ \A t \in DOMAIN ops' : LastOf(t, OffOf(Stores(a)))' => storeMap'[a].off = t
                      /\ storeMap'[a].flag <=> OffOf(Stores(a))' # {}
    BY DEF StoreMapExact
  <2> DEFINE mid == RecoverStores(storeMap, ops')[a]
             on  == IF mid.on \in gone THEN 0 ELSE mid.on
             off == IF mid.off \in gone THEN 0 ELSE mid.off
             flag == mid.flag /\ <<on, off>> # <<0, 0>>
  <2>1. storeMap'[a] = [on |-> on, off |-> off, flag |-> flag]
    BY <1>2 DEF FreeStores
  <2>2. storeMap[a] \in StoreEntry(DOMAIN ops \cup {0})
    BY DEF IInv, TypeOK, Pointer, StoreEntry
  <2>3. mid = IF OffStores(ops', a) = {} THEN [storeMap[a] EXCEPT !.flag = FALSE]
              ELSE [storeMap[a] EXCEPT !.off = Youngest(ops', OffStores(ops', a)),
                                       !.flag = TRUE]
    BY DEF RecoverStores
  <2> HIDE DEF mid
  <2>4. /\ mid.on = storeMap[a].on
        /\ mid.flag <=> OffStores(ops', a) # {}
        /\ OffStores(ops', a) # {} => mid.off = Youngest(ops', OffStores(ops', a))
    BY <2>2, <2>3 DEF StoreEntry
  <2>5. /\ \A t \in DOMAIN ops : LastOf(t, OnOf(Stores(a))) => storeMap[a].on = t
        /\ storeMap[a].on # 0 => storeMap[a].on \in OnOf(Stores(a))
    BY DEF Maps, StoreMapExact
  <2>6. on = storeMap[a].on
    <3>1. storeMap[a].on # 0 => storeMap[a].on \notin gone
      BY <1>3, <2>5 DEF OnOf
    <3> HIDE DEF gone
    <3>2. QED
      BY <1>3, <2>4, <3>1
  <2>7. ASSUME OffStores(ops', a) # {}
        PROVE  /\ off = Youngest(ops', OffStores(ops', a)) /\ off # 0
               /\ \A t : LastOf(t, OffOf(Stores(a)))' => off = t
    <3>1. PICK S : S = OffStores(ops', a)
      OBVIOUS
    <3>2. S \in SUBSET DOMAIN ops' /\ S # {}
      BY <1>5, <2>7, <3>1
    <3>3. /\ Youngest(ops', S) \in S
          /\ \A t : LastOf(t, S)' => Youngest(ops', S) = t
      BY <1>7, <3>2
    <3>4. mid.off = Youngest(ops', S) /\ mid.off \notin gone /\ mid.off # 0
      BY <1>3, <2>4, <3>1, <3>2, <3>3
    <3> HIDE DEF gone
    <3>5. off = Youngest(ops', S) /\ off # 0
      BY <3>4
    <3> HIDE DEF off
    <3>6. QED
      BY <1>5, <3>1, <3>3, <3>5 DEF LastOf
  <2>8. flag \in BOOLEAN
    BY Zenon
  <2>9. flag <=> OffStores(ops', a) # {}
    <3> HIDE DEF on, off
    <3> QED  BY <2>4, <2>7
  <2> HIDE DEF on, off, flag, gone
  <2>10. storeMap'[a].on = on /\ storeMap'[a].off = off /\ storeMap'[a].flag = flag
    BY <2>1
  <2>11. \A t : LastOf(t, OffOf(Stores(a)))' => OffStores(ops', a) # {}
    BY <1>5 DEF LastOf
  <2>12. QED
    BY <1>3, <1>4, <1>5, <1>6, <2>5, <2>6, <2>7, <2>8, <2>9, <2>10, <2>11
<1>10. QED
  BY <1>8, <1>9 DEF Maps

\* A fetched op becomes the last writer, on its side of the path.
LEMMA FetchMaps ==
    ASSUME IInv, Maps, PathMarked,
           NEW inst \in Insts, NEW prediction \in Predictions(inst), FetchOp(inst, prediction)
    PROVE  Maps'
<1>1. PICK n \in Nat \ {0}, unique \in Nat \ {0} :
         /\ n \notin DOMAIN ops /\ unique \notin References
         /\ DOMAIN ops' = DOMAIN ops \cup {n}
         /\ \A t \in DOMAIN ops : ops'[t] = ops[t]
         /\ ops'[n] = NewOp(inst, prediction, unique)
         /\ regMap' = WriteRegs(regMap, inst.dests, [slot |-> n, unique |-> unique], OffPath)
         /\ storeMap' = IF inst.mem = "store"
                        THEN WriteStore(storeMap, inst.addr, n, OffPath) ELSE storeMap
  BY FetchExact
<1>2. /\ ops'[n].unique = unique /\ ops'[n].num = fetch.opCount /\ ops'[n].inst = inst
      /\ ops'[n].offPath <=> OffPath
  BY <1>1 DEF NewOp
<1>3. ~OffPath => \A t \in DOMAIN ops : ~ops[t].offPath
  BY DEF PathMarked, Before
<1>4. /\ \A r : Writers(r)' = Writers(r) \cup (IF r \in inst.dests THEN {n} ELSE {})
      /\ \A a : Stores(a)' = Stores(a)
                  \cup (IF inst.mem = "store" /\ inst.addr = a THEN {n} ELSE {})
      /\ \A r : Writers(r) \subseteq DOMAIN ops
      /\ \A a : Stores(a) \subseteq DOMAIN ops
  BY <1>1, <1>2 DEF Writers, Stores
<1>5. ASSUME NEW S \in SUBSET DOMAIN ops, NEW T, T = S
      PROVE  /\ OnOf(T)' = OnOf(S) /\ OffOf(T)' = OffOf(S)
             /\ \A t : LastOf(t, OnOf(T))' <=> LastOf(t, OnOf(S))
             /\ \A t : LastOf(t, OffOf(T))' <=> LastOf(t, OffOf(S))
  BY <1>1, <1>5 DEF OnOf, OffOf, LastOf
<1>6. ASSUME NEW S \in SUBSET DOMAIN ops, NEW T, T = S \cup {n}, OffPath
      PROVE  /\ OnOf(T)' = OnOf(S) /\ OffOf(T)' # {}
             /\ \A t : LastOf(t, OnOf(T))' <=> LastOf(t, OnOf(S))
             /\ \A t : LastOf(t, OffOf(T))' => t = n
  <2>1. OnOf(T)' = OnOf(S) /\ OffOf(T)' = OffOf(S) \cup {n}
    BY <1>1, <1>2, <1>6 DEF OnOf, OffOf
  <2>2. \A t : LastOf(t, OnOf(T))' <=> LastOf(t, OnOf(S))
    BY <1>1, <2>1 DEF OnOf, LastOf
  <2>3. ASSUME NEW t, LastOf(t, OffOf(T))' PROVE t = n
    <3>1. t \in S \cup {n} /\ ops'[n].num <= ops'[t].num
      BY <2>1, <2>3 DEF LastOf, OffOf
    <3>2. QED
      BY <1>1, <1>2, <3>1, Nums
  <2>4. QED
    BY <2>1, <2>2, <2>3
<1>7. ASSUME NEW S \in SUBSET DOMAIN ops, NEW T, T = S \cup {n}, ~OffPath
      PROVE  /\ n \in OnOf(T)' /\ OffOf(T)' = {} /\ OffOf(S) = {}
             /\ \A t : LastOf(t, OnOf(T))' => t = n
             /\ \A t : ~LastOf(t, OffOf(T))'
  <2>1. n \in OnOf(T)' /\ OffOf(T)' = {} /\ OffOf(S) = {}
    BY <1>1, <1>2, <1>3, <1>7 DEF OnOf, OffOf
  <2>2. ASSUME NEW t, LastOf(t, OnOf(T))' PROVE t = n
    <3>1. t \in S \cup {n} /\ ops'[n].num <= ops'[t].num
      BY <1>7, <2>1, <2>2 DEF LastOf, OnOf
    <3>2. QED
      BY <1>1, <1>2, <3>1, Nums
  <2>3. QED
    BY <2>1, <2>2 DEF LastOf
<1>8. /\ \A t \in DOMAIN ops : RefTo(ops', t) = RefTo(ops, t)
      /\ RefTo(ops', n) = [slot |-> n, unique |-> unique]
      /\ \A ref : Valid(ops', ref) /\ ref.unique # unique => Valid(ops, ref)
      /\ \A r \in Regs : regMap[r].on.unique # unique
  BY <1>1, <1>2, FreshReference DEF RefTo, Valid
<1>9. ASSUME NEW r \in Regs
      PROVE  /\ \A t \in DOMAIN ops' :
                  LastOf(t, OnOf(Writers(r)))' => regMap'[r].on = RefTo(ops', t)
             /\ Valid(ops', regMap'[r].on) => regMap'[r].on.slot \in OnOf(Writers(r))'
             /\ \A t \in DOMAIN ops' :
                  LastOf(t, OffOf(Writers(r)))' => regMap'[r].off = RefTo(ops', t)
             /\ regMap'[r].flag <=> OffOf(Writers(r))' # {}
  <2> DEFINE S == Writers(r)
  <2>1. /\ \A t \in DOMAIN ops : LastOf(t, OnOf(S)) => regMap[r].on = RefTo(ops, t)
        /\ Valid(ops, regMap[r].on) => regMap[r].on.slot \in OnOf(S)
        /\ \A t \in DOMAIN ops : LastOf(t, OffOf(S)) => regMap[r].off = RefTo(ops, t)
        /\ regMap[r].flag <=> OffOf(S) # {}
    BY DEF Maps, RegMapExact
  <2>2. S \in SUBSET DOMAIN ops /\ \A t : LastOf(t, OnOf(S)) \/ LastOf(t, OffOf(S)) => t \in DOMAIN ops
    BY <1>4 DEF LastOf, OnOf, OffOf
  <2>3. PICK T : T = Writers(r)'
    OBVIOUS
  <2>4. /\ OnOf(Writers(r))' = OnOf(T)' /\ OffOf(Writers(r))' = OffOf(T)'
        /\ \A t : LastOf(t, OnOf(Writers(r)))' <=> LastOf(t, OnOf(T))'
        /\ \A t : LastOf(t, OffOf(Writers(r)))' <=> LastOf(t, OffOf(T))'
    BY <2>3 DEF OnOf, OffOf, LastOf
  <2>5. T = S \cup (IF r \in inst.dests THEN {n} ELSE {})
    BY <1>4, <2>3
  <2>6. regMap[r] \in RegEntry
    BY DEF IInv, TypeOK, RegEntry
  <2> HIDE DEF S
  <2>7. CASE r \notin inst.dests
    <3>1. regMap'[r] = regMap[r] /\ T = S
      BY <1>1, <2>5, <2>7 DEF WriteRegs
    <3>2. QED
      BY <1>5, <1>8, <2>1, <2>2, <2>4, <3>1
  <2>8. CASE r \in inst.dests /\ OffPath
    <3>1. /\ regMap'[r] = [regMap[r] EXCEPT !.off = [slot |-> n, unique |-> unique],
                                            !.flag = TRUE]
          /\ T = S \cup {n}
      BY <1>1, <2>5, <2>8 DEF WriteRegs
    <3>2. /\ regMap'[r].on = regMap[r].on
          /\ regMap'[r].off = [slot |-> n, unique |-> unique] /\ regMap'[r].flag = TRUE
      BY <2>6, <3>1 DEF RegEntry
    <3>3. QED
      BY <1>6, <1>8, <2>1, <2>2, <2>4, <2>8, <3>1, <3>2
  <2>9. CASE r \in inst.dests /\ ~OffPath
    <3>1. /\ regMap'[r] = [regMap[r] EXCEPT !.on = [slot |-> n, unique |-> unique],
                                            !.flag = FALSE]
          /\ T = S \cup {n}
      BY <1>1, <2>5, <2>9 DEF WriteRegs
    <3>2. regMap'[r].on = [slot |-> n, unique |-> unique] /\ regMap'[r].flag = FALSE
      BY <2>6, <3>1 DEF RegEntry
    <3>3. QED
      BY <1>7, <1>8, <2>2, <2>4, <2>9, <3>1, <3>2
  <2>10. QED
    BY <2>7, <2>8, <2>9
<1>10. ASSUME NEW a \in Addrs
       PROVE  /\ \A t \in DOMAIN ops' : LastOf(t, OnOf(Stores(a)))' => storeMap'[a].on = t
              /\ storeMap'[a].on # 0 => storeMap'[a].on \in OnOf(Stores(a))'
              /\ \A t \in DOMAIN ops' : LastOf(t, OffOf(Stores(a)))' => storeMap'[a].off = t
              /\ storeMap'[a].flag <=> OffOf(Stores(a))' # {}
  <2> DEFINE S == Stores(a)
  <2>1. /\ \A t \in DOMAIN ops : LastOf(t, OnOf(S)) => storeMap[a].on = t
        /\ storeMap[a].on # 0 => storeMap[a].on \in OnOf(S)
        /\ \A t \in DOMAIN ops : LastOf(t, OffOf(S)) => storeMap[a].off = t
        /\ storeMap[a].flag <=> OffOf(S) # {}
    BY DEF Maps, StoreMapExact
  <2>2. S \in SUBSET DOMAIN ops /\ \A t : LastOf(t, OnOf(S)) \/ LastOf(t, OffOf(S)) => t \in DOMAIN ops
    BY <1>4 DEF LastOf, OnOf, OffOf
  <2>3. PICK T : T = Stores(a)'
    OBVIOUS
  <2>4. /\ OnOf(Stores(a))' = OnOf(T)' /\ OffOf(Stores(a))' = OffOf(T)'
        /\ \A t : LastOf(t, OnOf(Stores(a)))' <=> LastOf(t, OnOf(T))'
        /\ \A t : LastOf(t, OffOf(Stores(a)))' <=> LastOf(t, OffOf(T))'
    BY <2>3 DEF OnOf, OffOf, LastOf
  <2>5. T = S \cup (IF inst.mem = "store" /\ inst.addr = a THEN {n} ELSE {})
    BY <1>4, <2>3
  <2>6. /\ storeMap \in [Addrs -> StoreEntry(DOMAIN ops \cup {0})]
        /\ storeMap[a] \in StoreEntry(DOMAIN ops \cup {0})
    BY DEF IInv, TypeOK, Pointer, StoreEntry
  <2> HIDE DEF S
  <2>7. CASE ~(inst.mem = "store" /\ inst.addr = a)
    <3>1. storeMap'[a] = storeMap[a] /\ T = S
      BY <1>1, <2>5, <2>6, <2>7 DEF WriteStore
    <3>2. QED
      BY <1>5, <2>1, <2>2, <2>4, <3>1
  <2>8. CASE inst.mem = "store" /\ inst.addr = a /\ OffPath
    <3>1. storeMap'[a] = [storeMap[a] EXCEPT !.off = n, !.flag = TRUE] /\ T = S \cup {n}
      BY <1>1, <2>5, <2>6, <2>8 DEF WriteStore
    <3>2. /\ storeMap'[a].on = storeMap[a].on
          /\ storeMap'[a].off = n /\ storeMap'[a].flag = TRUE
      BY <2>6, <3>1 DEF StoreEntry
    <3>3. QED
      BY <1>6, <2>1, <2>2, <2>4, <2>8, <3>1, <3>2
  <2>9. CASE inst.mem = "store" /\ inst.addr = a /\ ~OffPath
    <3>1. storeMap'[a] = [storeMap[a] EXCEPT !.on = n, !.flag = FALSE] /\ T = S \cup {n}
      BY <1>1, <2>5, <2>6, <2>9 DEF WriteStore
    <3>2. storeMap'[a].on = n /\ storeMap'[a].flag = FALSE
      BY <2>6, <3>1 DEF StoreEntry
    <3>3. QED
      BY <1>7, <2>2, <2>4, <2>9, <3>1, <3>2
  <2>10. QED
    BY <2>7, <2>8, <2>9
<1>11. QED
  BY <1>9, <1>10 DEF Maps, RegMapExact, StoreMapExact
-----------------------------------------------------------------------------
(* Fetch and the branches in flight, action by action.                      *)

\* Fetch leaves the path at one branch at a time.
LEMMA OneUnresolved ==
    ASSUME IInv, PathMarked, NEW s \in Unresolved, NEW t \in Unresolved
    PROVE  s = t
<1>1. s \in DOMAIN ops /\ t \in DOMAIN ops /\ ~ops[s].offPath /\ ~ops[t].offPath
  BY DEF Unresolved
<1>2. ~(ops[s].num < ops[t].num) /\ ~(ops[t].num < ops[s].num)
  BY <1>1 DEF PathMarked, Before
<1>3. QED
  BY <1>1, <1>2, Nums

LEMMA OneLast ==
    ASSUME IInv, NEW s, NEW t, Last(s), Last(t)
    PROVE  s = t
BY Nums DEF Last

LEMMA PathStays ==
    ASSUME PathMarked, DOMAIN ops' = DOMAIN ops, \A t \in DOMAIN ops : Same(ops'[t], ops[t]),
           Unresolved' = Unresolved, OffPath' <=> OffPath
    PROVE  PathMarked'
<1>1. Unresolved \subseteq DOMAIN ops
  BY DEF Unresolved
<1>2. \A s \in DOMAIN ops : Before(Unresolved, s)' = Before(Unresolved, s)
  BY <1>1 DEF Before, Same
<1>3. QED
  BY <1>2 DEF PathMarked, Same

\* Nothing happens to a branch that fetch could wait for.
LEMMA FrontStays ==
    ASSUME IInv, Front, DOMAIN ops' = DOMAIN ops,
           \A t \in DOMAIN ops :
              /\ Same(ops'[t], ops[t])
              /\ ops'[t].executed = ops[t].executed
              /\ ops'[t].recoverySched = ops[t].recoverySched
              /\ ops'[t].redirectSched = ops[t].redirectSched
              /\ ops'[t].stage = "ic" <=> ops[t].stage = "ic"
              /\ ops[t].stage = "node" => ops'[t].stage = "node",
           UNCHANGED streams,
           redirect.due /\ phase \in {"icache", "sched", "istreams"} =>
              /\ phase' \in {"icache", "sched", "istreams"}
              /\ \A t \in DOMAIN ops : ops'[t].stage = ops[t].stage,
           MissesNamed'
    PROVE  Front'
<1>1. UNCHANGED <<fetch, recovery, redirect>>
  BY DEF streams
<1>2. Predicted'
  BY DEF Front, Predicted, Same
<1>3. PathMarked'
  <2>1. Unresolved' = Unresolved
    BY DEF Unresolved, Same
  <2>2. OffPath' <=> OffPath
    BY <1>1 DEF OffPath
  <2>3. QED
    BY <2>1, <2>2, PathStays DEF Front
<1>4. \A t : Last(t)' <=> Last(t)
  BY DEF Last, Same
<1>5. RecoveryOwner'
  <2>1. Node \subseteq Node' /\ Node \subseteq DOMAIN ops
    BY DEF Node, In
  <2>2. \A s \in DOMAIN ops :
           ops'[s].recoverySched => recovery' = [num |-> ops'[s].num, offPath |-> FALSE]
    BY <1>1 DEF Front, RecoveryOwner, Same
  <2>3. ASSUME recovery.num > 0
        PROVE  \E s \in Node' : /\ ops'[s].num = recovery'.num
                                /\ ops'[s].wrong /\ ops'[s].executed
                                /\ ops'[s].offPath = recovery'.offPath
                                /\ ops'[s].recoverySched \/ ops'[s].offPath
    <3>1. PICK s \in Node : /\ ops[s].num = recovery.num
                            /\ ops[s].wrong /\ ops[s].executed
                            /\ ops[s].offPath = recovery.offPath
                            /\ ops[s].recoverySched \/ ops[s].offPath
      BY <2>3 DEF Front, RecoveryOwner
    <3>2. s \in Node' /\ s \in DOMAIN ops
      BY <2>1
    <3>3. QED
      BY <1>1, <3>1, <3>2 DEF Same
  <2>4. QED
    BY <1>1, <2>2, <2>3 DEF RecoveryOwner
<1>6. RedirectOwner'
  <2>1. \A s \in DOMAIN ops :
           ops'[s].redirectSched => redirect'.slot = s /\ redirect'.num = ops'[s].num
    BY <1>1 DEF Front, RedirectOwner, Same
  <2>2. ASSUME redirect.slot # 0
        PROVE  /\ Last(redirect.slot)
               /\ ops'[redirect.slot].redirectSched
               /\ fetch.next = "WAIT_REDIRECT"
               /\ redirect.due => /\ ops'[redirect.slot].stage = "dec"
                                  /\ ops'[redirect.slot].btb # "noTarget"
                                  /\ phase' \in {"icache", "sched", "istreams"}
               /\ ~redirect.due => ops'[redirect.slot].executed /\ ~ops'[redirect.slot].wrong
    <3>1. redirect.slot \in DOMAIN ops
      BY <2>2 DEF Front, RedirectOwner, Last
    <3>2. QED
      BY <2>2, <3>1 DEF Front, RedirectOwner, Same
  <2>3. QED
    BY <1>1, <1>4, <2>1, <2>2 DEF RedirectOwner, Last
<1>7. Stopped'
  BY <1>1, <1>4 DEF Front, Stopped, Same
<1>8. BarrierLast'
  BY <1>1, <1>4 DEF Front, BarrierLast, Same
<1>9. QED
  BY <1>2, <1>3, <1>5, <1>6, <1>7, <1>8 DEF Front

\* Fetch changes its mind with no branch to wait for.
LEMMA FetchStays ==
    ASSUME IInv, Front, UNCHANGED <<ops, recovery, redirect, misses>>,
           fetch.next # "WAIT_REDIRECT", fetch'.next # "WAIT_REDIRECT",
           fetch.next = "WAIT_EMPTY_ROB" => DOMAIN ops = {},
           OffPath' <=> OffPath
    PROVE  Front'
<1>1. Unresolved' = Unresolved
  BY DEF Unresolved
<1>2. PathMarked'
  BY <1>1 DEF Front, PathMarked, Before
<1>3. RecoveryOwner'
  BY DEF Front, RecoveryOwner, Node, In
<1>4. RedirectOwner'
  BY DEF Front, RedirectOwner
<1>5. Stopped' /\ BarrierLast' /\ Predicted' /\ MissesNamed'
  BY DEF Front, Stopped, BarrierLast, Predicted, MissesNamed, Last
<1>6. QED
  BY <1>2, <1>3, <1>4, <1>5 DEF Front

\* The branch a recovery is pending for.
LEMMA Owner ==
    ASSUME IInv, RecoveryOwner, recovery.num > 0
    PROVE  \E s \in DOMAIN ops :
             /\ ops[s].stage = "node" /\ ops[s].num = recovery.num
             /\ ops[s].wrong /\ ops[s].executed
             /\ ops[s].offPath = recovery.offPath
             /\ ops[s].recoverySched \/ ops[s].offPath
BY DEF RecoveryOwner, Node, In

\* An op that has executed is in the reorder buffer.
LEMMA ExecutedInNode ==
    ASSUME IInv, Execution, NEW s \in DOMAIN ops, ops[s].stage # "node"
    PROVE  ~ops[s].executed
BY DEF IInv, StateOfStage, Execution, Sound, Busy

LEMMA RecoverFront == ASSUME IInv, Front, Recover PROVE Front'
<1>1. /\ DOMAIN ops' = {t \in DOMAIN ops : ops[t].num <= recovery.num}
      /\ \A t \in DOMAIN ops' :
           /\ SameStay(ops'[t], ops[t])
           /\ ops'[t].recoverySched <=>
                /\ ops[t].recoverySched
                /\ ~(ops[t].stage = "node" /\ ops[t].num = recovery.num)
  BY RecoverExact
<1>2. /\ recovery.num > 0 /\ recovery' = NoRecovery /\ redirect' = NoRedirect
      /\ fetch' = [fetch EXCEPT !.next = "FETCH", !.backOnPath = ~recovery.offPath,
                                !.opCount = recovery.num + 1]
      /\ misses' = misses
  BY Zenon DEF Recover
<1>3. PICK b \in DOMAIN ops :
         /\ ops[b].stage = "node" /\ ops[b].num = recovery.num
         /\ ops[b].wrong /\ ops[b].executed
         /\ ops[b].offPath = recovery.offPath
         /\ ops[b].recoverySched \/ ops[b].offPath
  BY <1>2, Owner DEF Front
<1>4. /\ b \in DOMAIN ops' /\ DOMAIN ops' \subseteq DOMAIN ops
      /\ \A t \in DOMAIN ops' : ops[t].num <= ops[b].num
      /\ \A t \in DOMAIN ops : ops[t].num <= ops[b].num => t \in DOMAIN ops'
      /\ \A t \in DOMAIN ops' : ops'[t].num = ops[t].num
  BY <1>1, <1>3, Nums DEF SameStay, Same
\* Whoever is the youngest op and survives is the branch itself.
<1>5. ASSUME NEW t \in DOMAIN ops', Last(t) PROVE t = b
  <2>1. ops[b].num <= ops[t].num /\ ops[t].num <= ops[b].num
    BY <1>3, <1>4, <1>5 DEF Last
  <2>2. QED
    BY <1>3, <1>4, <2>1, Nums
<1>6. fetch'.next = "FETCH" /\ fetch'.offPath = fetch.offPath
      /\ fetch'.backOnPath = ~recovery.offPath
  BY <1>2 DEF IInv, TypeOK
<1>7. Predicted'
  BY <1>1, <1>4 DEF Front, Predicted, SameStay, Same
<1>8. \A t \in DOMAIN ops' : ~ops'[t].recoverySched
  <2> SUFFICES ASSUME NEW t \in DOMAIN ops', ops[t].recoverySched
               PROVE  ops[t].stage = "node" /\ ops[t].num = recovery.num
    BY <1>1
  <2>1. t \in DOMAIN ops /\ ops[t].num = recovery.num
    BY <1>4 DEF Front, RecoveryOwner
  <2>2. t = b
    BY <1>3, <2>1, Nums
  <2>3. QED
    BY <1>3, <2>2
<1>9. RecoveryOwner'
  BY <1>2, <1>8 DEF RecoveryOwner, NoRecovery
<1>10. RedirectOwner'
  <2>1. ASSUME NEW t \in DOMAIN ops', ops'[t].redirectSched PROVE FALSE
    <3>1. t \in DOMAIN ops /\ t # 0 /\ ops[t].redirectSched
      BY <1>1, <1>4, <2>1 DEF SameStay, IInv, TypeOK
    <3>2. redirect.slot = t /\ Last(t)
      BY <3>1 DEF Front, RedirectOwner
    <3>3. t = b
      BY <1>5, <3>2
    <3>4. ops[t].stage = "dec" \/ ~ops[t].wrong
      BY <3>1, <3>2 DEF Front, RedirectOwner
    <3>5. QED
      BY <1>3, <3>3, <3>4
  <2>2. QED
    BY <1>2, <2>1 DEF RedirectOwner, NoRedirect
<1>11. Stopped'
  <2>1. ASSUME NEW t \in DOMAIN ops', ops'[t].btb # "hit",
               ops'[t].stage = "ic" \/ (ops'[t].btb = "noTarget" /\ ~ops'[t].executed)
        PROVE  FALSE
    <3>1. /\ t \in DOMAIN ops /\ ops[t].btb # "hit"
          /\ ops[t].stage = "ic" \/ (ops[t].btb = "noTarget" /\ ~ops[t].executed)
      BY <1>1, <1>4, <2>1 DEF SameStay, Same
    <3>2. Last(t)
      BY <3>1 DEF Front, Stopped
    <3>3. t = b
      BY <1>5, <3>2
    <3>4. QED
      BY <1>3, <3>1, <3>3
  <2>2. QED
    BY <1>6, <2>1 DEF Stopped
<1>12. BarrierLast'
  <2>1. ASSUME NEW t \in DOMAIN ops', "fetch" \in ops'[t].inst.bar PROVE FALSE
    <3>1. t \in DOMAIN ops /\ "fetch" \in ops[t].inst.bar
      BY <1>1, <1>4, <2>1 DEF SameStay, Same
    <3>2. Last(t) /\ ~ops[t].wrong
      BY <3>1 DEF Front, BarrierLast, Predicted
    <3>3. QED
      BY <1>3, <1>5, <3>2
  <2>2. QED
    BY <2>1 DEF BarrierLast
<1>13. MissesNamed'
  BY <1>1, <1>2, <1>4 DEF Front, MissesNamed, SameStay, Same, RefTo
<1>14. PathMarked'
  <2>1. Unresolved \subseteq DOMAIN ops /\ Unresolved' \subseteq Unresolved
    BY <1>1, <1>4, <1>8 DEF Unresolved, SameStay, Same
  <2>2. CASE ~ops[b].offPath
    <3>1. b \in Unresolved /\ b \notin Unresolved'
      BY <1>1, <1>3, <1>4, <1>8, <2>2 DEF Unresolved, SameStay
    <3>2. Unresolved' = {}
      BY <2>1, <3>1, OneUnresolved DEF Front
    <3>3. ASSUME NEW t \in DOMAIN ops' PROVE ~ops'[t].offPath
      <4>1. ~(ops[b].num < ops[t].num) /\ t \in DOMAIN ops
        BY <1>3, <1>4, Nums
      <4>2. Before(Unresolved, t) = {}
        BY <3>1, <4>1, OneUnresolved DEF Before, Front
      <4>3. QED
        BY <1>1, <4>1, <4>2 DEF Front, PathMarked, SameStay, Same
    <3>4. ~OffPath'
      BY <1>3, <1>6, <2>2 DEF OffPath
    <3>5. QED
      BY <3>2, <3>3, <3>4 DEF PathMarked, Before
  <2>3. CASE ops[b].offPath
    <3>1. recovery.offPath = TRUE
      BY <1>3, <2>3 DEF IInv, TypeOK
    <3>2. Unresolved' = Unresolved
      <4> SUFFICES ASSUME NEW u \in Unresolved PROVE u \in Unresolved'
        BY <2>1
      <4>1. u \in DOMAIN ops /\ ~ops[u].offPath /\ ops[u].wrong
        BY DEF Unresolved
      <4>2. ops[u].num < ops[b].num
        BY <1>3, <2>3, <4>1, OffPathYounger DEF Front
      <4>3. u \in DOMAIN ops'
        BY <1>3, <1>4, <4>1, <4>2, Nums
      <4>4. ~ops[u].recoverySched
        BY <3>1, <4>1 DEF Front, RecoveryOwner
      <4>5. ~ops[u].executed
        BY <4>4 DEF Unresolved
      <4>6. QED
        BY <1>1, <4>1, <4>3, <4>5 DEF Unresolved, SameStay, Same
    <3>3. Unresolved # {}
      BY <1>3, <2>3 DEF Front, PathMarked, Before
    <3>4. OffPath /\ OffPath'
      BY <1>6, <3>1, <3>3 DEF Front, PathMarked, OffPath
    <3>5. \A t \in DOMAIN ops' : Before(Unresolved, t)' = Before(Unresolved, t)
      <4>1. Unresolved \subseteq DOMAIN ops'
        BY <3>2 DEF Unresolved
      <4>2. QED
        BY <1>4, <3>2, <4>1 DEF Before
    <3>6. QED
      BY <1>1, <1>4, <3>2, <3>3, <3>4, <3>5 DEF Front, PathMarked, SameStay, Same
  <2>4. QED
    BY <2>2, <2>3
<1>15. QED
  BY <1>7, <1>9, <1>10, <1>11, <1>12, <1>13, <1>14 DEF Front

LEMMA RedirectFront == ASSUME IInv, Execution, Front, Redirect PROVE Front'
<1>1. PICK x : x = redirect.slot
  OBVIOUS
<1>2. /\ x # 0 /\ redirect' = NoRedirect /\ recovery' = recovery /\ misses' = misses
      /\ fetch' = [fetch EXCEPT !.next = "FETCH",
                                !.backOnPath = ~(ops[x].offPath \/ ops[x].wrong)]
  BY <1>1 DEF Redirect, units
<1>3. /\ Last(x) /\ x \in DOMAIN ops /\ fetch.next = "WAIT_REDIRECT"
      /\ redirect.due => ops[x].stage = "dec" /\ ops[x].btb # "noTarget"
      /\ ~redirect.due => ops[x].executed /\ ~ops[x].wrong
  BY <1>1, <1>2 DEF Front, RedirectOwner, Last
<1>4. /\ DOMAIN ops' = DOMAIN ops
      /\ \A t \in DOMAIN ops :
           /\ Same(ops'[t], ops[t]) /\ ops'[t].stage = ops[t].stage
           /\ ops'[t].executed = ops[t].executed /\ ops'[t].state = ops[t].state
           /\ ops'[t].recoverySched = ops[t].recoverySched
           /\ ops'[t].redirectSched <=> (ops[t].redirectSched /\ t # x)
  BY <1>1, <1>3, RedirectExact
<1>5. /\ fetch'.next = "FETCH" /\ fetch'.offPath = fetch.offPath
      /\ fetch'.backOnPath <=> ~(ops[x].offPath \/ ops[x].wrong)
  BY <1>2 DEF IInv, TypeOK
<1>6. Predicted' /\ MissesNamed'
  BY <1>2, <1>4 DEF Front, Predicted, MissesNamed, Same, RefTo
<1>7. RecoveryOwner'
  <2>1. Node' = Node /\ Node \subseteq DOMAIN ops
    BY <1>4 DEF Node, In
  <2>2. QED
    BY <1>2, <1>4, <2>1 DEF Front, RecoveryOwner, Same
<1>8. RedirectOwner'
  <2>1. \A t \in DOMAIN ops' : ~ops'[t].redirectSched
    BY <1>1, <1>4 DEF Front, RedirectOwner
  <2>2. QED
    BY <1>2, <2>1 DEF RedirectOwner, NoRedirect
<1>9. Stopped'
  <2>1. ASSUME NEW t \in DOMAIN ops, ops[t].btb # "hit",
               ops[t].stage = "ic" \/ (ops[t].btb = "noTarget" /\ ~ops[t].executed)
        PROVE  FALSE
    <3>1. Last(t)
      BY <2>1 DEF Front, Stopped
    <3>2. t = x
      BY <1>3, <3>1, OneLast
    <3>3. QED
      BY <1>3, <2>1, <3>2, ExecutedInNode
  <2>2. QED
    BY <1>4, <1>5, <2>1 DEF Stopped, Same
<1>10. BarrierLast'
  BY <1>3, <1>4 DEF Front, BarrierLast, Same
<1>11. PathMarked'
  <2>1. Unresolved' = Unresolved
    BY <1>4 DEF Unresolved, Same
  <2>2. ASSUME Unresolved # {} PROVE OffPath'
    <3>1. PICK u \in Unresolved : TRUE
      BY <2>2
    <3>2. fetch.offPath
      BY <2>2 DEF Front, PathMarked, OffPath
    <3>3. u \in DOMAIN ops /\ ops[u].wrong /\ ops[u].num <= ops[x].num
      BY <1>3, <3>1 DEF Unresolved, Last
    <3>4. ops[x].offPath \/ ops[x].wrong
      <4>1. CASE u = x
        BY <3>3, <4>1
      <4>2. CASE u # x
        <5>1. ops[u].num < ops[x].num
          BY <1>3, <3>3, <4>2, Nums
        <5>2. QED
          BY <1>3, <3>1, <5>1 DEF Front, PathMarked, Before
      <4>3. QED
        BY <4>1, <4>2
    <3>5. QED
      BY <1>5, <3>2, <3>4 DEF OffPath
  <2>3. ASSUME OffPath' PROVE Unresolved # {}
    <3>1. ops[x].offPath \/ ops[x].wrong
      BY <1>5, <2>3 DEF OffPath
    <3>2. CASE ops[x].offPath
      BY <1>3, <3>2 DEF Front, PathMarked, Before
    <3>3. CASE ~ops[x].offPath
      <4>1. ~ops[x].executed
        BY <1>3, <3>1, <3>3, ExecutedInNode
      <4>2. QED
        BY <1>3, <3>1, <3>3, <4>1 DEF Unresolved
    <3>4. QED
      BY <3>2, <3>3
  <2>4. OffPath' <=> OffPath
    BY <2>2, <2>3 DEF Front, PathMarked
  <2>5. QED
    BY <1>4, <2>1, <2>4, PathStays DEF Front
<1>12. QED
  BY <1>6, <1>7, <1>8, <1>9, <1>10, <1>11 DEF Front

\* The op that retires has executed and owes fetch nothing.
LEMMA RetireFront == ASSUME IInv, Execution, Front, Retire PROVE Front'
<1>1. PICK s \in Node :
         /\ CanRetire(s)
         /\ \A t \in DOMAIN ops : t # s => ops[s].num < ops[t].num
         /\ DOMAIN ops' = DOMAIN ops \ {s}
         /\ \A t \in DOMAIN ops' : ops'[t] = ops[t]
  BY RetireExact
<1>2. /\ s \in DOMAIN ops /\ ops[s].stage = "node" /\ ops[s].done /\ ~ops[s].offPath
      /\ ~ops[s].recoverySched /\ ~ops[s].redirectSched
  BY <1>1 DEF Node, In, CanRetire
<1>3. ops[s].executed
  BY <1>2 DEF IInv, StateOfStage, Execution, Sound, Busy
<1>4. UNCHANGED <<fetch, recovery, redirect, misses, phase>>
  BY DEF Retire, streams, units
<1>5. \A t \in DOMAIN ops' : Last(t) => Last(t)'
  BY <1>1 DEF Last
<1>6. Predicted' /\ MissesNamed'
  BY <1>1, <1>4 DEF Front, Predicted, MissesNamed, RefTo
<1>7. PathMarked'
  <2>1. s \notin Unresolved
    BY <1>2, <1>3 DEF Unresolved
  <2>2. Unresolved' = Unresolved /\ Unresolved \subseteq DOMAIN ops'
    BY <1>1, <2>1 DEF Unresolved
  <2>3. \A t \in DOMAIN ops' : Before(Unresolved, t)' = Before(Unresolved, t)
    BY <1>1, <2>2 DEF Before
  <2>4. OffPath' <=> OffPath
    BY <1>4 DEF OffPath
  <2>5. QED
    BY <1>1, <2>2, <2>3, <2>4 DEF Front, PathMarked
<1>8. ASSUME recovery.num > 0
      PROVE  \E o \in DOMAIN ops' :
               /\ ops[o].stage = "node" /\ ops[o].num = recovery.num
               /\ ops[o].wrong /\ ops[o].executed
               /\ ops[o].offPath = recovery.offPath
               /\ ops[o].recoverySched \/ ops[o].offPath
  <2>1. PICK o \in DOMAIN ops :
           /\ ops[o].stage = "node" /\ ops[o].num = recovery.num
           /\ ops[o].wrong /\ ops[o].executed
           /\ ops[o].offPath = recovery.offPath
           /\ ops[o].recoverySched \/ ops[o].offPath
    BY <1>8, Owner DEF Front
  <2>2. o # s
    BY <1>2, <2>1
  <2>3. QED
    BY <1>1, <2>1, <2>2
<1>9. RecoveryOwner'
  <2>1. \A t \in DOMAIN ops' :
           ops'[t].recoverySched => recovery' = [num |-> ops'[t].num, offPath |-> FALSE]
    BY <1>1, <1>4 DEF Front, RecoveryOwner
  <2>2. ASSUME recovery.num > 0
        PROVE  \E o \in Node' : /\ ops'[o].num = recovery'.num
                                /\ ops'[o].wrong /\ ops'[o].executed
                                /\ ops'[o].offPath = recovery'.offPath
                                /\ ops'[o].recoverySched \/ ops'[o].offPath
    BY <1>1, <1>4, <1>8, <2>2 DEF Node, In
  <2>3. QED
    BY <1>4, <2>1, <2>2 DEF RecoveryOwner
<1>10. redirect.slot # 0 => redirect.slot \in DOMAIN ops'
  BY <1>1, <1>2 DEF Front, RedirectOwner, Last
<1>11. RedirectOwner'
  BY <1>1, <1>4, <1>5, <1>10 DEF Front, RedirectOwner
<1>12. Stopped'
  <2>1. \A t \in DOMAIN ops' :
           /\ ops'[t].btb # "hit"
           /\ ops'[t].stage = "ic" \/ (ops'[t].btb = "noTarget" /\ ~ops'[t].executed)
           => fetch'.next = "WAIT_REDIRECT" /\ Last(t)'
    BY <1>1, <1>4, <1>5 DEF Front, Stopped
  <2>2. ASSUME fetch.next = "WAIT_REDIRECT"
        PROVE  \E t \in DOMAIN ops' :
                 /\ Last(t)' /\ ops'[t].btb # "hit"
                 /\ \/ redirect'.slot = t
                    \/ recovery'.num > 0
                    \/ ops'[t].stage = "ic"
                    \/ ops'[t].btb = "noTarget" /\ ~ops'[t].executed
    <3>1. PICK t \in DOMAIN ops :
             /\ Last(t) /\ ops[t].btb # "hit"
             /\ \/ redirect.slot = t
                \/ recovery.num > 0
                \/ ops[t].stage = "ic"
                \/ ops[t].btb = "noTarget" /\ ~ops[t].executed
      BY <2>2 DEF Front, Stopped
    <3>2. t # s
      <4>1. ASSUME t = s, recovery.num > 0 PROVE FALSE
        <5>1. PICK o \in DOMAIN ops' : TRUE
          BY <1>8, <4>1
        <5>2. ops[s].num < ops[o].num /\ ops[o].num <= ops[s].num /\ o \in DOMAIN ops
          BY <1>1, <3>1, <4>1, <5>1 DEF Last
        <5>3. QED
          BY <1>2, <5>2, Nums
      <4>2. redirect.slot # s
        BY <1>2 DEF Front, RedirectOwner, IInv, TypeOK
      <4>3. QED
        BY <1>2, <1>3, <3>1, <4>1, <4>2
    <3>3. t \in DOMAIN ops' /\ ops'[t] = ops[t]
      BY <1>1, <3>2
    <3>4. QED
      BY <1>4, <1>5, <3>1, <3>3
  <2>3. QED
    BY <1>4, <2>1, <2>2 DEF Stopped
<1>13. BarrierLast'
  BY <1>1, <1>4, <1>5 DEF Front, BarrierLast
<1>14. QED
  BY <1>6, <1>7, <1>9, <1>11, <1>12, <1>13 DEF Front

LEMMA LatchFront == ASSUME IInv, Execution, Front, NEW f \in FUs, Latch(f) PROVE Front'
<1>1. PICK s : s = sched[f]
  OBVIOUS
<1>2. /\ s \in DOMAIN ops /\ ops[s].state = "READY" /\ ~ops[s].executed
      /\ DOMAIN ops' = DOMAIN ops
      /\ \A t \in DOMAIN ops :
           /\ Same(ops'[t], ops[t]) /\ ops'[t].stage = ops[t].stage
           /\ ops'[t].executed <=> (t = s \/ ops[t].executed)
           /\ ops'[t].recoverySched <=>
                (ops[t].recoverySched \/ (t = s /\ ops[s].wrong /\ ~ops[s].offPath))
           /\ ops'[t].redirectSched <=> (ops[t].redirectSched \/ (t = s /\ Targets(s)))
      /\ ops'[s].state = "SCHEDULED"
      /\ ops[s].inst.mem = "load" =>
           \A t \in DOMAIN ops : t # s => ops'[t].state = ops[t].state
      /\ ops[s].inst.mem # "load" =>
           \A t \in DOMAIN ops : t # s => ops'[t].state = HeardState(ops, s, Gives(ops[s]), t)
  BY <1>1, LatchExact
<1>3. /\ recovery' = IF RecoveryTaken(s) THEN [num |-> ops[s].num, offPath |-> ops[s].offPath]
                     ELSE recovery
      /\ redirect' = IF Targets(s) THEN [slot |-> s, num |-> ops[s].num, due |-> FALSE]
                     ELSE redirect
      /\ UNCHANGED <<fetch, misses>> /\ phase = "exec" /\ phase' = "exec"
  BY <1>1 DEF Latch, Targets
<1>4. ops[s].stage = "node" /\ s # 0
  BY <1>2 DEF IInv, StateOfStage, TypeOK
<1>5. ~ops[s].recoverySched
  <2>1. ASSUME ops[s].recoverySched PROVE FALSE
    <3>1. recovery.num = ops[s].num /\ recovery.num > 0
      BY <1>2, <2>1, Nums DEF Front, RecoveryOwner
    <3>2. PICK o \in DOMAIN ops : ops[o].num = recovery.num /\ ops[o].executed
      BY <3>1, Owner DEF Front
    <3>3. QED
      BY <1>2, <3>1, <3>2, Nums
  <2>2. QED
    BY <2>1
<1>6. redirect.slot # 0 => /\ Last(redirect.slot) /\ redirect.slot # s
                           /\ ~redirect.due
  BY <1>2, <1>3 DEF Front, RedirectOwner
<1>7. ~ops[s].redirectSched
  BY <1>2, <1>4, <1>6 DEF Front, RedirectOwner
<1>8. ops[s].btb = "noTarget" => Last(s) /\ fetch.next = "WAIT_REDIRECT" /\ redirect.slot = 0
  <2>1. ASSUME ops[s].btb = "noTarget" PROVE Last(s) /\ fetch.next = "WAIT_REDIRECT"
    BY <1>2, <2>1 DEF Front, Stopped
  <2>2. QED
    BY <1>6, <2>1, OneLast
<1>9. \A t : Last(t)' <=> Last(t)
  BY <1>2 DEF Last, Same
<1>10. Predicted'
  BY <1>2 DEF Front, Predicted, Same
<1>11. MissesNamed'
  <2>1. \A t \in DOMAIN ops : ops'[t].state = "MISS" <=> ops[t].state = "MISS"
    BY <1>2 DEF HeardState
  <2>2. QED
    BY <1>2, <1>3, <2>1 DEF Front, MissesNamed, Same, RefTo
<1>12. PathMarked'
  <2>1. Unresolved' = Unresolved
    BY <1>2, <1>5 DEF Unresolved, Same
  <2>2. OffPath' <=> OffPath
    BY <1>3 DEF OffPath
  <2>3. QED
    BY <1>2, <2>1, <2>2, PathStays DEF Front
<1>13. ASSUME NEW t \in DOMAIN ops, t # s, ops[t].recoverySched PROVE ~RecoveryTaken(s)
  <2>1. recovery.num = ops[t].num /\ recovery.offPath = FALSE /\ recovery.num > 0
    BY <1>13, Nums DEF Front, RecoveryOwner
  <2>2. PICK o \in DOMAIN ops : /\ ops[o].num = recovery.num /\ ops[o].wrong
                                /\ ops[o].offPath = recovery.offPath
    BY <2>1, Owner DEF Front
  <2>3. ops[t].wrong /\ ~ops[t].offPath
    BY <1>13, <2>1, <2>2, Nums
  <2>4. t \in Unresolved
    BY <1>13, <2>3 DEF Unresolved
  <2>5. SUFFICES ASSUME ops[s].wrong, ops[s].num <= ops[t].num PROVE FALSE
    BY <2>1 DEF RecoveryTaken
  <2>6. CASE ops[s].offPath
    <3>1. ops[t].num < ops[s].num
      BY <1>2, <2>3, <2>6, OffPathYounger DEF Front
    <3>2. QED
      BY <1>2, <2>5, <3>1, Nums
  <2>7. CASE ~ops[s].offPath
    <3>1. s \in Unresolved
      BY <1>2, <2>5, <2>7 DEF Unresolved
    <3>2. QED
      BY <1>13, <2>4, <3>1, OneUnresolved DEF Front
  <2>8. QED
    BY <2>6, <2>7
<1>14. ASSUME ops[s].wrong, ~ops[s].offPath PROVE RecoveryTaken(s)
  <2> SUFFICES ASSUME recovery.num > 0 PROVE ops[s].num <= recovery.num
    BY <1>14 DEF RecoveryTaken, IInv, TypeOK
  <2>1. PICK o \in DOMAIN ops : /\ ops[o].num = recovery.num
                                /\ ops[o].wrong /\ ops[o].executed
                                /\ ops[o].recoverySched \/ ops[o].offPath
    BY Owner DEF Front
  <2>2. CASE ops[o].offPath
    <3>1. ops[s].num < ops[o].num
      BY <1>2, <1>14, <2>2, OffPathYounger DEF Front
    <3>2. QED
      BY <1>2, <2>1, <3>1, Nums
  <2>3. CASE ~ops[o].offPath
    <3>1. o \in Unresolved /\ s \in Unresolved
      BY <1>2, <1>14, <2>1, <2>3 DEF Unresolved
    <3>2. o = s
      BY <3>1, OneUnresolved DEF Front
    <3>3. QED
      BY <1>2, <2>1, <3>2
  <2>4. QED
    BY <2>2, <2>3
<1>15. RecoveryOwner'
  <2>1. ASSUME NEW t \in DOMAIN ops, ops'[t].recoverySched
        PROVE  recovery' = [num |-> ops'[t].num, offPath |-> FALSE]
    <3>1. CASE t = s
      <4>1. ops[s].wrong /\ ~ops[s].offPath
        BY <1>2, <1>5, <2>1, <3>1
      <4>2. ops[s].offPath = FALSE
        BY <1>2, <4>1 DEF IInv, TypeOK, Op
      <4>3. QED
        BY <1>2, <1>3, <1>14, <3>1, <4>1, <4>2 DEF Same
    <3>2. CASE t # s
      BY <1>2, <1>3, <1>13, <2>1, <3>2 DEF Front, RecoveryOwner, Same
    <3>3. QED
      BY <3>1, <3>2
  <2>2. ASSUME recovery'.num > 0
        PROVE  \E o \in Node' : /\ ops'[o].num = recovery'.num
                                /\ ops'[o].wrong /\ ops'[o].executed
                                /\ ops'[o].offPath = recovery'.offPath
                                /\ ops'[o].recoverySched \/ ops'[o].offPath
    <3>1. CASE RecoveryTaken(s)
      <4>1. ops[s].wrong /\ recovery'.num = ops[s].num /\ recovery'.offPath = ops[s].offPath
        BY <1>3, <3>1 DEF RecoveryTaken
      <4>2. s \in Node'
        BY <1>2, <1>4 DEF Node, In
      <4>3. QED
        BY <1>2, <4>1, <4>2 DEF Same
    <3>2. CASE ~RecoveryTaken(s)
      <4>1. recovery' = recovery
        BY <1>3, <3>2
      <4>2. PICK o \in DOMAIN ops :
               /\ ops[o].stage = "node" /\ ops[o].num = recovery.num
               /\ ops[o].wrong /\ ops[o].executed
               /\ ops[o].offPath = recovery.offPath
               /\ ops[o].recoverySched \/ ops[o].offPath
        BY <2>2, <4>1, Owner DEF Front
      <4>3. o \in Node'
        BY <1>2, <4>2 DEF Node, In
      <4>4. QED
        BY <1>2, <4>1, <4>2, <4>3 DEF Same
    <3>3. QED
      BY <3>1, <3>2
  <2>3. QED
    BY <1>2, <2>1, <2>2 DEF RecoveryOwner
<1>16. RedirectOwner'
  <2>1. CASE Targets(s)
    <3>1. ops[s].btb = "noTarget" /\ ~ops[s].wrong
      BY <2>1 DEF Targets
    <3>2. /\ redirect'.slot = s /\ redirect'.num = ops[s].num /\ redirect'.due = FALSE
          /\ Last(s) /\ fetch'.next = "WAIT_REDIRECT" /\ redirect.slot = 0
      BY <1>3, <1>8, <2>1, <3>1
    <3>3. \A t \in DOMAIN ops : ~ops[t].redirectSched
      BY <3>2 DEF Front, RedirectOwner, IInv, TypeOK
    <3>4. \A t \in DOMAIN ops' :
             ops'[t].redirectSched => redirect'.slot = t /\ redirect'.num = ops'[t].num
      BY <1>2, <3>2, <3>3 DEF Same
    <3>5. Last(s)' /\ ops'[s].redirectSched /\ ops'[s].executed /\ ~ops'[s].wrong
      BY <1>2, <1>9, <2>1, <3>1, <3>2 DEF Same
    <3>6. Last(redirect.slot)'
      BY <3>2, <3>5 DEF Last
    <3>7. QED
      BY <3>2, <3>4, <3>5, <3>6 DEF RedirectOwner
  <2>2. CASE ~Targets(s)
    <3>1. redirect' = redirect
      BY <1>3, <2>2
    <3>2. redirect.slot # 0 => redirect.slot \in DOMAIN ops
      BY <1>6 DEF Last
    <3>3. QED
      BY <1>2, <1>3, <1>6, <1>9, <2>2, <3>1, <3>2 DEF Front, RedirectOwner, Same
  <2>3. QED
    BY <2>1, <2>2
<1>17. Stopped'
  <2>1. \A t \in DOMAIN ops' :
           /\ ops'[t].btb # "hit"
           /\ ops'[t].stage = "ic" \/ (ops'[t].btb = "noTarget" /\ ~ops'[t].executed)
           => fetch'.next = "WAIT_REDIRECT" /\ Last(t)'
    BY <1>2, <1>3, <1>9 DEF Front, Stopped, Same
  <2>2. ASSUME fetch.next = "WAIT_REDIRECT"
        PROVE  \E t \in DOMAIN ops' :
                 /\ Last(t)' /\ ops'[t].btb # "hit"
                 /\ \/ redirect'.slot = t
                    \/ recovery'.num > 0
                    \/ ops'[t].stage = "ic"
                    \/ ops'[t].btb = "noTarget" /\ ~ops'[t].executed
    <3>1. PICK t \in DOMAIN ops :
             /\ Last(t) /\ ops[t].btb # "hit"
             /\ \/ redirect.slot = t
                \/ recovery.num > 0
                \/ ops[t].stage = "ic"
                \/ ops[t].btb = "noTarget" /\ ~ops[t].executed
      BY <2>2 DEF Front, Stopped
    <3>2. t \in DOMAIN ops' /\ Last(t)' /\ ops'[t].btb # "hit" /\ ops'[t].btb = ops[t].btb
      BY <1>2, <1>9, <3>1 DEF Same
    <3>3. recovery.num > 0 \/ RecoveryTaken(s) => recovery'.num > 0
      BY <1>2, <1>3, Nums
    <3>4. redirect.slot = t => redirect'.slot = t
      <4>1. ASSUME redirect.slot = t, Targets(s) PROVE FALSE
        <5>1. redirect.slot = 0 /\ t # 0
          BY <1>8, <4>1 DEF Targets, IInv, TypeOK
        <5>2. QED
          BY <4>1, <5>1
      <4>2. QED
        BY <1>3, <4>1
    <3>5. CASE t = s /\ ops[s].btb = "noTarget"
      <4>1. CASE ops[s].wrong
        <5>1. recovery.num > 0 \/ RecoveryTaken(s)
          BY <4>1 DEF RecoveryTaken, IInv, TypeOK
        <5>2. QED
          BY <3>2, <3>3, <5>1
      <4>2. CASE ~ops[s].wrong
        <5>1. Targets(s)
          BY <1>2, <1>8, <3>5, <4>2 DEF Targets, RedirectTaken, Front, Predicted
        <5>2. redirect'.slot = t
          BY <1>3, <3>5, <5>1
        <5>3. QED
          BY <3>2, <5>2
      <4>3. QED
        BY <4>1, <4>2
    <3>6. CASE ~(t = s /\ ops[s].btb = "noTarget")
      BY <1>2, <3>1, <3>2, <3>3, <3>4, <3>6
    <3>7. QED
      BY <3>5, <3>6
  <2>3. QED
    BY <1>3, <2>1, <2>2 DEF Stopped
<1>18. BarrierLast'
  BY <1>2, <1>3, <1>9 DEF Front, BarrierLast, Same
<1>19. QED
  BY <1>10, <1>11, <1>12, <1>15, <1>16, <1>17, <1>18 DEF Front

LEMMA DecodeFront == ASSUME IInv, Execution, Front, DecodeStage PROVE Front'
<1>1. PICK x : x = Oldest(ops, Resume)
  OBVIOUS
<1>2. /\ DOMAIN ops' = DOMAIN ops
      /\ Decoded \subseteq In("ic")
      /\ \A t \in DOMAIN ops :
           /\ Same(ops'[t], ops[t])
           /\ ops'[t].executed = ops[t].executed /\ ops'[t].state = ops[t].state
           /\ ops'[t].recoverySched = ops[t].recoverySched
           /\ ops'[t].stage = IF t \in Decoded THEN "dec" ELSE ops[t].stage
           /\ ops'[t].redirectSched <=> (ops[t].redirectSched \/ (Taken /\ t = x))
      /\ redirect' = IF ~Taken THEN redirect
                     ELSE [slot |-> x, num |-> ops[x].num, due |-> TRUE]
  BY <1>1, DecodeExact
<1>3. UNCHANGED <<fetch, recovery, misses>> /\ phase = "decode" /\ phase' = "icache"
  BY DEF DecodeStage, units
<1>4. Resume \subseteq Decoded /\ Resume \subseteq DOMAIN ops
  BY <1>2 DEF Resume, In
<1>5. ASSUME NEW t \in Resume
      PROVE  /\ ops[t].stage = "ic" /\ ops[t].btb = "miss"
             /\ Last(t) /\ fetch.next = "WAIT_REDIRECT"
  <2>1. t \in DOMAIN ops /\ ops[t].stage = "ic" /\ ResumesFetch(ops[t])
    BY <1>2, <1>4 DEF Resume, In
  <2>2. ops[t].btb = "miss"
    <3>1. ops[t].btb \in {"hit", "miss", "noTarget"}
      BY <2>1 DEF IInv, TypeOK, Op
    <3>2. QED
      BY <2>1, <3>1 DEF ResumesFetch, Front, Predicted
  <2>3. QED
    BY <2>1, <2>2 DEF Front, Stopped
<1>6. Resume # {} => x \in Resume
  BY <1>1, <1>4, Nums, OldestFound
<1>7. redirect.slot # 0 => Last(redirect.slot) /\ ~redirect.due
  BY <1>3 DEF Front, RedirectOwner
<1>8. Taken => x \in Resume /\ redirect.slot = 0
  <2> SUFFICES ASSUME Taken, redirect.slot # 0 PROVE FALSE
    BY <1>6 DEF Taken
  <2>1. x \in Resume /\ ops[x].num < redirect.num
    BY <1>1, <1>6 DEF Taken, RedirectTaken
  <2>2. redirect.slot = x
    BY <1>5, <1>7, <2>1, OneLast
  <2>3. x \in DOMAIN ops /\ ops[x].redirectSched
    BY <1>4, <2>1, <2>2 DEF Front, RedirectOwner
  <2>4. redirect.num = ops[x].num
    BY <2>3 DEF Front, RedirectOwner
  <2>5. QED
    BY <1>4, <2>1, <2>4, Nums
<1>9. \A t : Last(t)' <=> Last(t)
  BY <1>2 DEF Last, Same
<1>10. Predicted' /\ MissesNamed'
  BY <1>2, <1>3 DEF Front, Predicted, MissesNamed, Same, RefTo
<1>11. PathMarked'
  <2>1. Unresolved' = Unresolved
    BY <1>2 DEF Unresolved, Same
  <2>2. OffPath' <=> OffPath
    BY <1>3 DEF OffPath
  <2>3. QED
    BY <1>2, <2>1, <2>2, PathStays DEF Front
<1>12. RecoveryOwner'
  <2>1. Node \subseteq Node' /\ Node \subseteq DOMAIN ops
    BY <1>2 DEF Node, In
  <2>2. QED
    BY <1>2, <1>3, <2>1 DEF Front, RecoveryOwner, Same
<1>13. RedirectOwner'
  <2>1. CASE Taken
    <3>1. /\ redirect'.slot = x /\ redirect'.num = ops[x].num /\ redirect'.due = TRUE
          /\ x \in Resume /\ redirect.slot = 0 /\ x \in DOMAIN ops /\ x \in Decoded
      BY <1>2, <1>4, <1>8, <2>1
    <3>2. \A t \in DOMAIN ops : ~ops[t].redirectSched
      BY <3>1 DEF Front, RedirectOwner, IInv, TypeOK
    <3>3. \A t \in DOMAIN ops' :
             ops'[t].redirectSched => redirect'.slot = t /\ redirect'.num = ops'[t].num
      BY <1>2, <3>1, <3>2 DEF Same
    <3>4. /\ Last(x)' /\ ops'[x].redirectSched /\ fetch'.next = "WAIT_REDIRECT"
          /\ ops'[x].stage = "dec" /\ ops'[x].btb # "noTarget"
      BY <1>2, <1>3, <1>5, <1>9, <2>1, <3>1 DEF Same
    <3>5. Last(redirect.slot)'
      BY <3>1, <3>4 DEF Last
    <3>6. QED
      BY <1>3, <3>1, <3>3, <3>4, <3>5 DEF RedirectOwner
  <2>2. CASE ~Taken
    <3>1. redirect' = redirect
      BY <1>2, <2>2
    <3>2. redirect.slot # 0 => redirect.slot \in DOMAIN ops
      BY <1>7 DEF Last
    <3>3. QED
      BY <1>2, <1>3, <1>7, <1>9, <2>2, <3>1, <3>2 DEF Front, RedirectOwner, Same
  <2>3. QED
    BY <2>1, <2>2
<1>14. Stopped'
  <2>1. \A t \in DOMAIN ops' :
           /\ ops'[t].btb # "hit"
           /\ ops'[t].stage = "ic" \/ (ops'[t].btb = "noTarget" /\ ~ops'[t].executed)
           => fetch'.next = "WAIT_REDIRECT" /\ Last(t)'
    BY <1>2, <1>3, <1>9 DEF Front, Stopped, Same
  <2>2. ASSUME fetch.next = "WAIT_REDIRECT"
        PROVE  \E t \in DOMAIN ops' :
                 /\ Last(t)' /\ ops'[t].btb # "hit"
                 /\ \/ redirect'.slot = t
                    \/ recovery'.num > 0
                    \/ ops'[t].stage = "ic"
                    \/ ops'[t].btb = "noTarget" /\ ~ops'[t].executed
    <3>1. PICK t \in DOMAIN ops :
             /\ Last(t) /\ ops[t].btb # "hit"
             /\ \/ redirect.slot = t
                \/ recovery.num > 0
                \/ ops[t].stage = "ic"
                \/ ops[t].btb = "noTarget" /\ ~ops[t].executed
      BY <2>2 DEF Front, Stopped
    <3>2. t \in DOMAIN ops' /\ Last(t)' /\ ops'[t].btb # "hit" /\ ops'[t].btb = ops[t].btb
      BY <1>2, <1>9, <3>1 DEF Same
    <3>3. Taken => redirect'.slot = t
      BY <1>2, <1>5, <1>8, <3>1, OneLast
    <3>4. redirect.slot = t => redirect'.slot = t
      BY <1>2, <3>3
    <3>5. CASE t \in Decoded /\ ops[t].btb = "miss"
      <4>1. ResumesFetch(ops[t])
        <5>1. ops[t].inst \in Insts
          BY <3>1 DEF IInv, TypeOK, Op
        <5>2. ops[t].inst.cf \in {"none", "direct", "indirect"}
          BY <5>1, InstsAssumption
        <5>3. QED
          BY <3>1, <3>5, <5>2 DEF Front, Predicted, ResumesFetch
      <4>2. t \in Resume
        BY <3>5, <4>1 DEF Resume
      <4>3. Taken \/ redirect.slot # 0
        BY <4>2 DEF Taken, RedirectTaken
      <4>4. redirect.slot # 0 => redirect.slot = t
        BY <1>7, <3>1, OneLast
      <4>5. QED
        BY <3>2, <3>3, <3>4, <4>3, <4>4
    <3>6. CASE t \in Decoded /\ ops[t].btb # "miss"
      <4>1. ops[t].btb = "noTarget"
        BY <3>1, <3>6 DEF IInv, TypeOK, Op
      <4>2. ops[t].stage = "ic"
        BY <1>2, <3>6 DEF In
      <4>3. ~ops'[t].executed
        BY <1>2, <3>1, <4>2, ExecutedInNode
      <4>4. QED
        BY <3>2, <4>1, <4>3
    <3>7. CASE t \notin Decoded
      BY <1>2, <1>3, <3>1, <3>2, <3>4, <3>7
    <3>8. QED
      BY <3>5, <3>6, <3>7
  <2>3. QED
    BY <1>3, <2>1, <2>2 DEF Stopped
<1>15. BarrierLast'
  BY <1>2, <1>3, <1>9 DEF Front, BarrierLast, Same
<1>16. QED
  BY <1>10, <1>11, <1>12, <1>13, <1>14, <1>15 DEF Front

\* Behind a fetched branch fetch leaves the path, or stops, as the predictor told it.
LEMMA FetchFront ==
    ASSUME IInv, Front,
           NEW inst \in Insts, NEW prediction \in Predictions(inst), FetchOp(inst, prediction)
    PROVE  Front'
<1>1. PICK n \in Nat \ {0}, unique \in Nat \ {0} :
         /\ n \notin DOMAIN ops /\ unique \notin References
         /\ DOMAIN ops' = DOMAIN ops \cup {n}
         /\ \A t \in DOMAIN ops : ops'[t] = ops[t]
         /\ ops'[n] = NewOp(inst, prediction, unique)
  BY FetchExact
<1>2. /\ ops'[n].unique = unique /\ ops'[n].num = fetch.opCount /\ ops'[n].inst = inst
      /\ ops'[n].offPath <=> OffPath
      /\ ops'[n].wrong = prediction.wrong /\ ops'[n].btb = prediction.btb
      /\ ops'[n].stage = "ic" /\ ops'[n].state = "FETCHED" /\ ~ops'[n].executed
      /\ ~ops'[n].recoverySched /\ ~ops'[n].redirectSched
  BY <1>1 DEF NewOp
<1> DEFINE next == IF prediction.btb # "hit" THEN "WAIT_REDIRECT"
                   ELSE IF "fetch" \in inst.bar THEN "WAIT_EMPTY_ROB" ELSE "FETCH"
<1>3. /\ fetch.next = "FETCH"
      /\ fetch' = [next |-> next, offPath |-> OffPath \/ prediction.wrong,
                   backOnPath |-> FALSE, opCount |-> fetch.opCount + 1]
      /\ UNCHANGED <<recovery, redirect, misses>>
  BY DEF FetchOp, CanFetch, units
<1>4. /\ fetch'.next = next /\ fetch'.backOnPath = FALSE
      /\ fetch'.offPath <=> OffPath \/ prediction.wrong
  BY <1>3
<1>5. /\ prediction.btb # "hit" => inst.cf # "none" /\ "fetch" \notin inst.bar
      /\ prediction.btb = "noTarget" => inst.cf = "indirect"
      /\ prediction.wrong => "fetch" \notin inst.bar
  <2>1. inst.cf \in {"none", "direct", "indirect"}
    BY InstsAssumption
  <2>2. QED
    BY <2>1 DEF Predictions
<1>6. /\ \A t \in DOMAIN ops' : ops'[t].num <= ops'[n].num
      /\ \A t \in DOMAIN ops : ops'[t].num < ops'[n].num
  BY <1>1, <1>2, Nums
<1>7. Last(n)'
  BY <1>1, <1>6 DEF Last
<1>8. redirect.slot = 0
  BY <1>3 DEF Front, RedirectOwner
<1>9. Predicted'
  BY <1>1, <1>2, <1>5 DEF Front, Predicted
<1>10. PathMarked'
  <2>1. OffPath' <=> OffPath \/ prediction.wrong
    BY <1>4 DEF OffPath
  <2>2. Unresolved' = Unresolved \cup (IF prediction.wrong /\ ~OffPath THEN {n} ELSE {})
    BY <1>1, <1>2 DEF Unresolved
  <2>3. Unresolved \subseteq DOMAIN ops /\ (OffPath <=> Unresolved # {})
    BY DEF Unresolved, Front, PathMarked
  <2>4. ASSUME NEW t \in DOMAIN ops
        PROVE  Before(Unresolved, t)' = Before(Unresolved, t)
    <3>1. ~(ops'[n].num < ops'[t].num)
      BY <1>1, <1>2, Nums
    <3>2. QED
      BY <1>1, <2>2, <2>3, <3>1 DEF Before
  <2>5. Before(Unresolved, n)' = Unresolved
    <3>1. ~(ops'[n].num < ops'[n].num)
      BY <1>2, Nums
    <3>2. QED
      BY <1>1, <1>6, <2>2, <2>3, <3>1 DEF Before
  <2>6. \A t \in DOMAIN ops' : ops'[t].offPath <=> Before(Unresolved, t)' # {}
    BY <1>1, <1>2, <2>3, <2>4, <2>5 DEF Front, PathMarked
  <2>7. OffPath' <=> Unresolved' # {}
    BY <2>1, <2>2, <2>3
  <2>8. QED
    BY <2>6, <2>7 DEF PathMarked
<1>11. RecoveryOwner'
  <2>1. Node \subseteq Node' /\ Node \subseteq DOMAIN ops
    BY <1>1 DEF Node, In
  <2>2. QED
    BY <1>1, <1>2, <1>3, <2>1 DEF Front, RecoveryOwner
<1>12. RedirectOwner'
  BY <1>1, <1>2, <1>3, <1>8 DEF Front, RedirectOwner
<1>13. Stopped'
  <2>1. ASSUME NEW t \in DOMAIN ops', ops'[t].btb # "hit",
               ops'[t].stage = "ic" \/ (ops'[t].btb = "noTarget" /\ ~ops'[t].executed)
        PROVE  fetch'.next = "WAIT_REDIRECT" /\ Last(t)'
    <3>1. t = n
      BY <1>1, <1>3, <2>1 DEF Front, Stopped
    <3>2. QED
      BY <1>2, <1>4, <1>7, <2>1, <3>1
  <2>2. fetch'.next = "WAIT_REDIRECT" => ops'[n].btb # "hit"
    BY <1>2, <1>4
  <2>3. n \in DOMAIN ops'
    BY <1>1
  <2> HIDE DEF next
  <2>4. QED
    BY <1>2, <1>7, <2>1, <2>2, <2>3 DEF Stopped
<1>14. BarrierLast'
  <2>1. ASSUME NEW t \in DOMAIN ops', "fetch" \in ops'[t].inst.bar
        PROVE  Last(t)' /\ fetch'.next = "WAIT_EMPTY_ROB"
    <3>1. t = n
      BY <1>1, <1>3, <2>1 DEF Front, BarrierLast
    <3>2. QED
      BY <1>2, <1>4, <1>5, <1>7, <2>1, <3>1
  <2>2. QED
    BY <2>1 DEF BarrierLast
<1>15. MissesNamed'
  BY <1>1, <1>2, <1>3, FreshReference DEF Front, MissesNamed, RefTo
<1>16. QED
  BY <1>9, <1>10, <1>11, <1>12, <1>13, <1>14, <1>15 DEF Front

\* The ops stay in flight, and the same ones miss.
LEMMA MissesStay ==
    ASSUME MissesNamed, DOMAIN ops' = DOMAIN ops, UNCHANGED misses,
           \A t \in DOMAIN ops : /\ Same(ops'[t], ops[t])
                                 /\ ops'[t].state = "MISS" <=> ops[t].state = "MISS"
    PROVE  MissesNamed'
BY DEF MissesNamed, Same, RefTo

\* The op that gets its data stops waiting for a request.
LEMMA SupplyMisses ==
    ASSUME IInv, MissesNamed, NEW s \in DOMAIN ops, Supply(s),
           misses' = misses \ {RefTo(ops, s)}
    PROVE  MissesNamed'
<1>1. /\ DOMAIN ops' = DOMAIN ops
      /\ \A t \in DOMAIN ops : Same(ops'[t], ops[t])
      /\ ops'[s].state = "SCHEDULED"
      /\ \A t \in DOMAIN ops : t # s => \/ ops'[t].state = ops[t].state
                                        \/ ops'[t].state = HeardState(ops, s, "reg", t)
  BY SupplyExact
<1>2. \A t \in DOMAIN ops : RefTo(ops', t) = RefTo(ops, t)
  BY <1>1, SameRefs
<1>3. \A t \in DOMAIN ops : RefTo(ops, t) = RefTo(ops, s) => t = s
  BY DEF RefTo
<1>4. \A t \in DOMAIN ops : t # s => (ops'[t].state = "MISS" <=> ops[t].state = "MISS")
  BY <1>1 DEF HeardState
<1>5. QED
  BY <1>1, <1>2, <1>3, <1>4 DEF MissesNamed

\* An op the data cache stage handles waits for no request.
LEMMA AccessMisses ==
    ASSUME IInv, MissesNamed, NEW f \in FUs, NEW outcome \in Outcomes, DcacheAccess(f, outcome)
    PROVE  MissesNamed'
<1>1. PICK s : s = AtDcache(f)
  OBVIOUS
<1>2. /\ s \in DOMAIN ops
      /\ \/ outcome = "late" /\ UNCHANGED <<ops, misses>>
         \/ outcome = "hit" /\ Supply(s) /\ UNCHANGED misses
         \/ outcome = "miss" /\ OnlyState(s, "MISS") /\ misses' = misses \cup {RefTo(ops, s)}
         \/ outcome = "port" /\ OnlyState(s, "WAIT_DCACHE") /\ UNCHANGED misses
         \/ outcome = "buffer" /\ OnlyState(s, "WAIT_MEM") /\ UNCHANGED misses
  BY <1>1, AccessExact
<1>3. RefTo(ops, s) \notin misses
  <2>1. Valid(ops, RefTo(ops, s)) /\ RefTo(ops, s).slot = s
    BY <1>2 DEF RefTo, Valid
  <2>2. exec[f] = s \/ dc[f] = s
    BY <1>1 DEF AtDcache
  <2>3. QED
    BY <2>1, <2>2 DEF IInv, InUnits
<1>4. CASE UNCHANGED <<ops, misses>>
  BY <1>4 DEF MissesNamed
<1>5. CASE Supply(s) /\ UNCHANGED misses
  BY <1>2, <1>3, <1>5, SupplyMisses
<1>6. ASSUME NEW state, OnlyState(s, state)
      PROVE  /\ DOMAIN ops' = DOMAIN ops
             /\ \A t \in DOMAIN ops :
                  /\ RefTo(ops', t) = RefTo(ops, t)
                  /\ RefTo(ops, t) = RefTo(ops, s) => t = s
                  /\ ops'[t].state = IF t = s THEN state ELSE ops[t].state
  BY <1>6 DEF OnlyState, Same, RefTo
<1>7. CASE OnlyState(s, "MISS") /\ misses' = misses \cup {RefTo(ops, s)}
  <2>1. OnlyState(s, "MISS")
    BY <1>7
  <2>2. QED
    BY <1>6, <1>7, <2>1 DEF MissesNamed
<1>8. CASE OnlyState(s, "WAIT_DCACHE") /\ UNCHANGED misses
  <2>1. OnlyState(s, "WAIT_DCACHE")
    BY <1>8
  <2>2. QED
    BY <1>2, <1>3, <1>6, <1>8, <2>1 DEF MissesNamed
<1>9. CASE OnlyState(s, "WAIT_MEM") /\ UNCHANGED misses
  <2>1. OnlyState(s, "WAIT_MEM")
    BY <1>9
  <2>2. QED
    BY <1>2, <1>3, <1>6, <1>9, <2>1 DEF MissesNamed
<1>10. QED
  BY <1>2, <1>4, <1>5, <1>7, <1>8, <1>9

\* A step of a stage that moves no op: a redirection that is due is kept for the
\* start of the next cycle.
LEMMA QuietFront ==
    ASSUME IInv, Front, UNCHANGED <<ops, streams, misses>>,
           redirect.due /\ phase \in {"icache", "sched", "istreams"} =>
              phase' \in {"icache", "sched", "istreams"}
    PROVE  Front'
<1>1. MissesNamed'
  BY DEF Front, MissesNamed
<1>2. QED
  BY <1>1, FrontStays DEF Same

\* A stage behind decode moves ops: no redirection is due then.
LEMMA BackEndFront ==
    ASSUME IInv, Front, DOMAIN ops' = DOMAIN ops,
           \A t \in DOMAIN ops :
              /\ Same(ops'[t], ops[t])
              /\ ops'[t].executed = ops[t].executed
              /\ ops'[t].recoverySched = ops[t].recoverySched
              /\ ops'[t].redirectSched = ops[t].redirectSched
              /\ ops'[t].stage = "ic" <=> ops[t].stage = "ic"
              /\ ops[t].stage = "node" => ops'[t].stage = "node",
           UNCHANGED streams, phase \notin {"icache", "sched", "istreams"},
           MissesNamed'
    PROVE  Front'
BY FrontStays

LEMMA FillFront == ASSUME IInv, Front, NEW ref \in misses, DcacheFill(ref) PROVE Front'
<1>1. phase = "memory" /\ misses' = misses \ {ref} /\ UNCHANGED streams
  BY DEF DcacheFill, streams
<1>2. CASE Valid(ops, ref)
  <2>1. ref.slot \in DOMAIN ops /\ Supply(ref.slot) /\ ref = RefTo(ops, ref.slot)
    <3>1. ref \in Ref
      BY DEF IInv, TypeOK
    <3>2. QED
      BY <1>2, <3>1 DEF Valid, RefTo, DcacheFill, Ref
  <2>2. MissesNamed'
    BY <1>1, <2>1, SupplyMisses DEF Front
  <2>3. /\ DOMAIN ops' = DOMAIN ops
        /\ \A t \in DOMAIN ops : Same(ops'[t], ops[t]) /\ SameFront(ops'[t], ops[t])
    BY <2>1, SupplyExact
  <2>4. QED
    BY <1>1, <2>2, <2>3, BackEndFront DEF SameFront
<1>3. CASE ~Valid(ops, ref)
  <2>1. ops' = ops
    BY <1>3 DEF DcacheFill
  <2>2. \A t \in DOMAIN ops : RefTo(ops, t) # ref
    BY <1>3 DEF Valid, RefTo
  <2>3. MissesNamed'
    BY <1>1, <2>1, <2>2 DEF Front, MissesNamed
  <2>4. QED
    BY <1>1, <2>1, <2>3, BackEndFront DEF Same
<1>4. QED
  BY <1>2, <1>3

LEMMA AccessFront ==
    ASSUME IInv, Front, NEW f \in FUs, NEW outcome \in Outcomes, DcacheAccess(f, outcome)
    PROVE  Front'
<1>1. PICK s : s = AtDcache(f)
  OBVIOUS
<1>2. /\ s \in DOMAIN ops
      /\ \/ UNCHANGED ops
         \/ Supply(s)
         \/ OnlyState(s, "MISS") \/ OnlyState(s, "WAIT_DCACHE") \/ OnlyState(s, "WAIT_MEM")
  BY <1>1, AccessExact
<1>3. /\ DOMAIN ops' = DOMAIN ops
      /\ \A t \in DOMAIN ops : Same(ops'[t], ops[t]) /\ SameFront(ops'[t], ops[t])
  <2>1. CASE UNCHANGED ops
    BY <2>1 DEF Same, SameFront
  <2>2. CASE Supply(s)
    BY <1>2, <2>2, SupplyExact
  <2>3. QED
    BY <1>2, <2>1, <2>2 DEF OnlyState
<1>4. MissesNamed'
  BY AccessMisses DEF Front
<1>5. UNCHANGED streams /\ phase = "dcache"
  BY DEF DcacheAccess, streams
<1>6. QED
  BY <1>3, <1>4, <1>5, BackEndFront DEF SameFront

LEMMA IssueFront == ASSUME IInv, Front, Issue PROVE Front'
<1>1. PICK s \in DOMAIN ops :
         /\ ops[s].stage = "map"
         /\ DOMAIN ops' = DOMAIN ops
         /\ \A t \in DOMAIN ops :
              /\ Same(ops'[t], ops[t])
              /\ ops'[t].executed = ops[t].executed
              /\ ops'[t].recoverySched = ops[t].recoverySched
              /\ ops'[t].redirectSched = ops[t].redirectSched
              /\ ops'[t].stage = IF t = s THEN "node" ELSE ops[t].stage
              /\ ops'[t].state = IF t = s THEN "ISSUED" ELSE ops[t].state
  BY IssueExact
<1>2. ops[s].state = "FETCHED"
  BY <1>1 DEF IInv, StateOfStage
<1>3. UNCHANGED <<fetch, recovery, redirect, misses>> /\ phase = "issue"
  BY DEF Issue, streams, units
<1>4. \A t \in DOMAIN ops : /\ Same(ops'[t], ops[t])
                            /\ ops'[t].state = "MISS" <=> ops[t].state = "MISS"
  BY <1>1, <1>2
<1>5. MissesNamed'
  BY <1>1, <1>3, <1>4, MissesStay DEF Front
<1>6. QED
  BY <1>1, <1>3, <1>5, BackEndFront DEF streams

LEMMA StationFront == ASSUME IInv, Front, NEW r \in Stations, FillRS(r) PROVE Front'
<1>1. PICK s : s = nextIntoRS
  OBVIOUS
<1>2. /\ s \in DOMAIN ops /\ ops[s].state = "ISSUED"
      /\ OnlyState(s, IF ops[s].notRdy = {} THEN "READY" ELSE "IN_RS")
  BY <1>1, FillExact
<1>3. UNCHANGED <<fetch, recovery, redirect, misses>> /\ phase = "fill"
  BY DEF FillRS, streams, units
<1>4. /\ DOMAIN ops' = DOMAIN ops
      /\ \A t \in DOMAIN ops : /\ Same(ops'[t], ops[t]) /\ SameFront(ops'[t], ops[t])
                               /\ ops'[t].state = "MISS" <=> ops[t].state = "MISS"
  BY <1>2 DEF OnlyState
<1>5. MissesNamed'
  BY <1>3, <1>4, MissesStay DEF Front
<1>6. QED
  BY <1>3, <1>4, <1>5, BackEndFront DEF streams, SameFront

LEMMA MapFront == ASSUME IInv, Front, MapStage PROVE Front'
<1>1. /\ DOMAIN ops' = DOMAIN ops
      /\ \A t \in DOMAIN ops :
           /\ Same(ops'[t], ops[t])
           /\ ops'[t].executed = ops[t].executed /\ ops'[t].state = ops[t].state
           /\ ops'[t].recoverySched = ops[t].recoverySched
           /\ ops'[t].redirectSched = ops[t].redirectSched
           /\ ops'[t].stage = ops[t].stage \/ (ops[t].stage = "dec" /\ ops'[t].stage = "map")
  BY MapExact
<1>2. UNCHANGED <<fetch, recovery, redirect, misses>> /\ phase = "map"
  BY DEF MapStage, streams, units
<1>3. MissesNamed'
  BY <1>1, <1>2, MissesStay DEF Front
<1>4. QED
  BY <1>1, <1>2, <1>3, BackEndFront DEF streams

LEMMA FrontNext ==
    ASSUME ~WidthReached, IInv, Execution, Front, [Next]_vars
    PROVE  Front'
<1>1. CASE Recover \/ Redirect \/ Retire \/ DecodeStage
  BY <1>1, RecoverFront, RedirectFront, RetireFront, DecodeFront
<1>2. CASE \E ref \in misses : DcacheFill(ref)
  BY <1>2, FillFront
<1>3. CASE \E f \in FUs, outcome \in Outcomes : DcacheAccess(f, outcome)
  BY <1>3, AccessFront
<1>4. CASE \E f \in FUs : Latch(f)
  BY <1>4, LatchFront
<1>5. CASE Issue \/ (\E r \in Stations : FillRS(r)) \/ MapStage
  BY <1>5, IssueFront, StationFront, MapFront
<1>6. CASE \E inst \in Insts : \E prediction \in Predictions(inst) : FetchOp(inst, prediction)
  BY <1>6, FetchFront
<1>7. CASE \/ NoStream \/ MemoryDone \/ DcacheDone \/ (\E f \in FUs : Reject(f)) \/ ExecDone
           \/ IssueDone \/ HandleScheduled \/ FillDone \/ RetireDone
           \/ (\E pick \in [FUs -> ready \cup {0}] : Schedule(pick))
           \/ UNCHANGED vars
  <2>1. /\ UNCHANGED <<ops, streams, misses>>
        /\ redirect.due /\ phase \in {"icache", "sched", "istreams"} =>
              phase' \in {"icache", "sched", "istreams"}
    BY <1>7 DEF NoStream, MemoryDone, DcacheDone, Reject, ExecDone, IssueDone,
                HandleScheduled, FillDone, RetireDone, Schedule, vars, streams, units
  <2>2. QED
    BY <2>1, QuietFront
<1>8. CASE IcacheFill \/ FetchEnd \/ \E next \in {"FETCH", "WAIT_MISS"} : FetchMiss(next)
  <2>1. /\ fetch \in [next : {"FETCH", "WAIT_MISS", "WAIT_REDIRECT", "WAIT_EMPTY_ROB"},
                      offPath : BOOLEAN, backOnPath : BOOLEAN, opCount : Nat \ {0}]
        /\ OffPath \in BOOLEAN
    BY DEF IInv, TypeOK, OffPath
  <2>2. /\ UNCHANGED <<ops, recovery, redirect, misses>>
        /\ fetch.next \in {"FETCH", "WAIT_MISS"}
    BY <1>8 DEF IcacheFill, FetchEnd, FetchMiss, CanFetch, units
  <2>3. fetch'.next \in {"FETCH", "WAIT_MISS"} /\ (OffPath' <=> OffPath)
    <3>1. CASE IcacheFill
      BY <2>1, <3>1 DEF IcacheFill, OffPath
    <3>2. CASE FetchEnd
      BY <2>1, <2>2, <3>2 DEF FetchEnd, OffPath
    <3>3. CASE \E next \in {"FETCH", "WAIT_MISS"} : FetchMiss(next)
      BY <2>1, <3>3 DEF FetchMiss, OffPath
    <3>4. QED
      BY <1>8, <3>1, <3>2, <3>3
  <2>4. QED
    BY <2>2, <2>3, FetchStays
<1>9. CASE FetchIdle
  <2>1. UNCHANGED <<ops, recovery, redirect, misses>> /\ phase' = "sched"
    BY <1>9 DEF FetchIdle, units
  <2>2. CASE fetch.next = "WAIT_EMPTY_ROB" /\ ops = [s \in {} |-> 0]
    <3>1. fetch' = [fetch EXCEPT !.next = "FETCH"]
      BY <1>9, <2>2 DEF FetchIdle
    <3>2. fetch'.next = "FETCH" /\ (OffPath' <=> OffPath)
      BY <3>1 DEF IInv, TypeOK, OffPath
    <3>3. DOMAIN ops = {}
      BY <2>2
    <3>4. QED
      BY <2>1, <2>2, <3>2, <3>3, FetchStays
  <2>3. CASE ~(fetch.next = "WAIT_EMPTY_ROB" /\ ops = [s \in {} |-> 0])
    <3>1. fetch' = fetch
      BY <1>9, <2>3 DEF FetchIdle
    <3>2. QED
      BY <2>1, <3>1, QuietFront DEF streams
  <2>4. QED
    BY <2>2, <2>3
<1>10. QED
  BY Zenon, <1>1, <1>2, <1>3, <1>4, <1>5, <1>6, <1>7, <1>8, <1>9 DEF Next
-----------------------------------------------------------------------------
(* The steps that leave every op what it is.                                *)

LEMMA SameOps ==
    ASSUME ~WidthReached, IInv, Execution, RedirectOwner, [Next]_vars
    PROVE  \/ Recover \/ Retire
           \/ \E inst \in Insts : \E prediction \in Predictions(inst) :
                 FetchOp(inst, prediction)
           \/ /\ DOMAIN ops' = DOMAIN ops /\ \A t \in DOMAIN ops : Same(ops'[t], ops[t])
              /\ UNCHANGED maps /\ retOp' = retOp /\ fetch'.opCount = fetch.opCount
<1> DEFINE Stays == DOMAIN ops' = DOMAIN ops /\ \A t \in DOMAIN ops : Same(ops'[t], ops[t])
           Counts == UNCHANGED maps /\ retOp' = retOp /\ fetch'.opCount = fetch.opCount
           Fetches == \E inst \in Insts : \E prediction \in Predictions(inst) :
                         FetchOp(inst, prediction)
<1>1. Redirect => Stays
  <2>1. Redirect => redirect.slot \in DOMAIN ops
    BY DEF Redirect, RedirectOwner, Last
  <2>2. QED
    BY <2>1, RedirectExact
<1>2. ASSUME NEW ref \in misses, DcacheFill(ref) PROVE Stays
  <2>1. CASE Valid(ops, ref)
    BY <1>2, <2>1, SupplyExact DEF DcacheFill, Valid
  <2>2. CASE ~Valid(ops, ref)
    BY <1>2, <2>2 DEF DcacheFill, Same
  <2>3. QED
    BY <2>1, <2>2
<1>3. ASSUME NEW f \in FUs, NEW outcome \in Outcomes, DcacheAccess(f, outcome) PROVE Stays
  <2>1. PICK s : s = AtDcache(f)
    OBVIOUS
  <2>2. /\ s \in DOMAIN ops
        /\ \/ UNCHANGED ops
           \/ Supply(s)
           \/ OnlyState(s, "MISS") \/ OnlyState(s, "WAIT_DCACHE") \/ OnlyState(s, "WAIT_MEM")
    BY <1>3, <2>1, AccessExact
  <2>3. CASE UNCHANGED ops
    BY <2>3 DEF Same
  <2>4. CASE Supply(s)
    BY <2>2, <2>4, SupplyExact
  <2>5. QED
    BY <2>2, <2>3, <2>4 DEF OnlyState
<1>4. ASSUME NEW f \in FUs, Latch(f) PROVE Stays
  BY <1>4, LatchExact
<1>5. Issue => Stays
  BY IssueExact
<1>6. ASSUME NEW r \in Stations, FillRS(r) PROVE Stays
  BY <1>6, FillExact DEF OnlyState
<1>7. MapStage \/ DecodeStage => Stays
  BY MapExact, DecodeExact
<1>8. UNCHANGED ops => Stays
  BY DEF Same
<1> HIDE DEF Stays
<1>9. Next => \/ Recover \/ Retire \/ Fetches
              \/ Redirect \/ (\E ref \in misses : DcacheFill(ref))
              \/ (\E f \in FUs, outcome \in Outcomes : DcacheAccess(f, outcome))
              \/ (\E f \in FUs : Latch(f)) \/ Issue \/ (\E r \in Stations : FillRS(r))
              \/ MapStage \/ DecodeStage \/ UNCHANGED ops
  BY DEF Next, NoStream, IcacheFill, MemoryDone, DcacheDone, Reject, ExecDone, IssueDone,
         HandleScheduled, FillDone, RetireDone, FetchEnd, FetchMiss, FetchIdle, Schedule
<1>10. Recover \/ Retire \/ Fetches \/ Stays
  BY Zenon, <1>1, <1>2, <1>3, <1>4, <1>5, <1>6, <1>7, <1>8, <1>9 DEF vars
<1>11. Recover \/ Retire \/ Fetches \/ Counts
  <2>1. fetch \in [next : {"FETCH", "WAIT_MISS", "WAIT_REDIRECT", "WAIT_EMPTY_ROB"},
                   offPath : BOOLEAN, backOnPath : BOOLEAN, opCount : Nat \ {0}]
    BY DEF IInv, TypeOK
  <2>2. CASE Redirect \/ IcacheFill \/ FetchEnd \/ FetchIdle
             \/ \E next \in {"FETCH", "WAIT_MISS"} : FetchMiss(next)
    BY <2>1, <2>2 DEF Redirect, IcacheFill, FetchEnd, FetchMiss, FetchIdle
  <2>3. CASE \/ NoStream \/ MemoryDone \/ (\E ref \in misses : DcacheFill(ref)) \/ DcacheDone
             \/ (\E f \in FUs, outcome \in Outcomes : DcacheAccess(f, outcome))
             \/ (\E f \in FUs : Latch(f) \/ Reject(f)) \/ ExecDone
             \/ Issue \/ IssueDone \/ HandleScheduled
             \/ (\E r \in Stations : FillRS(r)) \/ FillDone \/ RetireDone
             \/ MapStage \/ DecodeStage
             \/ (\E pick \in [FUs -> ready \cup {0}] : Schedule(pick))
             \/ UNCHANGED vars
    <3>1. CASE \/ NoStream \/ MemoryDone \/ (\E ref \in misses : DcacheFill(ref)) \/ DcacheDone
               \/ (\E f \in FUs, outcome \in Outcomes : DcacheAccess(f, outcome))
      BY Zenon, <3>1 DEF NoStream, MemoryDone, DcacheFill, DcacheDone, DcacheAccess, streams
    <3>2. CASE (\E f \in FUs : Latch(f) \/ Reject(f)) \/ ExecDone
      <4>1. ASSUME NEW f \in FUs, Latch(f) PROVE UNCHANGED <<maps, retOp, fetch>>
        BY ZenonT(60), <4>1 DEF Latch
      <4>2. CASE (\E f \in FUs : Reject(f)) \/ ExecDone
        BY Zenon, <4>2 DEF Reject, ExecDone, streams
      <4>3. QED
        BY Zenon, <3>2, <4>1, <4>2
    <3>3. CASE \/ Issue \/ IssueDone \/ HandleScheduled
               \/ (\E r \in Stations : FillRS(r)) \/ FillDone \/ RetireDone
      BY Zenon, <3>3 DEF Issue, IssueDone, HandleScheduled, FillRS, FillDone, RetireDone, streams
    <3>4. CASE \/ MapStage \/ DecodeStage
               \/ (\E pick \in [FUs -> ready \cup {0}] : Schedule(pick)) \/ UNCHANGED vars
      BY Zenon, <3>4 DEF MapStage, DecodeStage, Schedule, vars, streams
    <3>5. QED
      BY Zenon, <2>3, <3>1, <3>2, <3>3, <3>4
  <2> HIDE DEF Counts, Fetches
  <2>4. QED
    BY Zenon, <2>2, <2>3 DEF Next, Fetches
<1>12. QED
  BY <1>10, <1>11 DEF Stays

LEMMA MapsNext ==
    ASSUME ~WidthReached, IInv, Execution, Front, Maps, [Next]_vars
    PROVE  Maps'
<1>1. PathMarked /\ RecoveryOwner /\ RedirectOwner
  BY DEF Front
<1>2. \/ Recover \/ Retire
      \/ \E inst \in Insts : \E prediction \in Predictions(inst) : FetchOp(inst, prediction)
      \/ /\ DOMAIN ops' = DOMAIN ops /\ \A t \in DOMAIN ops : Same(ops'[t], ops[t])
         /\ UNCHANGED maps
  BY <1>1, SameOps
<1>3. CASE Recover
  BY <1>1, <1>3, RecoverMaps
<1>4. CASE Retire
  BY <1>4, RetireMaps
<1>5. CASE \E inst \in Insts : \E prediction \in Predictions(inst) : FetchOp(inst, prediction)
  BY <1>1, <1>5, FetchMaps
<1>6. CASE /\ DOMAIN ops' = DOMAIN ops /\ \A t \in DOMAIN ops : Same(ops'[t], ops[t])
           /\ UNCHANGED maps
  BY <1>6, MapsStay
<1>7. QED
  BY <1>2, <1>3, <1>4, <1>5, <1>6

\* The op that retires has the number the node stage expects (it asserts it).
LEMMA OldestIsNext ==
    ASSUME IInv, Numbered, NEW s \in DOMAIN ops,
           \A t \in DOMAIN ops : t # s => ops[s].num < ops[t].num
    PROVE  ops[s].num = retOp
<1>1. retOp \in Nat /\ retOp <= ops[s].num
  BY DEF IInv, TypeOK, Numbered
<1>2. retOp \in retOp .. fetch.opCount - 1
  BY <1>1, Nums
<1>3. PICK t \in DOMAIN ops : ops[t].num = retOp
  BY <1>2 DEF Numbered
<1>4. QED
  BY <1>1, <1>3, Nums

LEMMA NumberedNext ==
    ASSUME ~WidthReached, IInv, Execution, Front, Numbered, [Next]_vars
    PROVE  Numbered'
<1>1. PathMarked /\ RecoveryOwner /\ RedirectOwner
  BY DEF Front
<1>2. retOp \in Nat /\ fetch.opCount \in Nat
  BY DEF IInv, TypeOK
<1>3. CASE Recover
  <2>1. /\ DOMAIN ops' = {t \in DOMAIN ops : ops[t].num <= recovery.num}
        /\ \A t \in DOMAIN ops' : ops'[t].num = ops[t].num
    BY <1>3, RecoverExact DEF SameStay, Same
  <2>2. fetch'.opCount = recovery.num + 1 /\ retOp' = retOp /\ recovery.num > 0
    BY <1>3 DEF Recover, IInv, TypeOK
  <2>3. PICK b \in DOMAIN ops : ops[b].num = recovery.num
    BY <1>1, <2>2, Owner
  <2>4. retOp <= recovery.num /\ recovery.num < fetch.opCount /\ recovery.num \in Nat
    BY <2>3, Nums DEF Numbered
  <2>5. ASSUME NEW n \in retOp .. recovery.num
        PROVE  \E s \in DOMAIN ops' : ops'[s].num = n
    <3>1. PICK s \in DOMAIN ops : ops[s].num = n
      BY <1>2, <2>4 DEF Numbered
    <3>2. QED
      BY <1>2, <2>1, <2>4, <3>1
  <2>6. QED
    BY <1>2, <2>1, <2>2, <2>4, <2>5 DEF Numbered
<1>4. CASE Retire
  <2>1. PICK s \in Node :
           /\ \A t \in DOMAIN ops : t # s => ops[s].num < ops[t].num
           /\ DOMAIN ops' = DOMAIN ops \ {s}
           /\ \A t \in DOMAIN ops' : ops'[t] = ops[t]
    BY <1>4, RetireExact
  <2>2. s \in DOMAIN ops
    BY DEF Node, In
  <2>3. ops[s].num = retOp
    BY <2>1, <2>2, OldestIsNext
  <2>4. retOp' = retOp + 1 /\ fetch' = fetch
    BY <1>4 DEF Retire, streams
  <2>5. \A t \in DOMAIN ops' : retOp' <= ops'[t].num
    BY <1>2, <2>1, <2>3, <2>4, Nums
  <2>6. ASSUME NEW n \in retOp' .. fetch'.opCount - 1
        PROVE  \E t \in DOMAIN ops' : ops'[t].num = n
    <3>1. PICK t \in DOMAIN ops : ops[t].num = n
      BY <1>2, <2>4 DEF Numbered
    <3>2. QED
      BY <1>2, <2>1, <2>3, <2>4, <3>1
  <2>7. retOp' <= fetch'.opCount
    BY <1>2, <2>2, <2>3, <2>4, Nums
  <2>8. QED
    BY <2>5, <2>6, <2>7 DEF Numbered
<1>5. CASE \E inst \in Insts : \E prediction \in Predictions(inst) : FetchOp(inst, prediction)
  <2> PICK inst \in Insts : \E prediction \in Predictions(inst) : FetchOp(inst, prediction)
    BY <1>5
  <2>1. PICK prediction \in Predictions(inst) : FetchOp(inst, prediction)
    OBVIOUS
  <2>2. PICK n \in Nat \ {0}, unique \in Nat \ {0} :
           /\ n \notin DOMAIN ops
           /\ DOMAIN ops' = DOMAIN ops \cup {n}
           /\ \A t \in DOMAIN ops : ops'[t] = ops[t]
           /\ ops'[n] = NewOp(inst, prediction, unique)
    BY <2>1, FetchExact
  <2>3. ops'[n].num = fetch.opCount
    BY <2>2 DEF NewOp
  <2>4. fetch'.opCount = fetch.opCount + 1 /\ retOp' = retOp
    BY <2>1 DEF FetchOp
  <2>5. ASSUME NEW m \in retOp' .. fetch'.opCount - 1
        PROVE  \E t \in DOMAIN ops' : ops'[t].num = m
    <3>1. CASE m = fetch.opCount
      BY <2>2, <2>3, <3>1
    <3>2. CASE m # fetch.opCount
      <4>1. m \in retOp .. fetch.opCount - 1
        BY <1>2, <2>4, <3>2
      <4>2. QED
        BY <2>2, <4>1 DEF Numbered
    <3>3. QED
      BY <3>1, <3>2
  <2>6. retOp' <= fetch'.opCount /\ \A t \in DOMAIN ops' : retOp' <= ops'[t].num
    BY <1>2, <2>2, <2>3, <2>4 DEF Numbered
  <2>7. QED
    BY <2>5, <2>6 DEF Numbered
<1>6. CASE /\ DOMAIN ops' = DOMAIN ops /\ \A t \in DOMAIN ops : Same(ops'[t], ops[t])
           /\ retOp' = retOp /\ fetch'.opCount = fetch.opCount
  BY <1>6 DEF Numbered, Same
<1>7. QED
  BY <1>1, <1>3, <1>4, <1>5, <1>6, SameOps
-----------------------------------------------------------------------------
(* The invariant, and what follows from it.                                 *)

\* What holds of the pipeline between any two steps.
PipeInv == IInv /\ Flow /\ Front /\ Maps /\ Numbered

LEMMA PipeInit == Init => PipeInv
<1> SUFFICES ASSUME Init PROVE PipeInv
  OBVIOUS
<1>1. DOMAIN ops = {}
  BY DEF Init
<1>2. IInv
  BY InitHolds
<1>3. Flow
  BY <1>1 DEF Flow, Execution, WakeLists, SourcesOlder, SourcesAwaited
<1>4. /\ recovery.num = 0 /\ redirect.slot = 0 /\ fetch.next = "FETCH" /\ ~OffPath
      /\ retOp = 1 /\ fetch.opCount = 1
  BY DEF Init, NoRecovery, NoRedirect, OffPath
<1>5. Front
  <2>1. Unresolved = {}
    BY <1>1 DEF Unresolved
  <2>2. QED
    BY <1>1, <1>4, <2>1 DEF Front, Predicted, PathMarked, RecoveryOwner, RedirectOwner,
                            Stopped, BarrierLast, MissesNamed
<1>6. Maps
  <2>1. /\ \A r : OnOf(Writers(r)) = {} /\ OffOf(Writers(r)) = {}
        /\ \A a : OnOf(Stores(a)) = {} /\ OffOf(Stores(a)) = {}
        /\ \A ref : ~Valid(ops, ref)
    BY <1>1 DEF OnOf, OffOf, Writers, Stores, Valid
  <2>2. RegMapExact
    BY <1>1, <2>1 DEF Init, RegMapInit, RegMapExact
  <2>3. StoreMapExact
    BY <1>1, <2>1 DEF Init, StoreMapInit, StoreMapExact
  <2>4. QED
    BY <2>2, <2>3 DEF Maps
<1>7. Numbered
  BY <1>1, <1>4 DEF Numbered
<1>8. QED
  BY <1>2, <1>3, <1>5, <1>6, <1>7 DEF PipeInv

LEMMA PipeNext == ~WidthReached /\ PipeInv /\ [Next]_vars => PipeInv'
<1> SUFFICES ASSUME ~WidthReached, PipeInv, [Next]_vars PROVE PipeInv'
  OBVIOUS
<1>1. IInv /\ Flow /\ Front /\ Maps /\ Numbered /\ Execution /\ PathMarked
  BY DEF PipeInv, Flow, Front
<1>2. IInv'
  BY <1>1, NextHolds
<1>3. QED
  BY <1>1, <1>2, FlowNext, FrontNext, MapsNext, NumberedNext DEF PipeInv

\* Every source an op waits for in the back end is older, in flight, and will tell it.
LEMMA WakeupsKept == PipeInv => NoLostWakeup
<1> SUFFICES ASSUME PipeInv, NEW s \in DOMAIN ops
             PROVE  /\ ops[s].stage \in {"map", "node"} =>
                         \A d \in ops[s].notRdy :
                            /\ Valid(ops, d.ref)
                            /\ ops[d.ref.slot].num < ops[s].num
                            /\ d.type \notin ops[d.ref.slot].signaled
                            /\ [ref |-> RefTo(ops, s), type |-> d.type]
                                  \in ops[d.ref.slot].wakeUp
                    /\ ops[s].state = "IN_RS" => ops[s].notRdy # {}
                    /\ ops[s].state = "READY" => s \in ready /\ ops[s].notRdy = {}
  BY DEF NoLostWakeup
<1>1. /\ ops[s].state = "IN_RS" => ops[s].notRdy # {}
      /\ ops[s].state = "READY" => s \in ready /\ ops[s].notRdy = {}
  BY DEF PipeInv, IInv, ReadyList, Flow, Execution, Sound
<1>2. QED
  BY <1>1 DEF PipeInv, Flow, WakeLists, SourcesOlder

\* Of the sources an op has executed without waiting for, the one that matters has
\* delivered.
LEMMA AwaitedDelivered ==
    ASSUME IInv, Execution, NEW S \in SUBSET DOMAIN ops, NEW s \in DOMAIN ops,
           ops[s].executed, NEW type, Awaited(S, s, type)
    PROVE  Delivered(S, s, type)
<1> SUFFICES ASSUME Before(S, s) # {}
             PROVE  LET t == Youngest(ops, Before(S, s))
                    IN ops[t].executed /\ type \in ops[t].signaled
  BY DEF Delivered
<1>1. Before(S, s) \in SUBSET DOMAIN ops
  BY DEF Before
<1>2. PICK t \in Before(S, s) : LastOf(t, Before(S, s))
  BY <1>1, HasLast
<1>3. Youngest(ops, Before(S, s)) = t
  BY <1>1, <1>2, YoungestIsLast
<1>4. t \in S /\ t \in DOMAIN ops /\ LastBefore(t, S, s)
  BY <1>1, <1>2 DEF LastOf, LastBefore, Before
<1>5. ops[s].notRdy = {}
  BY DEF Execution, Sound
<1>6. type \in ops[t].signaled
  BY <1>4, <1>5 DEF Awaited
<1>7. ops[t].executed
  BY <1>4, <1>6 DEF Execution, Sound
<1>8. QED
  BY <1>3, <1>6, <1>7

LEMMA ValuesRight == PipeInv => DataFlow
<1> SUFFICES ASSUME PipeInv, NEW s \in DOMAIN ops, ops[s].executed
             PROVE  /\ \A r \in ops[s].inst.srcs : Delivered(Writers(r), s, "reg")
                    /\ ops[s].inst.mem = "load" =>
                         Delivered(Stores(ops[s].inst.addr), s, "data")
  BY DEF DataFlow
<1>1. IInv /\ Execution /\ SourcesAwaited
  BY DEF PipeInv, Flow
<1>2. ASSUME NEW r \in ops[s].inst.srcs PROVE Delivered(Writers(r), s, "reg")
  <2>1. Writers(r) \in SUBSET DOMAIN ops
    BY DEF Writers
  <2>2. Awaited(Writers(r), s, "reg")
    BY <1>1 DEF SourcesAwaited
  <2>3. QED
    BY <1>1, <2>1, <2>2, AwaitedDelivered
<1>3. ASSUME ops[s].inst.mem = "load" PROVE Delivered(Stores(ops[s].inst.addr), s, "data")
  <2>1. Stores(ops[s].inst.addr) \in SUBSET DOMAIN ops
    BY DEF Stores
  <2>2. Awaited(Stores(ops[s].inst.addr), s, "data")
    BY <1>1, <1>3 DEF SourcesAwaited
  <2>3. QED
    BY <1>1, <2>1, <2>2, AwaitedDelivered
<1>4. QED
  BY <1>2, <1>3

LEMMA FrontAnswered == PipeInv => FrontEndInStep
<1> SUFFICES ASSUME PipeInv PROVE FrontEndInStep
  OBVIOUS
<1>1. IInv /\ Front
  BY DEF PipeInv
<1>2. ASSUME NEW s, Last(s) PROVE s = Youngest(ops, DOMAIN ops)
  <2>1. LastOf(s, DOMAIN ops)
    BY <1>2 DEF Last, LastOf
  <2>2. QED
    BY <1>1, <2>1, YoungestIsLast
<1>3. \A s \in DOMAIN ops :
        /\ ops[s].recoverySched => recovery = [num |-> ops[s].num, offPath |-> FALSE]
        /\ ops[s].redirectSched => redirect.slot = s /\ redirect.num = ops[s].num
        /\ "fetch" \in ops[s].inst.bar => s = Youngest(ops, DOMAIN ops)
        /\ ops[s].state = "MISS" <=> RefTo(ops, s) \in misses
  BY <1>1, <1>2 DEF Front, RecoveryOwner, RedirectOwner, BarrierLast, MissesNamed
<1>4. recovery.num > 0 => \E s \in DOMAIN ops : ops[s].num = recovery.num /\ ops[s].wrong
  BY <1>1, Owner DEF Front
<1>5. redirect.slot # 0 => redirect.slot \in DOMAIN ops /\ fetch.next = "WAIT_REDIRECT"
  BY <1>1 DEF Front, RedirectOwner, Last
<1>6. ASSUME fetch.next = "WAIT_REDIRECT"
      PROVE  /\ DOMAIN ops # {}
             /\ LET s == Youngest(ops, DOMAIN ops)
                IN /\ ops[s].btb # "hit"
                   /\ \/ redirect.slot = s
                      \/ recovery.num > 0
                      \/ ops[s].stage = "ic" \/ ~ops[s].executed
  <2>1. PICK s \in DOMAIN ops :
           /\ Last(s) /\ ops[s].btb # "hit"
           /\ \/ redirect.slot = s
              \/ recovery.num > 0
              \/ ops[s].stage = "ic"
              \/ ops[s].btb = "noTarget" /\ ~ops[s].executed
    BY <1>1, <1>6 DEF Front, Stopped
  <2>2. s = Youngest(ops, DOMAIN ops)
    BY <1>2, <2>1
  <2>3. QED
    BY <2>1, <2>2
<1>7. WaitsAnswered
  BY <1>3, <1>4, <1>5, <1>6 DEF WaitsAnswered
<1>8. QED
  BY <1>1, <1>7 DEF Front, FrontEndInStep

\* No op waits for a result that was given out before it began to wait, or that was
\* flushed: wake_up_ops, add_to_wake_up_lists and the reuse of op pool slots cooperate.
THEOREM NoWakeupIsLost == Spec /\ []~WidthReached => []NoLostWakeup
<1>1. Init => PipeInv
  BY PipeInit
<1>2. PipeInv /\ ~WidthReached /\ [Next]_vars => PipeInv'
  BY PipeNext
<1>3. PipeInv => NoLostWakeup
  BY WakeupsKept
<1>4. QED
  BY <1>1, <1>2, <1>3, PTL DEF Spec

\* After any fetches, retirements and recoveries the register map and the store map of
\* map.c name the youngest writer in flight.
THEOREM MapsAreExact == Spec /\ []~WidthReached => []MapsNameYoungest
<1>1. Init => PipeInv
  BY PipeInit
<1>2. PipeInv /\ ~WidthReached /\ [Next]_vars => PipeInv'
  BY PipeNext
<1>3. PipeInv => MapsNameYoungest
  BY NamesYoungest DEF PipeInv, Front
<1>4. QED
  BY <1>1, <1>2, <1>3, PTL DEF Spec

\* Whatever the order of execution, an op runs after the last writer of each of its
\* sources, and a load after the last store to its address.
THEOREM ValuesOfTheProgram == Spec /\ []~WidthReached => []DataFlow
<1>1. Init => PipeInv
  BY PipeInit
<1>2. PipeInv /\ ~WidthReached /\ [Next]_vars => PipeInv'
  BY PipeNext
<1>3. PipeInv => DataFlow
  BY ValuesRight
<1>4. QED
  BY <1>1, <1>2, <1>3, PTL DEF Spec

\* Fetch and the ops in flight agree on what is on the path, and a stopped fetch waits
\* for an op that will answer it: no recovery or redirection is dropped or given to an
\* op that has left.
THEOREM FetchIsAnswered == Spec /\ []~WidthReached => []FrontEndInStep
<1>1. Init => PipeInv
  BY PipeInit
<1>2. PipeInv /\ ~WidthReached /\ [Next]_vars => PipeInv'
  BY PipeNext
<1>3. PipeInv => FrontEndInStep
  BY FrontAnswered
<1>4. QED
  BY <1>1, <1>2, <1>3, PTL DEF Spec
-----------------------------------------------------------------------------
(* The pipeline implements the machine that works in order.                 *)

\* What InFlight says of the ops of a state, unprimed and primed.
LEMMA ByNumber ==
    ASSUME NEW live, NEW S, \A s, t \in S : live[s].num = live[t].num => s = t,
           NEW f, f = [n \in {live[s].num : s \in S} |->
                         live[CHOOSE s \in S : live[s].num = n].inst]
    PROVE  /\ DOMAIN f = {live[s].num : s \in S}
           /\ \A s \in S : f[live[s].num] = live[s].inst
<1>1. DOMAIN f = {live[s].num : s \in S}
  OBVIOUS
<1>2. ASSUME NEW s \in S PROVE f[live[s].num] = live[s].inst
  <2>1. PICK n : n = live[s].num
    OBVIOUS
  <2>2. PICK t : t = CHOOSE u \in S : live[u].num = n
    OBVIOUS
  <2>3. t \in S /\ live[t].num = n
    BY <2>1, <2>2
  <2>4. t = s
    BY <2>1, <2>3
  <2>5. f[n] = live[t].inst
    BY <2>1, <2>2
  <2>6. QED
    BY <2>1, <2>4, <2>5
<1>3. QED
  BY <1>1, <1>2

LEMMA FlightNow ==
    ASSUME IInv
    PROVE  /\ InFlight = [n \in DOMAIN InFlight |-> InFlight[n]]
           /\ DOMAIN InFlight = {ops[s].num : s \in OnPath}
           /\ \A s \in OnPath : InFlight[ops[s].num] = ops[s].inst
<1>1. \A s, t \in OnPath : ops[s].num = ops[t].num => s = t
  BY Nums DEF OnPath
<1>2. InFlight = [n \in {ops[s].num : s \in OnPath} |->
                    ops[CHOOSE s \in OnPath : ops[s].num = n].inst]
  BY DEF InFlight
<1>3. InFlight = [n \in DOMAIN InFlight |-> InFlight[n]]
  BY DEF InFlight
<1>4. /\ DOMAIN InFlight = {ops[s].num : s \in OnPath}
      /\ \A s \in OnPath : InFlight[ops[s].num] = ops[s].inst
  <2> DEFINE S == OnPath
             f == InFlight
  <2>1. \A s, t \in S : ops[s].num = ops[t].num => s = t
    BY <1>1
  <2>2. f = [n \in {ops[s].num : s \in S} |-> ops[CHOOSE s \in S : ops[s].num = n].inst]
    BY <1>2
  <2> HIDE DEF S, f
  <2>3. /\ DOMAIN f = {ops[s].num : s \in S}
        /\ \A s \in S : f[ops[s].num] = ops[s].inst
    BY <2>1, <2>2, ByNumber
  <2>4. QED
    BY <2>3 DEF S, f
<1>5. QED
  BY <1>3, <1>4

LEMMA FlightNext ==
    ASSUME IInv'
    PROVE  /\ InFlight' = [n \in DOMAIN InFlight' |-> InFlight'[n]]
           /\ DOMAIN InFlight' = {ops'[s].num : s \in OnPath'}
           /\ \A s \in OnPath' : InFlight'[ops'[s].num] = ops'[s].inst
<1>1. \A s, t \in OnPath' : ops'[s].num = ops'[t].num => s = t
  BY DEF OnPath, IInv, AgeOrder
<1>2. InFlight' = [n \in {ops'[s].num : s \in OnPath'} |->
                     ops'[CHOOSE s \in OnPath' : ops'[s].num = n].inst]
  BY DEF InFlight
<1>3. InFlight' = [n \in DOMAIN InFlight' |-> InFlight'[n]]
  BY DEF InFlight
<1>4. PICK S : S = OnPath'
  OBVIOUS
<1>5. PICK f : f = InFlight'
  OBVIOUS
<1>6. PICK live : live = ops'
  OBVIOUS
<1>7. /\ \A s, t \in S : live[s].num = live[t].num => s = t
      /\ f = [n \in {live[s].num : s \in S} |-> live[CHOOSE s \in S : live[s].num = n].inst]
  BY <1>1, <1>2, <1>4, <1>5, <1>6
<1>8. /\ DOMAIN f = {live[s].num : s \in S}
      /\ \A s \in S : f[live[s].num] = live[s].inst
  BY <1>7, ByNumber
<1>9. QED
  BY <1>3, <1>4, <1>5, <1>6, <1>8

\* The same instructions of the path are in flight.
LEMMA FlightStays ==
    ASSUME IInv, IInv', OnPath' = OnPath,
           \A s \in OnPath : ops'[s].num = ops[s].num /\ ops'[s].inst = ops[s].inst
    PROVE  InFlight' = InFlight
<1>1. PICK f : f = InFlight
  OBVIOUS
<1>2. PICK g : g = InFlight'
  OBVIOUS
<1>3. /\ f = [n \in DOMAIN f |-> f[n]] /\ DOMAIN f = {ops[s].num : s \in OnPath}
      /\ \A s \in OnPath : f[ops[s].num] = ops[s].inst
  BY <1>1, FlightNow
<1>4. /\ g = [n \in DOMAIN g |-> g[n]] /\ DOMAIN g = {ops'[s].num : s \in OnPath'}
      /\ \A s \in OnPath' : g[ops'[s].num] = ops'[s].inst
  BY <1>2, FlightNext
<1>5. DOMAIN g = DOMAIN f
  BY <1>3, <1>4
<1>6. \A n \in DOMAIN f : g[n] = f[n]
  BY <1>3, <1>4
<1>7. QED
  BY <1>1, <1>2, <1>3, <1>4, <1>5, <1>6

\* On the path fetch numbers the instructions as the program does.
LEMMA EntersNext ==
    ASSUME PipeInv, ~OffPath
    PROVE  retOp - 1 + Cardinality(DOMAIN InFlight) + 1 = fetch.opCount
<1>1. IInv /\ PathMarked /\ Numbered
  BY DEF PipeInv, Front
<1>2. \A s \in DOMAIN ops : ~ops[s].offPath
  BY <1>1 DEF PathMarked, Before
<1>3. OnPath = DOMAIN ops
  BY <1>2 DEF OnPath
<1>4. retOp \in Nat /\ fetch.opCount \in Nat
  BY <1>1 DEF IInv, TypeOK
<1>5. DOMAIN InFlight = retOp .. fetch.opCount - 1
  <2>1. DOMAIN InFlight = {ops[s].num : s \in DOMAIN ops}
    BY <1>1, <1>3, FlightNow
  <2>2. \A s \in DOMAIN ops : ops[s].num \in retOp .. fetch.opCount - 1
    BY <1>1, <1>4, Nums DEF Numbered
  <2>3. QED
    BY <1>1, <2>1, <2>2 DEF Numbered
<1>6. Cardinality(retOp .. fetch.opCount - 1) = fetch.opCount - retOp
  <2>1. retOp \in Int /\ fetch.opCount - 1 \in Int /\ retOp <= fetch.opCount
    BY <1>1, <1>4 DEF Numbered
  <2>2. Cardinality(retOp .. fetch.opCount - 1) =
           IF retOp > fetch.opCount - 1 THEN 0 ELSE fetch.opCount - 1 - retOp + 1
    BY <2>1, FS_Interval
  <2>3. QED
    BY <1>4, <2>1, <2>2
<1>7. QED
  BY <1>4, <1>5, <1>6

\* Retiring is leaving.
LEMMA RetireLeaves == ASSUME PipeInv, IInv', Retire PROVE Machine!Leave
<1>1. IInv /\ Numbered
  BY DEF PipeInv
<1>2. PICK s \in Node :
         /\ CanRetire(s)
         /\ \A t \in DOMAIN ops : t # s => ops[s].num < ops[t].num
         /\ DOMAIN ops' = DOMAIN ops \ {s}
         /\ \A t \in DOMAIN ops' : ops'[t] = ops[t]
  BY <1>1, RetireExact
<1>3. s \in OnPath /\ s \in DOMAIN ops
  BY <1>2 DEF Node, In, OnPath, CanRetire
<1>4. ops[s].num = retOp
  BY <1>1, <1>2, <1>3, OldestIsNext
<1>5. retOp \in Nat /\ retOp' = retOp + 1
  BY <1>1 DEF IInv, TypeOK, Retire
<1>6. OnPath' = OnPath \ {s} /\ OnPath \subseteq DOMAIN ops
  BY <1>2 DEF OnPath
<1>7. PICK f : f = InFlight
  OBVIOUS
<1>8. PICK g : g = InFlight'
  OBVIOUS
<1>9. /\ f = [n \in DOMAIN f |-> f[n]] /\ DOMAIN f = {ops[t].num : t \in OnPath}
      /\ \A t \in OnPath : f[ops[t].num] = ops[t].inst
  BY <1>1, <1>7, FlightNow
<1>10. /\ g = [n \in DOMAIN g |-> g[n]] /\ DOMAIN g = {ops'[t].num : t \in OnPath'}
       /\ \A t \in OnPath' : g[ops'[t].num] = ops'[t].inst
  BY <1>8, FlightNext
<1>11. \A t \in OnPath' : ops'[t] = ops[t]
  BY <1>2, <1>6
<1>12. DOMAIN g = DOMAIN f \ {retOp}
  BY <1>1, <1>3, <1>4, <1>6, <1>9, <1>10, <1>11, Nums
<1>13. \A n \in DOMAIN g : g[n] = f[n]
  BY <1>6, <1>9, <1>10, <1>11
<1>14. g = [n \in DOMAIN f \ {retOp} |-> f[n]]
  BY <1>10, <1>12, <1>13
<1>15. retOp \in DOMAIN f
  BY <1>3, <1>4, <1>9
<1>16. retOp - 1 + 1 = retOp /\ retOp' - 1 = retOp - 1 + 1
  BY <1>5
<1>17. QED
  BY <1>7, <1>8, <1>14, <1>15, <1>16 DEF Machine!Leave

\* Fetching on the path is entering.
LEMMA FetchEnters ==
    ASSUME PipeInv, IInv', ~OffPath,
           NEW inst \in Insts, NEW prediction \in Predictions(inst), FetchOp(inst, prediction)
    PROVE  Machine!Enter(inst)
<1>1. IInv
  BY DEF PipeInv
<1>2. PICK n \in Nat \ {0}, unique \in Nat \ {0} :
         /\ n \notin DOMAIN ops
         /\ DOMAIN ops' = DOMAIN ops \cup {n}
         /\ \A t \in DOMAIN ops : ops'[t] = ops[t]
         /\ ops'[n] = NewOp(inst, prediction, unique)
  BY <1>1, FetchExact
<1>3. /\ ops'[n].num = fetch.opCount /\ ops'[n].inst = inst
      /\ ops'[n].offPath <=> OffPath
  BY <1>2 DEF NewOp
<1>4. retOp' = retOp /\ fetch.opCount <= ProgramLength
  BY DEF FetchOp, InProgram
<1>5. OnPath' = OnPath \cup {n} /\ OnPath \subseteq DOMAIN ops
  BY <1>2, <1>3 DEF OnPath
<1>6. PICK f : f = InFlight
  OBVIOUS
<1>7. PICK g : g = InFlight'
  OBVIOUS
<1>8. /\ f = [m \in DOMAIN f |-> f[m]] /\ DOMAIN f = {ops[t].num : t \in OnPath}
      /\ \A t \in OnPath : f[ops[t].num] = ops[t].inst
  BY <1>1, <1>6, FlightNow
<1>9. /\ g = [m \in DOMAIN g |-> g[m]] /\ DOMAIN g = {ops'[t].num : t \in OnPath'}
      /\ \A t \in OnPath' : g[ops'[t].num] = ops'[t].inst
  BY <1>7, FlightNext
<1>10. \A t \in OnPath : ops'[t] = ops[t] /\ ops[t].num # fetch.opCount
  BY <1>1, <1>2, <1>5, Nums
<1>11. DOMAIN g = DOMAIN f \cup {fetch.opCount}
  BY <1>3, <1>5, <1>8, <1>9, <1>10
<1>12. \A m \in DOMAIN g : g[m] = IF m = fetch.opCount THEN inst ELSE f[m]
  BY <1>3, <1>5, <1>8, <1>9, <1>10
<1>13. g = [m \in DOMAIN f \cup {fetch.opCount} |->
              IF m = fetch.opCount THEN inst ELSE f[m]]
  BY <1>9, <1>11, <1>12
<1>14. PICK c : c = retOp - 1 + Cardinality(DOMAIN InFlight) + 1
  OBVIOUS
<1>15. c = fetch.opCount
  BY <1>14, EntersNext
<1>16. /\ c <= ProgramLength
       /\ InFlight' = [m \in DOMAIN InFlight \cup {c} |-> IF m = c THEN inst ELSE InFlight[m]]
       /\ retOp' - 1 = retOp - 1
  BY <1>4, <1>6, <1>7, <1>13, <1>15
<1>17. \A S : Machine!Cardinality(S) = Cardinality(S)
  BY Zenon DEF Machine!Cardinality, Cardinality
<1>18. QED
  BY <1>14, <1>16, <1>17 DEF Machine!Enter

LEMMA MachineStep ==
    ASSUME ~WidthReached, PipeInv, PipeInv', [Next]_vars
    PROVE  [Machine!Next]_(Machine!vars)
<1>1. /\ IInv /\ IInv' /\ Execution
      /\ PathMarked /\ RecoveryOwner /\ RedirectOwner
  BY DEF PipeInv, Flow, Front
<1>2. CASE Recover
  <2>1. /\ DOMAIN ops' = {t \in DOMAIN ops : ops[t].num <= recovery.num}
        /\ \A t \in DOMAIN ops' : SameStay(ops'[t], ops[t])
    BY <1>1, <1>2, RecoverExact
  <2>2. recovery.num > 0 /\ retOp' = retOp /\ recovery.num \in Nat
    BY <1>1, <1>2 DEF Recover, IInv, TypeOK
  <2>3. \A t \in OnPath : t \in DOMAIN ops'
    <3> SUFFICES ASSUME NEW t \in DOMAIN ops, ~ops[t].offPath PROVE ops[t].num <= recovery.num
      BY <2>1 DEF OnPath
    <3>1. ~(ops[t].num > recovery.num)
      BY <1>1, <2>2, FlushedOff
    <3>2. QED
      BY <1>1, <2>2, <3>1, Nums
  <2>4. \A t \in DOMAIN ops' : /\ t \in DOMAIN ops
                               /\ ops'[t].offPath = ops[t].offPath
                               /\ ops'[t].num = ops[t].num /\ ops'[t].inst = ops[t].inst
    BY <2>1 DEF SameStay, Same
  <2>5. OnPath' = OnPath
    BY <2>3, <2>4 DEF OnPath
  <2>6. InFlight' = InFlight
    BY <1>1, <2>3, <2>4, <2>5, FlightStays
  <2>7. QED
    BY <2>2, <2>6 DEF Machine!vars
<1>3. CASE Retire
  BY <1>1, <1>3, RetireLeaves DEF Machine!Next
<1>4. CASE \E inst \in Insts : \E prediction \in Predictions(inst) : FetchOp(inst, prediction)
  <2> PICK inst \in Insts : \E prediction \in Predictions(inst) : FetchOp(inst, prediction)
    BY <1>4
  <2>1. PICK prediction \in Predictions(inst) : FetchOp(inst, prediction)
    OBVIOUS
  <2>2. CASE ~OffPath
    BY <1>1, <2>1, <2>2, FetchEnters DEF Machine!Next
  <2>3. CASE OffPath
    <3>1. PICK n \in Nat \ {0}, unique \in Nat \ {0} :
             /\ n \notin DOMAIN ops
             /\ DOMAIN ops' = DOMAIN ops \cup {n}
             /\ \A t \in DOMAIN ops : ops'[t] = ops[t]
             /\ ops'[n] = NewOp(inst, prediction, unique)
      BY <1>1, <2>1, FetchExact
    <3>2. ops'[n].offPath <=> OffPath
      BY <3>1 DEF NewOp
    <3>3. OnPath' = OnPath /\ OnPath \subseteq DOMAIN ops
      BY <2>3, <3>1, <3>2 DEF OnPath
    <3>4. InFlight' = InFlight
      BY <1>1, <3>1, <3>3, FlightStays
    <3>5. retOp' = retOp
      BY <2>1 DEF FetchOp
    <3>6. QED
      BY <3>4, <3>5 DEF Machine!vars
  <2>4. QED
    BY <2>2, <2>3
<1>5. CASE /\ DOMAIN ops' = DOMAIN ops /\ \A t \in DOMAIN ops : Same(ops'[t], ops[t])
           /\ retOp' = retOp
  <2>1. OnPath' = OnPath /\ OnPath \subseteq DOMAIN ops
    BY <1>5 DEF OnPath, Same
  <2>2. InFlight' = InFlight
    BY <1>1, <1>5, <2>1, FlightStays DEF Same
  <2>3. QED
    BY <1>5, <2>2 DEF Machine!vars
<1>6. QED
  BY <1>1, <1>2, <1>3, <1>4, <1>5, SameOps

\* Out-of-order execution, wrong-path fetch, flushes and the reuse of slots are
\* invisible: the instructions of the program enter and leave in program order, each
\* once, and a recovery loses none of them.
THEOREM RefinesInOrder == Spec /\ []~WidthReached => ImplementsInOrder
<1>1. Init => Machine!Init
  <2> SUFFICES ASSUME Init PROVE Machine!Init
    OBVIOUS
  <2>1. OnPath = {} /\ retOp = 1
    BY DEF Init, OnPath
  <2>2. InFlight = [n \in {} |-> 0]
    BY <2>1 DEF InFlight
  <2>3. QED
    BY <2>1, <2>2 DEF Machine!Init
<1>2. Init => PipeInv
  BY PipeInit
<1>3. PipeInv /\ ~WidthReached /\ [Next]_vars => PipeInv'
  BY PipeNext
<1>4. PipeInv /\ PipeInv' /\ ~WidthReached /\ [Next]_vars => [Machine!Next]_(Machine!vars)
  BY MachineStep
<1>5. QED
  BY <1>1, <1>2, <1>3, <1>4, PTL DEF Spec, ImplementsInOrder, Machine!Spec

\* With RS_FILL_WIDTH 0, as the Kaby Lake parameters set it, the loop of node_fill_rs
\* ends only after moving next_op_into_rs on, and nothing else is assumed: stations,
\* wake-ups, maps, data flow, fetch and the order of the program are right.
THEOREM UnlimitedFill ==
    ASSUME FillWidth = 0
    PROVE  Spec => /\ [](TypeOK /\ StationsExact /\ NoLostWakeup)
                   /\ [](MapsNameYoungest /\ DataFlow /\ FrontEndInStep)
                   /\ ImplementsInOrder
<1>1. ~WidthReached
  BY DEF WidthReached
<1>2. QED
  BY <1>1, PipelineTypeCorrect, StationsAreExact, NoWakeupIsLost, MapsAreExact,
     ValuesOfTheProgram, FetchIsAnswered, RefinesInOrder, PTL
=============================================================================

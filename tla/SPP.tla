-------------------------------- MODULE SPP --------------------------------
(***************************************************************************)
(* The Signature Path Prefetcher as a state machine: spp_operate, called   *)
(* for every demand the UL1 reports, and the callback for a used prefetch. *)
(*                                                                         *)
(* The simulator is one thread, so a callback runs to its end before the   *)
(* next one starts.  Its do-while loop is cut at the loop heads: pc says   *)
(* where the callback is, walk holds its locals, and no callback starts    *)
(* before pc is "idle" again.                                              *)
(*                                                                         *)
(* The cache is the environment: ul1 says of every line whether the UL1    *)
(* holds it, holds or awaits it as a prefetch nobody used yet, or neither. *)
(* The request queue is reduced to its answer, TRUE or FALSE.              *)
(***************************************************************************)
EXTENDS SPPSignatureTable, SPPPatternTable, SPPFilter

CONSTANTS
  DemandLines,     \* the lines the trace touches
  EvictableLines,  \* the lines the UL1 may lose
  MaxDemands       \* bound: the length of the trace

ASSUME TraceAssumption ==
  /\ DemandLines \subseteq Lines /\ EvictableLines \subseteq Lines
  /\ MaxDemands \in Nat

VARIABLES
  st, pt, filter, ghr,  \* the four tables
  acc,                  \* pf_useful and pf_issued
  alpha,                \* global_accuracy_pct
  pc, walk,             \* spp_operate: where it is, and its locals
  ul1,                  \* what the UL1 has
  demands,              \* demands presented so far
  ghost                 \* history: filter installs and credits ever made

vars == <<st, pt, filter, ghr, acc, alpha, pc, walk, ul1, demands, ghost>>
tables == <<st, pt, filter, ghr, acc, alpha>>

Walk == [trigger: Lines, base: Int, sig: Sigs, conf: 0 .. UnsRange - 1,
         depth: 0 .. MaxDepth, lookahead: BOOLEAN,
         pending: SUBSET PTWayIds, confs: [PTWayIds -> 0 .. UnsRange - 1]]

NoConfs == [w \in PTWayIds |-> 0]

NewWalk(line, sig, conf) ==
  [trigger |-> line, base |-> line, sig |-> sig, conf |-> conf, depth |-> 0,
   lookahead |-> FALSE, pending |-> {}, confs |-> NoConfs]

NoWalk == NewWalk(0, 0, 0)

Init ==
  /\ st = [s \in STSetIds |-> EmptySTRow]
  /\ pt = [s \in PTSetIds |-> EmptyPTSet]
  /\ filter = EmptyFilter
  /\ ghr = EmptyGHR
  /\ acc = [useful |-> 0, issued |-> 0]
  /\ alpha = 0
  /\ pc = "idle"
  /\ walk = NoWalk
  /\ ul1 = [l \in Lines |-> "absent"]
  /\ demands = 0
  /\ ghost = [installs |-> 0, credits |-> 0]

(***************************************************************************)
(* The effect of a demand on the filter and the counters.                  *)
(***************************************************************************)
Credited(a, f, line) == IF FilterCredits(f, line) THEN CountUseful(a) ELSE a

GhostCredited(g, f, line) ==
  IF FilterCredits(f, line) THEN [g EXCEPT !.credits = @ + 1] ELSE g

(***************************************************************************)
(* spp_operate up to its loop, entered with filter f, counters a: alpha is *)
(* read before the demand counts as a use; the signature table is read and *)
(* updated before the pattern table is trained.                            *)
(***************************************************************************)
Operate(f, a, g, line) ==
  LET page   == PageOf(line)
      offset == OffsetOf(line)
      row    == st[STSetOf[page]]
      tag    == TagOf[page]
      last   == STLastSig(row, tag, offset)
  IN  /\ alpha' = AccuracyPct(a)
      /\ st' = [st EXCEPT ![STSetOf[page]] = STRow(row, ghr, tag, offset)]
      /\ filter' = FilterDemand(f, line)
      /\ acc' = Credited(a, f, line)
      /\ ghost' = GhostCredited(g, f, line)
      /\ pt' = IF last = 0 THEN pt
               ELSE [pt EXCEPT ![PTSetOf[last]] =
                       PTTrain(@, STDelta(row, tag, offset))]
      /\ IF MaxDepth = 0
           THEN pc' = "idle" /\ walk' = NoWalk
           ELSE /\ pc' = "read"
                /\ walk' = NewWalk(line, STCurrSig(row, ghr, tag, offset), 100)
      /\ UNCHANGED ghr

Demand(line) ==
  /\ pc = "idle"
  /\ demands < MaxDemands
  /\ demands' = demands + 1
  /\ ul1' = [ul1 EXCEPT ![line] = "resident"]

\* A demand the UL1 does not have: pref_spp_ul1_miss.
UL1Miss(line) ==
  /\ ul1[line] = "absent"
  /\ Demand(line)
  /\ Operate(filter, acc, ghost, line)

\* A demand the UL1 has: pref_spp_ul1_hit.
UL1Hit(line) ==
  /\ ul1[line] = "resident"
  /\ Demand(line)
  /\ Operate(filter, acc, ghost, line)

\* The first demand to a prefetched line, or one that meets the prefetch in
\* flight: pref_spp_ul1_pref_hit, then pref_spp_ul1_hit.
UL1PrefHit(line) ==
  /\ ul1[line] = "prefetched"
  /\ Demand(line)
  /\ Operate(FilterDemand(filter, line), Credited(acc, filter, line),
             GhostCredited(ghost, filter, line), line)

(***************************************************************************)
(* The lookahead loop.                                                     *)
(***************************************************************************)
WalkRow == pt[PTSetOf[walk.sig]]

\* spp_pt_read_pattern: queue the candidates of this hop.
ReadPattern ==
  LET confs == PTConfs(WalkRow, walk.depth, alpha, walk.conf)
      next  == LookaheadWays(WalkRow, confs)
  IN  /\ pc = "read"
      /\ pc' = "issue"
      /\ walk' = [walk EXCEPT
                    !.confs = confs,
                    !.pending = PTCandidates(WalkRow, confs),
                    !.conf = IF WalkRow.c_sig = 0 THEN @
                             ELSE IF next = {} THEN 0
                             ELSE confs[Min(next)],
                    !.lookahead = FALSE]
      /\ UNCHANGED <<tables, ul1, demands, ghost>>

\* The candidate at the head of the scratch queue.
HeadWay  == Min(walk.pending)
HeadConf == walk.confs[HeadWay]
HeadDelta == WalkRow.ways[HeadWay].delta
HeadLine == walk.base + HeadDelta

InPage(line) == PageOf(line) = PageOf(walk.trigger)

\* Slip: the head of the queue is read but not taken off.
TakeHead_Left ==
  /\ pc = "issue"
  /\ walk.pending # {}
  /\ walk' = [walk EXCEPT !.lookahead = TRUE]
  /\ UNCHANGED <<st, pt, alpha, pc, demands>>

\* Taking it off the queue keeps the chain alive, whatever becomes of it.
TakeHead ==
  /\ pc = "issue"
  /\ walk.pending # {}
  /\ walk' = [walk EXCEPT !.pending = @ \ {HeadWay}, !.lookahead = TRUE]
  /\ UNCHANGED <<st, pt, alpha, pc, demands>>

\* A candidate that is issued rather than muted.
Issuing == HeadConf >= IssueCutoff

SkipBelowCutoff ==
  /\ TakeHead
  /\ ~ Issuing
  /\ UNCHANGED <<filter, ghr, acc, ul1, ghost>>

SkipFiltered ==
  /\ TakeHead
  /\ Issuing
  /\ InPage(HeadLine)
  /\ FilterRefuses(filter, HeadLine)
  /\ UNCHANGED <<filter, ghr, acc, ul1, ghost>>

\* The filter accepts the line and the request queue answers.  A fill-level
\* prefetch has taken its filter slot even when the queue is full.
Issue(queued) ==
  LET fill_l2 == HeadConf >= FillThreshold
  IN  /\ TakeHead
      /\ Issuing
      /\ InPage(HeadLine)
      /\ ~ FilterRefuses(filter, HeadLine)
      /\ filter' = IF fill_l2 THEN FilterInstall(filter, HeadLine) ELSE filter
      /\ ghost' = IF fill_l2 THEN [ghost EXCEPT !.installs = @ + 1] ELSE ghost
      /\ acc' = IF queued /\ fill_l2 THEN CountIssued(acc) ELSE acc
      /\ ul1' = IF queued /\ ul1[HeadLine] = "absent"
                  THEN [ul1 EXCEPT ![HeadLine] = "prefetched"] ELSE ul1
      /\ UNCHANGED ghr

\* A candidate beyond the page is recorded for the page it lands on.
CrossPage ==
  /\ TakeHead
  /\ Issuing
  /\ ~ InPage(HeadLine)
  /\ ghr' = IF GHROn THEN GHRUpdate(ghr, walk.sig, HeadConf,
                                    OffsetOf(HeadLine), HeadDelta)
                     ELSE ghr
  /\ UNCHANGED <<filter, acc, ul1, ghost>>

\* All candidates of this hop are done: walk on along the most confident one,
\* or return.
NextHop ==
  LET next  == LookaheadWays(WalkRow, walk.confs)
      delta == WalkRow.ways[Min(next)].delta
      depth == IF walk.conf >= PFThreshold THEN walk.depth + 1 ELSE walk.depth
      more  == next # {} /\ walk.lookahead /\ depth < MaxDepth /\ LookaheadOn
  IN  /\ pc = "issue"
      /\ walk.pending = {}
      /\ IF more
           THEN /\ pc' = "read"
                /\ walk' = [walk EXCEPT
                              !.base = @ + delta,
                              !.sig = NextSig[<<walk.sig, delta>>],
                              !.depth = depth, !.confs = NoConfs]
           ELSE pc' = "idle" /\ walk' = NoWalk
      /\ UNCHANGED <<tables, ul1, demands, ghost>>

(***************************************************************************)
(* The environment.                                                        *)
(***************************************************************************)

\* The UL1 loses a line, or a queued prefetch is dropped.  The prefetcher is
\* not told: nothing calls the filter with SPP_FILTER_EVICT.
Forget(line) ==
  /\ pc = "idle"
  /\ ul1[line] # "absent"
  /\ ul1' = [ul1 EXCEPT ![line] = "absent"]
  /\ UNCHANGED <<tables, pc, walk, demands, ghost>>

\* pref_spp_done frees the prefetcher; callbacks then return at once.
Done ==
  /\ pc = "idle"
  /\ pc' = "done"
  /\ UNCHANGED <<tables, walk, ul1, demands, ghost>>

CallbackAfterDone == pc = "done" /\ UNCHANGED vars

Step ==
  \/ ReadPattern
  \/ SkipBelowCutoff
  \/ SkipFiltered
  \/ \E queued \in BOOLEAN : Issue(queued)
  \/ CrossPage
  \/ NextHop

Next ==
  \/ \E line \in DemandLines : UL1Miss(line) \/ UL1Hit(line) \/ UL1PrefHit(line)
  \/ Step
  \/ \E line \in EvictableLines : Forget(line)
  \/ Done
  \/ CallbackAfterDone

Spec == Init /\ [][Next]_vars

\* A callback that was entered runs on: it is a loop of the only thread.
FairSpec == Spec /\ WF_vars(Step)

(***************************************************************************)
(* Properties.                                                             *)
(***************************************************************************)

\* Every table, counter and local of the prefetcher stays within its bits:
\* the counters of pref_spp.c saturate or are halved before they overflow.
TypeOK ==
  /\ st \in [STSetIds -> [STWayIds -> STEntry]]
  /\ pt \in [PTSetIds -> PTSet]
  /\ filter \in [SlotIds -> FilterEntry]
  /\ ghr \in [GHRIds -> GHREntry]
  /\ acc \in Accuracy
  /\ alpha \in 0 .. UnsRange - 1
  /\ pc \in {"idle", "read", "issue", "done"}
  /\ walk \in Walk
  /\ ul1 \in [Lines -> {"absent", "prefetched", "resident"}]
  /\ demands \in 0 .. MaxDemands
  /\ ghost \in [installs: Nat, credits: Nat]

\* The lru fields of a row are a permutation of the ways: a victim is always
\* found and no field overflows, the two ASSERTMs of spp_st_read_and_update.
LRUPermutation == \A s \in STSetIds : LRUOrdered(st[s])

\* A page has at most one entry: after a hit on the first match, no second
\* entry of the page is left behind with an older trail.
TagsUnique == \A s \in STSetIds : OneEntryPerTag(st[s])

\* No delta is counted more often than its signature, through saturation,
\* halving and replacement: a first-hop confidence is a percentage.
CountersWithinTotal == \A s \in PTSetIds : WithinTotal(pt[s])

\* What the deltas of a signature predict together is a percentage too.
ConfidencesWithin100 ==
  \A s \in PTSetIds : pt[s].c_sig # 0 =>
    SumFunction([w \in PTWayIds |-> LocalConf(pt[s].ways[w], pt[s].c_sig)])
      =< 100

\* A set holds a delta once, and delta 0 only in a way that was never
\* trained: evidence for one delta is never split over two ways.
DeltasDistinct == \A s \in PTSetIds : OneWayPerDelta(pt[s])

\* The lookahead never predicts standing still, so a hop leaves the line.
CandidatesMove ==
  PFThreshold > 0 =>
    \A w \in walk.pending : WalkRow.ways[w].delta # 0

\* "keep one entry per offset" (spp_ghr_update).
GHROneEntryPerOffset == OneEntryPerOffset(ghr)

\* Every use credited to the prefetcher is backed by a slot a prefetch took,
\* and by no other credit: slots still waiting for their use are not spent.
CreditsBacked ==
  ghost.credits + Cardinality(Outstanding(filter)) =< ghost.installs

\* The lookahead of every demand ends: spp_operate returns.
OperateReturns == [](pc \in {"read", "issue"} => <>(pc = "idle"))

\* pref_spp.h calls global_accuracy_pct a number from 0 to 100.
AlphaIsPercentage == alpha =< 100

\* spp_filter_check answers FALSE "if it would be a duplicate (already
\* in-flight / installed)": a refused candidate is one the UL1 has.
RefusedIsDuplicate ==
  (pc = "issue" /\ walk.pending # {} /\ Issuing /\ InPage(HeadLine)
     /\ FilterRefuses(filter, HeadLine))
  => ul1[HeadLine] # "absent"
=============================================================================

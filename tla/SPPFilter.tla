----------------------------- MODULE SPPFilter -----------------------------
(***************************************************************************)
(* The prefetch filter (spp_filter_check) and the two global accuracy      *)
(* counters.  The filter is direct mapped: a line owns no slot, it meets   *)
(* in its slot whatever line was there last.                               *)
(***************************************************************************)
EXTENDS SPPParameters

FilterEntry == [valid: BOOLEAN, useful: BOOLEAN, remainder_tag: RemIds]

EmptyFilter ==
  [s \in SlotIds |-> [valid |-> FALSE, useful |-> FALSE, remainder_tag |-> 0]]

TagMatches(filter, line) ==
  filter[SlotOf[line]].remainder_tag = RemainderOf[line]

\* SPP_FILTER_L2_PREFETCH and SPP_FILTER_LLC_PREFETCH refuse the same lines.
FilterRefuses(filter, line) ==
  /\ FilterOn
  /\ filter[SlotOf[line]].valid \/ filter[SlotOf[line]].useful
  /\ TagMatches(filter, line)

\* An accepted fill-level prefetch takes the slot, whatever it held.
FilterInstall(filter, line) ==
  IF FilterOn
    THEN [filter EXCEPT ![SlotOf[line]] =
            [valid |-> TRUE, useful |-> FALSE,
             remainder_tag |-> RemainderOf[line]]]
    ELSE filter

\* Slip: every demand counts, not only the first.
FilterFirstUse_EveryUse(filter, line) == FilterOn /\ TagMatches(filter, line)

\* SPP_FILTER_DEMAND: the first demand to the line marks the slot ...
FilterFirstUse(filter, line) ==
  /\ FilterOn
  /\ TagMatches(filter, line)
  /\ ~ filter[SlotOf[line]].useful

FilterDemand(filter, line) ==
  IF FilterFirstUse(filter, line)
    THEN [filter EXCEPT ![SlotOf[line]].useful = TRUE]
    ELSE filter

\* ... and credits the prefetcher if a prefetch had taken the slot.
FilterCredits(filter, line) ==
  FilterFirstUse(filter, line) /\ filter[SlotOf[line]].valid

\* The slots a prefetch took whose line no demand has used.
Outstanding(filter) == {s \in SlotIds : filter[s].valid /\ ~ filter[s].useful}

(***************************************************************************)
(* pf_useful and pf_issued are halved together when either overflows.      *)
(***************************************************************************)
Accuracy == [useful: 0 .. GlobalCounterMax, issued: 0 .. GlobalCounterMax]

CountUseful(acc) ==
  IF acc.useful + 1 > GlobalCounterMax
    THEN [useful |-> (acc.useful + 1) \div 2, issued |-> acc.issued \div 2]
    ELSE [acc EXCEPT !.useful = @ + 1]

CountIssued(acc) ==
  IF acc.issued + 1 > GlobalCounterMax
    THEN [useful |-> acc.useful \div 2, issued |-> (acc.issued + 1) \div 2]
    ELSE [acc EXCEPT !.issued = @ + 1]

\* global_accuracy_pct, the alpha of the path confidence.
AccuracyPct(acc) ==
  IF acc.issued # 0 THEN ((100 * acc.useful) \div acc.issued) % UnsRange
                    ELSE 0
=============================================================================

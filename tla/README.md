# TLA+ models of the SPP prefetcher, Scarab's memory system and its pipeline

The repository extends the Scarab processor simulator (`src/scarab/src`, C) with a Signature
Path Prefetcher (`prefetcher/pref_spp.{c,h}`).  This directory models the prefetcher, the
framework queue it feeds, the memory hierarchy from the data cache to Ramulator that serves
both demands and prefetches, and the out-of-order pipeline the demands come from; checks the models
with TLC; and proves most of their safety properties with TLAPS for all sizes, thresholds, knobs and
hash functions.

Paths below are relative to `src/scarab/src/`.

## 1. The system

Scarab is one thread.  Every cycle it runs `update_memory` (prefetch queues, memory queues,
fills, DRAM) and then the pipeline stages of every core.  There are no locks and no real
concurrency: what interleaves is the order in which requests, fills, evictions and retries
of several cores and queues reach shared tables.

| Component | State | Operations | Talks to |
|---|---|---|---|
| **SPP** `prefetcher/pref_spp.*` | Signature Table (LRU rows of page tag, last offset, signature), Pattern Table (deltas with counters under a total), prefetch filter (direct mapped, valid/useful), Global History Register, `pf_useful`/`pf_issued` | `init`, `ul1_miss`, `ul1_hit`, `ul1_pref_hit` (all of them run `spp_operate`), `done` | called by the framework, calls `pref_addto_ul1req_queue` |
| **Prefetch framework, queues** `prefetcher/pref_common.c` | one ring of requests per level, fill and drain positions; shared by the cores or one each | `pref_addto_*_queue`, `pref_update` | called by prefetchers, calls `new_mem_req` |
| **Prefetch framework, feedback** `prefetcher/pref_common.c` | per prefetcher and core: sent, useful, late, averages; pollution vectors; dynamic degree | `pref_ul1_miss/hit/pref_hit/pref_hit_late`, `pref_ul1sent`, `pref_feed_back_info_update`, evictions | called by the memory system, calls the prefetchers |
| **Memory hierarchy** `memory/memory.c` | request buffer with a free list and counts per core; MLC, L1, bus-out and fill queues; caches | `new_mem_req`, `new_mem_*_wb_req`, `mem_process_*`, `mem_complete_*`, `l1_fill_line`, `update_memory` | pipeline, framework, Ramulator |
| **DRAM** `ramulator.cc`, `ramulator/` | requests in flight | send (accept or reject), completion callback | memory hierarchy |
| **Core side of memory** `dcache_stage.c`, `icache_stage.c` | data cache, ops waiting for a miss or for a buffer, the line the fetch waits for | `update_dcache_stage`, `dcache_fill_line`, icache miss and fill, recovery | memory hierarchy |
| **Caches** `libs/cache_lib.c` | sets of lines with replacement state | access, insert, invalidate | memory hierarchy, stages |
| **Branch prediction** `bp/` | direction tables, target buffer, call-return stack | predict, resolve, recover | fetch, exec |
| **Pipeline** `icache_stage.c` .. `dcache_stage.c`, `cmp_model.c` | ops in flight by stage, reorder buffer, reservation stations, ready list, pending recovery and redirection, fetch state | a stage update per cycle, `cmp_recover`, `cmp_redirect` | everything above |
| **Register map and op pool** `map.c`, `op_pool.c` | last writer of each register and address, on and off the path; wake-up list of each op; op slots with their unique numbers | `map_op`, `add_to_wake_up_lists`, `wake_up_ops`, `recover_map`, `rebuild_offpath_map`, `alloc_op`, `free_op` | pipeline stages |
| **Front ends** `frontend/`, `pin/` | trace position; message queue to the PIN process | fetch, redirect, recover, retire | pipeline |
| **Clock domains** `freq.c`, `dvfs/` | cycle counts | advance, ready | update loops |
| **Support** `libs/`, `power/`, `statistics.c`, scripts, benchmarks | | | |

A demand travels: dcache stage -> `new_mem_req` -> L1 queue -> `mem_complete_l1_access`, which
reports a hit, a miss or the first use of a prefetch to the framework -> SPP trains and walks its
lookahead -> `pref_addto_ul1req_queue` -> a later `pref_update` -> `new_mem_req` as a prefetch ->
DRAM -> fill -> an eviction, which SPP is not told about.

What makes each part correct, and what is hard about it:

* **SPP.**  A victim always exists (the lru fields are a permutation), a page has one entry,
  counters form a histogram through saturation and halving, the lookahead always ends and never
  predicts the line it stands on, uses are credited once and only for prefetches.  Hard: long
  histories, counters at their limits, calloc-ed entries that look like real ones, a filter that
  is ahead of the request queue.
* **Request queues.**  No line twice, no prefetch forgotten or overtaken without limit, entries
  kept for demands.  Hard: the positions drift, slots keep matching after they are free, one
  core's full buffer blocks the others.
* **Feedback.**  Averages of the right prefetcher, counters that cannot go below zero.  Hard: one
  interval test serves all prefetchers; drops are subtracted later.
* **Memory hierarchy.**  A request is in exactly one place and completes, an op that joined one is
  woken with its line and no other op is, a line is read once, a store is in some cache, request or
  queue until memory has it, the prefetcher hears what happened to its prefetches, and Scarab and
  Ramulator agree on what is out.  Hard: requests outlive the ops they were made for, joins and
  promotions in mid-flight, refusals and retries at every boundary, fills that need a buffer to
  give one back.
* **Pipeline, register map.**  Instructions retire in program order and all of them do; an op runs
  after the ops whose results it reads; a recovery restores the maps, the stations and fetch to what
  they were at the branch.  Hard: branches that resolve out of order, recoveries of branches that
  are themselves off the path, op slots reused while lists and requests still name them, places in
  stations given back in two functions, ops rejected and stalled at every boundary.

`PROJECT.json` lists the components with their status and, under `hazards`, each hard spot at its
line with the properties that would catch it going wrong.

## 2. Plan

1. `SPP` and its tables: the program's own algorithm.  **Done**, with proofs.
2. `PrefQueue`: the queue between SPP and memory.  **Done**, with proofs.
3. `PrefFeedback`: interval counters, late and useful prefetches, drops, pollution vectors.
   Abstract specification: sent = useful + late + unused + in flight, per interval.  Theorems:
   counters stay natural numbers, and what has to be assumed about the callers for it.  **Open.**
4. `Ramulator`, `CacheSets`, `Memory`, `CoreMemory`: request buffers, L1, fill queues, writebacks,
   DRAM, data cache and fetch; match and promote; refusals and retries; recoveries.  Abstract
   specification `MemoryService` with a refinement mapping.  **Done**, with proofs.
5. Composition: `SPP` with `PrefQueue` (the queue's answer replaces the free choice in `Issue`),
   and `PrefQueue` with `Memory` (which replaces `Occupy`, `Promote`, `Complete`).  **Open.**
6. `RegisterMap`, `Pipeline`: the life of an op from fetch to retirement, recovery and redirection.
   Abstract specification `InOrder` with a refinement mapping.  **Done**, with proofs.
7. Candidates after that: recovery of the call-return stack (`bp/bp_targ_mech.c`), the protocol
   with the PIN process, the order of the clock domains.

Recursive operators are kept to modules without theorems; everything proved about uses functions
and folds only.

## 3. Modules

### SPP

| Module | Models |
|---|---|
| `SPPParameters` | knobs of `pref_spp.param.def` and derived constants as CONSTANTS, with their assumptions; addresses as line numbers |
| `SPPSignature` | `spp_encode_sig_delta` and the signature mix, bit by bit (TLC only: it uses Bitwise) |
| `SPPSignatureTable` | `spp_st_read_and_update`, `spp_ghr_update` and the GHR boot of a new page, as functions from row to row |
| `SPPPatternTable` | `spp_pt_update_pattern`, the confidences and candidates of `spp_pt_read_pattern` |
| `SPPFilter` | `spp_filter_check`, the two accuracy counters, `global_accuracy_pct` |
| `SPP` | the state machine: callbacks, `spp_operate` and its lookahead loop, and the UL1 as environment |
| `RecentPages`, `SPPRefinement` | what the Signature Table promises (a bounded list of the most recent pages), and the mapping to it: the page of age `i` is in the way whose lru field is `i - 1` |
| `MCSPP` | hash functions for TLC |
| `ExtremumLemmas`, `SPPTableProofs`, `SPPProofs` | proofs |

Variables of `SPP` correspond to `spp->st`, `pt`, `filter`, `ghr`, `pf_useful`/`pf_issued` (`acc`)
and `global_accuracy_pct` (`alpha`).  `pc` and `walk` are the position in and the locals of
`spp_operate`: `"read"` is the loop head, `"issue"` the inner loop over the scratch queue.  An action
is one callback up to the loop (`UL1Miss`, `UL1Hit`, `UL1PrefHit`), one reading of the Pattern Table
(`ReadPattern`), one candidate taken off the queue (`SkipBelowCutoff`, `SkipFiltered`, `Issue`,
`CrossPage`) or the end of a hop (`NextHop`).  The order inside `spp_operate` is kept: alpha is read
before the demand is counted, the Signature Table is updated before the Pattern Table is trained,
and the GHR a new page boots from is the one before this demand.

`ul1` is the environment: of each line, whether the UL1 has it, has or awaits it as a prefetch no
demand has used, or neither.  `Forget` is an eviction, of which SPP is not told.  `Issue(queued)`
takes the queue's answer as a free choice.  `ghost` counts filter installs and credits.

### UL1 request queue

`PrefQueue` is the ring of `pref_addto_ul1req_queue_set` and the UL1 loop of `pref_update_core`.
`ul1req_queue`, `req_pos` and `send_pos` are those of `HWP_Core`; `turns` is the number of
iterations left in the running loop.  `AddZero`, `AddMatched`, `AddRefused` and `AddQueued` are the
four returns of the first function; `LookAtFreeSlot`, `Stall`, `Drop`, `SendMatched`,
`SendAllocated` and `SendRejected` the six outcomes of an iteration.  `buffer` abstracts the request
buffer of each core to the number of prefetches and of other requests in it; what
`mem_can_allocate_req_buffer` grants a prefetch is `CanAllocate`, and a refusal of `new_mem_req` is
possible at any time because the L1 queue may have no room.  `Occupy`, `Promote` and `Complete`
are the memory system (`mem_allocate_req_buffer` for demands and writebacks,
`mem_adjust_matching_request`, `mem_free_reqbuf`) reduced to these counts, between two runs of the loop only: the simulator calls `pref_update` and
the rest of `update_memory` one after the other.  `passed` is a history variable.  The value that
`pref_addto_ul1req_queue` returns is told by which of the four actions is taken.
`MCPrefQueue` assigns lines to cores; `PrefQueueProofs` has the proofs.

### Memory hierarchy

| Module | Models |
|---|---|
| `CacheSets` | one set of `libs/cache_lib.c`: lookup, victim, insertion |
| `Ramulator` | `ramulator_send`, `enqueue_response`, `ramulator_tick`, and a controller with its read and write queue and the switch between them |
| `Memory` | `memory/memory.c` below the core: request buffers, matching, L1, fill queue, writebacks |
| `CoreMemory` | data cache stage, instruction fetch, prefetcher and recoveries on top of it; fairness; properties; the refinement mapping |
| `MemoryService` | what the memory promises: a client that waits for a line gets it |
| `MCMemory` | sets for TLC |
| `RamulatorProofs`, `MemoryProofs` | proofs |

The modules extend one another (`Ramulator`, `Memory`, `CoreMemory`), so that an action such as
`FillLine` (the L1 evicts a dirty line) includes Ramulator's step `SendWrite`, as the call does in
the code.

`req[i]` is a buffer of `mem->req_buffer`; `state`, `queue`, `type`, `addr`, `done_func`, `dirty_l0`
and `demand_match_prefetch` are its fields, `ops` stands for `op_ptrs` with `op_uniques`, and
`prefetcher` says that a prefetcher made it (`prefetcher_id # 0`).  `sent` and `useful` are
histories: how often `pref_ul1sent` and the reports of use were made for it (the latter goes on in
the L1 line).  One buffer's life is `NewMemReq`, `StartL1`, then `L1Hit`, `L1MissWB` or `L1MissSent`
(`L1MissRejected` while Ramulator refuses), `CompleteBusIn`, `FillL1`, `LeaveL1Fill`, and
`DcacheFill` or `IcacheFill`.  `Matching` with `Joins` is `mem_search_reqbuf` with `ramulator_search_queue`,
`Adjusted` is `mem_adjust_matching_request`, `CanAllocate` is `mem_can_allocate_req_buffer`.
Every level's refusal is there: no buffer (`Denied`, a prefetch not sent), no room for a writeback
(the fill stays where it is), no room in a queue of Ramulator or in the fill queue.

An op slot `op[o]` holds what the data cache stage and the requests know of an op; its
`unique_num` tells the uses of a slot apart, as in the code.  Numbers come back when no request
remembers them, which makes the model finite without making it weaker: a number some request
remembers is never given again, in the code either.

### Pipeline

| Module | Models |
|---|---|
| `RegisterMap` | `map.c` and the op pool as operators: register and store map with their on-path and off-path halves, dependences, wake-up lists, recovery and rebuild |
| `Pipeline` | one core's cycle: `cmp_model.c` with its stages from fetch to retirement; fairness; properties |
| `InOrder` | what the pipeline promises: instructions enter and leave in program order, each once |
| `MCPipeline` | instructions and stations for TLC |
| `PipelineProofs`, `PipelineFlowProofs` | proofs: stations and types; data flow, maps, fetch and the refinement |

A cycle goes through `phase` in the order of `cmp_cycle`: streams (`Recover`, `Redirect`, `NoStream`),
memory (`DcacheFill`, `IcacheFill`), then the stages from the back of the pipeline to its front, so
that a stage takes what its predecessor had at the end of the last cycle: data cache
(`DcacheAccess`), execution (`Latch`, `Reject`), the four parts of `update_node_stage` (`Issue`,
`HandleScheduled`, `FillRS`, `Retire`), `MapStage`, `DecodeStage`, fetch (`FetchOp`, `FetchEnd`,
`FetchMiss`, `FetchIdle`), and `node_sched_ops` (`Schedule`).  Loops over ops or units take one step per
op, in any order where the order of the code depends on what is left out.

`ops` is the op pool: a function from the slots in use to ops, with `unique_num`, `op_num`, `state`,
`off_path`, `rs_id`, `srcs_not_rdy_vector` (`notRdy`, the sources themselves instead of bits), the
wake-up list, `wake_up_signaled`, `recovery_scheduled` and `redirect_scheduled`.  `stage` says which
stage holds the op; the order of the lists is the order of the numbers.  `wrong` stands for
`mispred || misfetch` and `btb` for `btb_miss` and `no_target`: what `bp_predict_op` says is a free
choice at fetch.  `done` is that `done_cycle` is set.  `WAIT_FWD` and `READY` are one state, since
they differ by a latency only.  A reference to an op is its slot and its number, as in the code; what
the code stores as a bare pointer (the store map, `next_op_into_rs`, the ready list, the units) is a
bare slot here, and `TypeOK` says that it never dangles.  Unique numbers return when nothing mentions
them, as in `CoreMemory`.  `retOp - 1` counts the retired ops.

Operators whose comment begins with "Slip" are faulty variants of the operator below them; no
specification uses them.  They record, for every checked property, a change of the code that it
detects.

## 4. Runs

| Run | Question | Result |
|---|---|---|
| `spp_tables` | Does the Signature Table stay well formed and remember the most recent pages, and the Pattern Table a histogram? Eight demands: four pages, two of one tag, for two ways, invalid ways, hits, replacements, saturation and halving. | holds |
| `spp_walk` | Does the lookahead end, move and keep filter, GHR and credits right? Two hops, page crossings, two filter slots for twelve lines, queue full or not. | holds |
| `spp_alpha` | Is `global_accuracy_pct` in 0..100, as `pref_spp.h` says? | violated |
| `spp_duplicate` | Is a refused candidate in flight or installed, as `pref_spp.c` says? | violated |
| `pref_queue` | Does the ring keep lines unique and bound overtaking, do prefetches leave the kept entries alone, and does each one leave the queue? Two cores, two slots, three lines, three buffer entries, dropping on. | holds |
| `memory_safety` | Is every op that waits for a miss remembered and woken with its line, every store kept, every prefetch reported right? Loads, stores and prefetches of two lines in three buffers, slots reused after recoveries. | holds |
| `memory_valve` | Is there always somebody who has what it waits for, and does such a one move on? Stores to three lines that evict each other dirty, four buffers. | holds |
| `memory_progress` | Does the memory implement `MemoryService`, and does every fetch end? One op and the fetch, the same lines. | holds |
| `memory_sent` | Did a prefetch reported as sent go out on the bus, as `pref_common.c` says? | violated |
| `pipeline_safety` | Do wake-ups, maps, results, station counts and fetch stay right while branches resolve in any order? Up to three ops in flight, on and off the path; two stations of one place, one unit, one miss buffer. | holds |
| `pipeline_progress` | Does the pipeline implement `InOrder`, and does the program finish? A reorder buffer of two, one station, one unit. | holds |
| `pipeline_fill` | Is `next_op_into_rs` the oldest issued op not yet in a station, as `node_stage.h` says? `RS_FILL_WIDTH` is 1. | violated |

The properties, in the words of the code:

* `LRUPermutation`: a victim with the largest lru value exists in every row, so neither `ASSERTM`
  of `spp_st_read_and_update` can fire.  `TagsUnique`: the first match is the only one.
* `RemembersRecentPages`: refinement of `RecentPages`.  Read in lru order, the valid ways are the
  pages touched last, although invalid ways are filled in the order of their numbers.
* `CountersWithinTotal`, `ConfidencesWithin100`: no delta is counted more often than its signature,
  and all of them together are not either.  `DeltasDistinct`: one way per delta; delta 0 only
  in a way nobody trained (a calloc-ed way holds delta 0, so one training with delta 0 would
  revive it).
* `CandidatesMove`, `GHROneEntryPerOffset`, `CreditsBacked` and `OperateReturns` are about the walk:
  no candidate is the line it stands on; one GHR entry per landing offset; credits plus slots still
  waiting never exceed the prefetches that took a slot, although a used prefetch is reported twice;
  `spp_operate` returns.
* `NoLineTwice`, `BoundedOvertaking`, `RoomForDemands`, `QueuedLeaves` for the queue: a line waits in
  one slot; at most `QueueSize - 1` requests are sent before a waiting one; prefetches leave the
  watermark, the writeback valve, the last entry and the reserve (less one: the test is made
  before the entry is taken) free; every queued prefetch leaves.
* `NobodyForgotten`: an op in `OS_MISS` is remembered, by slot and number, by exactly one request,
  which is for its line, fills the data cache and carries its store's dirty bit; the fetch likewise.
  `WokenWithLine`: such an op on the path is woken only when its line is in the data cache.
  `StoresReachMemory`: the dirty copy of a line is in a cache or a request at every moment until it
  is in Ramulator's write queue.  `ImplementsService` says the same to the outside: every fill wakes
  waiting ops of its line and no others, only ops off the path are sent away, every wait ends.
  `FetchServed`: the icache does not wait for ever.
* `OneReadPerClass`, `RamulatorAgrees`: at most one read of a line and class (data, instruction) is
  under way; `inflight_read_reqs`, the answer queue and the requests in state `MEM_NEW` are the same
  requests, each once, and a line that is waited for is with the controller in one place.
* `SentIsCounted`, `UsefulOnce`: what the feedback averages are made of.  A prefetch that went out
  was counted, even when a demand has changed its type before; its use is counted once, on its
  way or in the L1.
* `NeverWedged`: while a request is alive, a request, an answer or the DRAM controller has what it
  waits for.  It names, for each of them, what that is (`CanMove`, `CanAnswer`, `CanServe`), and
  `WaitsForNothingElse` says that these are exactly the guards of the handlers: nobody waits for more,
  and nobody goes on with less, as a fill would that dropped a dirty line.
* `NoLostWakeup`: an op behind the map stage waits only for sources that are in flight, older, have
  not broadcast yet and have it on their list; nothing that waits for nobody is left in a station.
  `MapsNameYoungest`: after any sequence of recoveries the map names the youngest writer in flight
  of every register and address.  `DataFlow` is the purpose of both, stated without the maps: when
  an op has executed, the last op before it that writes one of its sources has executed and
  delivered.
* `StationsExact`: `rs_op_count` is the number of ops that hold a place, and `next_op_into_rs` the oldest
  op that has none.  A count too high leaks a place for ever, one too low overfills a station.
* `FrontEndInStep`: an op is marked off the path if and only if it is behind a branch that went wrong
  and has not been recovered from; a pending recovery or redirection belongs to an op in flight;
  and whatever fetch waits for will answer.  `Finishes` is its consequence: every program retires.
* `ImplementsInOrder`: the on-path ops, seen from outside, are a queue in program order.  A recovery
  takes none of them away, and none retires early or twice.
* `TypeOK` in each module: counters within their bits (`CDeltaMax`, `CSigMax`, `GlobalCounterMax`),
  32-bit confidences (`UnsRange`), positions in the ring, buffers within their entries.

**Bounds.**  `MaxDemands` bounds the trace: three or four demands fill a set of two ways, one or two
more replace a page, four trainings overflow a total of three.  `Pages`, `LinesPerPage` = 4 and
tables with one set of two ways make every collision (tag, set, slot, remainder, signature) happen:
`spp_tables` has four pages for three tags, so a demand can meet the entry of another page;
hashes become bit fields, so that collisions come early.  Real tables only have more rows, and rows
do not affect each other.  `SigBits` = 2 makes signatures of different paths meet.  In `PrefQueue`
two slots let `send_pos` stand on `req_pos` and away from it; one line more than slots is
needed for a full queue, because a slot keeps matching its old line.  `MaxOthers` bounds demands
and writebacks; prefetches are not bounded.  The four safety properties of the queue are also
proved, for every size and with overwriting too; in the run the valve is the limit of
`mem_can_allocate_req_buffer` that binds, and overwriting is off, because an overwritten request does
not leave.

The memory runs have no bound on their length: ops, prefetches, fetches and recoveries come for
ever.  Caches of one way make two lines evict each other at every fill; queues of one entry make
every boundary refuse.  `memory_safety` and `memory_progress` have three buffers, of which one is kept
back for writebacks; `memory_valve` has four, of which two are (`MEM_REQ_BUFFER_WB_VALVE` is 2,
`memory.param.def:154`).  `memory_safety` has no fetches; a fetch
and a data request of one line meet in `memory_progress`, under `RamulatorAgrees`, and in the theorem
`OneReadOut`.  `MaxUnique` = 2 lets a slot be reused while a request still remembers its former use.
`memory_valve` has three lines and three numbers: without the valve that is enough for every buffer
to hold a fill that evicts a dirty line.  `CountMax` stops the two histories at 2,
where each of the properties about them is decided.  `CHECK_DEADLOCK` is on everywhere.

In the pipeline runs `ProgramLength` = 2 is the number of on-path instructions and `FetchLimit` the
number of the last op fetched off the path.  It is 2 for `pipeline_progress` and 3 for
`pipeline_safety`: a wrong branch with two ops behind it, one of
which is again a branch, is enough for nested recoveries, for a recovery that keeps older off-path
ops, and for slots reused under a miss or a wake-up list.  The sequence of instructions is not
fixed: each fetch takes any of `MCInsts` (a load, a store, an indirect jump, a full barrier) on one
register and one address, so every dependence that can occur between three ops does.  Stations of
one place and one miss buffer make every boundary refuse.  Direct branches and plain operations are in
the model but not in the instance: they are indirect jumps without a missing target, and loads that
always hit.  With them the safety properties hold too, on two to four times the states.

**Fairness.**  `SPP`: weak fairness of `Step`, because a callback is a loop of the only thread and
runs on once entered.  Demands and evictions are not fair.  `PrefQueue`: weak fairness of
`Update`, since `update_memory` calls `pref_update` in every cycle; strong fairness of
`Complete`, since memory gets its turn between any two updates and DRAM answers; strong
fairness of `Accept`, the assumption that `new_mem_req` does not refuse for ever a request it could
take again and again.  The last is not guaranteed by the code against a demand stream that
fills the buffer in every cycle for ever.  The bound `MaxOthers` says that the stream pauses; the result is
therefore that the queue itself loses nothing and blocks nobody for good.

`CoreMemory`: weak fairness of each request's step, of the fill from Ramulator and of writes,
because `update_memory` goes through all its queues in every cycle; strong fairness of the steps of
a demand, which has to win places in Ramulator's queues and buffers again and again and gets them in
the order of priorities (older demands first, writebacks and prefetches last); strong fairness
of a read among reads, since `FRFCFS_Cap` bounds the row hits that pass it.  No op, fetch,
prefetch or recovery is promised to happen.

`Pipeline`: weak fairness of `Next`, since the simulator runs on.  Strong fairness of the steps an
on-path op needs (`Advance`, `Serve`, `Offer`, `IcacheFill`) and of the fills: latencies are finite, so a
recovery, a redirection, a fill or a retirement that is due again and again happens; units and ports
come free and `oldest_first_sched` offers the oldest op first; a request buffer comes free, which
`CoreMemory` shows.  No prediction is promised to be right.

## 5. Disagreements found

* **alpha above 100** (`pref_spp.c:404`, `pref_spp.h:80`).  Credits come from filter slots, issues
  from accepted requests; a slot is taken before the queue answers, and the two counters are
  halved together whenever one overflows.  The path confidence then grows along the path
  instead of decaying.
* **Refused without being in flight** (`pref_spp.c:468`, comment at 295).  The slot stays taken when
  the queue was full.
* **Sent although rejected** (`memory/memory.c:1727`, comment at `pref_common.c:868`).  `pref_ul1sent`
  is called whatever Ramulator answers when it is asked for room, and again by every retry: the accuracy the
  throttling works with is too low whenever DRAM is busy.
* **Filled twice** (`node_stage.c:946`, `node_stage.h:66`).  `node_fill_rs` breaks out of its loop when
  `RS_FILL_WIDTH` ops have been filled, before it moves to the next op, and stores the op it has
  just filled in `next_op_into_rs`.  The next cycle's assertion that this op is only issued fails;
  without assertions it takes a second place.  The shipped Kaby Lake configuration has no limit, so it
  cannot show it.  The default width (8) is twice the issue width (4): it is used up only when ops
  have piled up behind full stations and enough places come free in one cycle.

## 6. Proofs

Assumptions: `SizesAssumption`, `ThresholdAssumption`, `HashAssumption`, `TraceAssumption`,
`QueueAssumption`, `QueuesAssumption`, `MemoryAssumption`, `CoreAssumption`, `InstsAssumption`,
`StoresAssumption` and `StationsAssumption` only: sizes are positive, thresholds natural, hashes
functions of the right type, the valid lines are told from `NoLine`, and a store has no destination
register (`pin/pin_lib/uop_generator.c:781`; a store that had one would never announce it, since
`Supply` and `Latch` broadcast its data only).  TLC evaluates each of them in the passing runs.  Nothing is assumed about fairness: all
theorems are about `Spec`.

**SPP** (`SPPProofs`: `TypeCorrect`, `SignatureTableSafe`, `ImplementsRecentPages`, `PagesHaveOneEntry`,
`PatternTableSafe`, `ConfidencesArePercent`, `DeltasHaveOneWay`, `GHRSafe`, `CreditsAreBacked`,
`LookaheadMoves`, `LookaheadEnds`).  The inductive invariant
`IInv` is a conjunction of one part per table plus one for the walk and one for the environment.
Four properties are not inductive alone.  `TypeOK` needs `CountersWithinTotal`: a first-hop
confidence is 32-bit because it is a percentage.  `CandidatesMove` needs `DeltasDistinct`: a
candidate has confidence above zero, hence a counter above zero, hence a delta that is not 0.  It
also needs that `pending` is empty outside the inner loop, since training may change the row a
stale candidate points to.  `ConfidencesWithin100` needs a fourth part, `SumsWithinTotal`: the counters
of a signature together stay at or below `c_sig`, because a training that counts one delta up counts
the signature up, and halving rounds every counter down.  `SPPTableProofs` proves what that takes about
sums: that `SumFunction` is defined, what one changed term does to it, and that a bound on the
terms is one on the sum.  These are inductions over the subsets of the ways, by `SubsetInduction`, whose
parameter is the set of subsets that are good and which rests on the well-foundedness of strict
inclusion.  `LRUPermutation` needs that the lru values of a row are a bijection,
and that aging the younger ways and promoting one keeps it.

`ImplementsRecentPages` is the refinement: `Spec => RemembersRecentPages`, for any number of sets,
ways and pages.  It needs `FilledInOrder`: the invalid ways of a row are its last ones in number, and
each still has the lru value it started with, its own number.  Otherwise the valid ways would leave gaps
in the lru order and the memory would be no list.  A hit moves a page to the front from
its own place, a fill from the first free place, a replacement from the last: these are the cases of
`Place`.  Every other step, those of the lookahead included, leaves the table alone.

`LookaheadEnds` is the safety half of `OperateReturns`: each step taken inside `spp_operate` brings
`TurnsLeft` down, a natural number that is (`MaxDepth` + 1) * (`PTWays` + 2) at the entry, so the two nested
loops end after that many turns, whatever the tables hold and the filter and the queue answer.  It
needs `PathConfident`: the code raises `depth` only when the path confidence is at least
`PF_THRESHOLD` (`pref_spp.c:505`), and would loop for ever otherwise; but a hop goes on only through a
candidate, whose confidence is.

The lemmas about single rows are in
`SPPTableProofs`, those about minima and maxima of finite sets in `ExtremumLemmas`.

**PrefQueue** (`PrefQueueProofs`: `QueueTypeCorrect`, `NoDuplicateRequests`, `OvertakingBounded`,
`ReserveRespected`).  `NoLineTwice` is strengthened to all slots, valid or not (`OneSlotPerLine`),
because that is what the add filter compares.  `BoundedOvertaking` is strengthened to `WalkBound`:
requests sent so far plus the distance `send_pos` still has to walk stay below `QueueSize`; every
step of `send_pos` brings it one closer to all other slots.

**Memory** (`MemoryProofs`: `MemoryTypeCorrect`, `NoOpForgotten`, `OneReadOut`, `RamulatorInStep`,
`SentCounted`, `UsefulCountedOnce`, `OpsWokenWithLine`, `StoresAreKept`, `MemoryImplementsService`,
`DeadlockFree`),
for any number of ops, lines, buffers, ways and queue entries and every setting of the knobs.  The
inductive invariant `IInv` has these parts:

* `RequestsInv`, `L1Inv`, `DcacheInv`, `CoreInv`: types, and what the fields of a request say together
  (which queue goes with which state; a request with ops fills the data cache; who has a
  `done_func`; how `sent` and `useful` depend on state and type).
* `DramInv`: `RamulatorAgrees`, for the queues and requests.  It needs that a request in state
  `MEM_NEW` has a line and is no writeback, from `RequestsInv`.
* `OneRead`: `OneReadPerClass` for all the buffers a miss of the line could join.  It holds because a new request is made only when `Matching` found none: the search in each place must not
  miss a request the invariant speaks about, which is what ties the three parts together.
* `OpsInv`, `FetchInv`: `NobodyForgotten`.  That an op is remembered by *exactly* one request makes
  `WokenWithLine` and the step `Arrive` of the service follow: the ops a fill wakes are those
  that wait for its line.

`MemoryImplementsService` is `Spec => Abstract!ServiceSafety`: every step of the detailed memory maps
to a step of `MemoryService` or to none, with `waitsBar`, `revocableBar`, `presentBar` as the mapping.
`DeadlockFree` is `Spec => []NeverWedged`, under two hypotheses on the knobs: `WBValve >= 2` (the
default, `memory.param.def:154`) and `LowMark >= 1`.  Neither can be dropped: TLC finds a wedged state
with a valve of 1 and with a low mark of 0.  The proof goes along `Valve`, which is inductive on top of
`IInv`: one buffer is always left, and `WBValve` of them as long as the others hold a request that is no
writeback.  A step may give back any buffers but takes one at most (`OneTaken`), through
`mem_can_allocate_req_buffer`.  Suppose then that everybody waits.  An idle controller has room in its
write queue and no read to serve (`IdleController`, which is where `LowMark` matters), so a line of the
L1 can be replaced; so no fill of the L1 waits, no answer and no miss; so all that is left waits in the
core's fill queue, where there are no writebacks.  Hence `Valve` has kept two buffers, a dirty line of the
data cache can be written back, and one of them can fill it after all.

`RamulatorProofs` has the steps of the DRAM side, and the lemmas about buffers, sequences and sets
that both modules rest on.

**Pipeline** (`PipelineProofs`: `PipelineTypeCorrect`, `StationsAreExact`), for any number of ops, units,
stations, registers and instructions.  They hold of every behaviour in which `WidthReached` is never
true: no turn of `node_fill_rs` is about to fill the last op of the width.  Nothing weaker would do:
`pipeline_fill` shows a turn that makes them false, and `WidthLeavesTheOpBehind` that every such turn
does.  A core whose width is never used up in a cycle meets the hypothesis, and `UnlimitedFill` states
all results for `FillWidth = 0` without it (`RS_FILL_WIDTH` is 8 by default, `core.param.def:123`, and 0 in the Kaby Lake parameters).  A place is taken in `FillRS` and given back in `HandleScheduled` or in `Recover`, and each
of these judges by the state of the op alone, while the state changes in the units and at the
memory.  The inductive invariant `IInv` says what the states mean:

* `AgeOrder`: numbers are distinct and below fetch's next one, and no op overtakes another on its way
  to the reorder buffer.
* `StateOfStage`: before the node stage an op is `FETCHED`; a done op is `SCHEDULED`.
* `ReadyList`, `SchedReady`: every ready op is on the list; anything else on it was scheduled in this
  cycle and is taken off by `HandleScheduled`; the scheduler offers ready ops, each to one unit.
* `InUnits`: a memory op is in one place at a time (unit, data cache stage, request) and not done;
  a request whose op was flushed is told from one for the slot's next user by the unique number.
* `NextInOrder`: the ops without a place are the youngest of the reorder buffer, and
  `next_op_into_rs` is the first of them.
* `RSCountExact`: the result.

A recovery is the step that needs all of them: an op flushed after it was scheduled and before
`node_handle_scheduled_ops` would be counted by neither function, and the phases show that this cannot
be, because recoveries come at the start of a cycle only.

The rest of the pipeline's properties (`PipelineFlowProofs`: `NoWakeupIsLost`, `MapsAreExact`,
`ValuesOfTheProgram`, `FetchIsAnswered`, `RefinesInOrder`) follow from one invariant, `PipeInv`, which
adds four groups to `IInv`.  They have to be proved together, because each leans on the others:

* `Flow`, the ops among themselves.  `Execution` ties state, `executed`, `signaled` and `notRdy` of one
  op together.  `WakeLists`: what waits behind the map stage is on the list of its source, which has
  not broadcast.  `SourcesOlder`: it is older and will broadcast what is waited for.  `SourcesAwaited` is
  the half of `DataFlow` that is inductive: of each source, the last writer before the op is either
  still waited for or has delivered.  In front of the map stage an op may name a source that has left
  or has delivered already; `add_to_wake_up_lists` drops those.
* `Maps`: each half of a map entry names the youngest writer *on its side of the path*, and the flag
  is set exactly when there is a writer off it.  `MapsNameYoungest` alone is not inductive: after a
  recovery the on-path half counts, which a read of the map did not show before.  That the
  flag picks the right half needs `PathMarked`, that an off-path op is younger than all on-path ones.
* `Front`: what `bp_predict_op` can have said (`Predicted`); `PathMarked`; who owns a pending recovery
  (`RecoveryOwner`: a branch in the reorder buffer that cannot retire before it) and a pending
  redirection (`RedirectOwner`: the branch fetch stopped at; one scheduled by the decode stage is due
  before that branch can move on); where fetch stopped (`Stopped`, `BarrierLast`); and who has a
  request (`MissesNamed`).  That there is at most one unresolved branch on the path is what lets one
  `bp_recovery_info` serve all branches.
* `Numbered`: the numbers of the ops in flight have no gaps from `retOp` to `op_count`.  With it the
  op that retires has the number that is due and the next on-path fetch the number the program gives
  it, which is the refinement of `InOrder`: `Retire` is `Leave`, an on-path `FetchOp` is `Enter`, every
  other step, a recovery included, leaves the mapped state alone.

**Only model-checked:** liveness (`OperateReturns`, `QueuedLeaves`, `FetchServed`, `Finishes` and the
liveness half of `ImplementsService`), and `WaitsForNothingElse`, since both speak of what is enabled.
Of `OperateReturns` only that a turn can always be taken is left to TLC.
`NeverWedged` avoids ENABLED by naming what each step waits for, so it can be proved; that nothing
else is waited for is what TLC checks.  What `SPPSignature` computes bit by bit is a CONSTANT to the
proofs: they hold for every hash.

## 7. Not modelled

* In SPP: statistics, debug output, and `SPP_FILTER_EVICT`, which no code sends.  The knobs
  `PREF_REPORT_PREF_MATCH_AS_HIT` and `_AS_MISS` have their default values, on and off
  (`pref.param.def:74`): SPP is trained by every demand, and by one that meets a prefetch in flight
  once.  With the first off `pref_spp_ul1_hit` returns at once; with both on such a demand is
  operated on twice.
* In the framework: the DL0 and UMLC queues, to which no code adds; `pref_*_queue_filter` and
  `pref_*_queue_match`, which have no caller; feedback averages and pollution vectors (planned);
  shared request buffers (`PRIVATE_MSHR_ON` off).  `pref_addto_ul1req_queue_set` also updates the
  feedback averages on its way; they do not influence the queue and are left to `PrefFeedback`.  The
  loop is modelled for the detailed memory model (`MODEL_MEM`), the only one that accepts prefetches.
* In the memory hierarchy: the mid-level cache (off by default), several cores and cache
  partitioning, IPRF requests, `ALLOW_TYPE_MATCHES` (off), perfect caches and the uncore clock.  The order
  inside a queue, ports and latencies are left free: any ready request may be the next, which
  includes every order the code takes.  The promotion of a waiting request's type by
  priority is left out except for prefetches, where it changes what is filled and counted.  The
  recency of lines in a cache set is free.  The icache's contents are left out: any fetch may miss.
* In Ramulator: banks, rows, refresh and timing; which request is next is any choice.
* In the pipeline: replay, late branch prediction, `MEM_PF` and `MEM_WH` ops, the timer after a taken
  branch, `EXTRA_*_CYCLES`, several cores, deeper decode and map stages (one cycle each by default),
  several types of units, and `MEM_ADDR` dependences.  `STALL_ON_WAIT_MEM` is on, its default; with it off
  an op in a tentative or waiting state that is flushed gives no place back in `flush_window`, a path
  the model does not have.  The two loops of `update_exec_stage` are one step per unit: they touch the
  same op, and an op woken by the first loop is not looked at by the second.  What a store's address covers is one
  address, not a range of bytes.
* Timing: cycles are not counted anywhere, only the order of events.
* Everything else in the table of section 1, with the reasons in `PROJECT.json`: other prefetchers
  and direction predictors are alternatives or numeric; front ends and the recovery of the return
  stack are candidates for later; PIN is third-party.

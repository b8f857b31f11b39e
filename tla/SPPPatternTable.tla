-------------------------- MODULE SPPPatternTable --------------------------
(***************************************************************************)
(* The Pattern Table: the histogram of deltas seen after each signature    *)
(* (spp_pt_update_pattern) and the confidences read from it                *)
(* (spp_pt_read_pattern).                                                  *)
(***************************************************************************)
EXTENDS SPPParameters

PTWay == [delta: Deltas, c_delta: 0 .. CDeltaMax]
PTSet == [ways: [PTWayIds -> PTWay], c_sig: 0 .. CSigMax]

EmptyPTSet ==
  [ways |-> [w \in PTWayIds |-> [delta |-> 0, c_delta |-> 0]], c_sig |-> 0]

PTHits(row, delta) == {w \in PTWayIds : row.ways[w].delta = delta}

\* The way holding the delta, else the first way with the smallest counter.
PTWayFor(row, delta) ==
  IF PTHits(row, delta) # {}
    THEN Min(PTHits(row, delta))
    ELSE Min({w \in PTWayIds : \A v \in PTWayIds :
                row.ways[w].c_delta =< row.ways[v].c_delta})

\* A hit counts up and saturates; a newly installed delta starts at 0.
PTCount(row, delta) ==
  LET c == row.ways[PTWayFor(row, delta)].c_delta
  IN  IF PTHits(row, delta) = {} THEN 0
      ELSE IF c < CDeltaMax THEN c + 1
      ELSE c

\* Slip: only the total is halved.
PTHalve_TotalOnly(row) == [row EXCEPT !.c_sig = @ \div 2]

\* Halve every counter of the set.
PTHalve(row) ==
  [ways |-> [w \in PTWayIds |-> [row.ways[w] EXCEPT !.c_delta = @ \div 2]],
   c_sig |-> row.c_sig \div 2]

\* Slip: halved one training too late.
PTTrain_HalveLate(row, delta) ==
  LET trained ==
        [ways |-> [row.ways EXCEPT ![PTWayFor(row, delta)] =
                     [delta |-> delta, c_delta |-> PTCount(row, delta)]],
         c_sig |-> row.c_sig + 1]
  IN  IF trained.c_sig > CSigMax + 1 THEN PTHalve(trained) ELSE trained

PTTrain(row, delta) ==
  LET trained ==
        [ways |-> [row.ways EXCEPT ![PTWayFor(row, delta)] =
                     [delta |-> delta, c_delta |-> PTCount(row, delta)]],
         c_sig |-> row.c_sig + 1]
  IN  IF trained.c_sig > CSigMax THEN PTHalve(trained) ELSE trained

(***************************************************************************)
(* Reading.  lookahead_conf is the confidence of the path walked so far,   *)
(* alpha the global accuracy; the divisions truncate from left to right.   *)
(***************************************************************************)

LocalConf(way, c_sig) == (100 * way.c_delta) \div c_sig

PathConf(way, c_sig, depth, alpha, lookahead_conf) ==
  IF depth = 0
    THEN LocalConf(way, c_sig)
    ELSE ((((alpha * way.c_delta) \div c_sig) * lookahead_conf) \div 100)
           % UnsRange

\* The confidence of every way; a signature never trained has none.
PTConfs(row, depth, alpha, lookahead_conf) ==
  [w \in PTWayIds |->
     IF row.c_sig = 0 THEN 0
     ELSE PathConf(row.ways[w], row.c_sig, depth, alpha, lookahead_conf)]

\* The ways queued as prefetch candidates, in the order of their numbers.
PTCandidates(row, confs) ==
  IF row.c_sig = 0 THEN {} ELSE {w \in PTWayIds : confs[w] >= PFThreshold}

\* The candidate the path continues through, if any has confidence: the
\* first of the most confident ones.
LookaheadWays(row, confs) ==
  {w \in PTCandidates(row, confs) :
     /\ confs[w] > 0
     /\ \A v \in PTCandidates(row, confs) : confs[v] =< confs[w]}

(***************************************************************************)
(* What a histogram must be like.                                          *)
(***************************************************************************)

WithinTotal(row) == \A w \in PTWayIds : row.ways[w].c_delta =< row.c_sig

\* One way per delta; delta 0 only where nothing was ever trained.
OneWayPerDelta(row) ==
  \A v, w \in PTWayIds :
    /\ row.ways[v].delta = 0 => row.ways[v].c_delta = 0
    /\ (row.ways[v].delta # 0 /\ row.ways[v].delta = row.ways[w].delta)
         => v = w
=============================================================================

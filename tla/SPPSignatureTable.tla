------------------------- MODULE SPPSignatureTable -------------------------
(***************************************************************************)
(* The Signature Table (spp_st_read_and_update) and the Global History     *)
(* Register (spp_ghr_update, and the read the table makes of it).          *)
(*                                                                         *)
(* A row of the table is a function from way numbers to entries.  The lru  *)
(* fields of a row order its ways: 0 is the most recently used one.        *)
(***************************************************************************)
EXTENDS SPPParameters

STEntry == [valid: BOOLEAN, tag: Tags, sig: Sigs, last_offset: Offsets,
            lru: STWayIds]

GHREntry == [valid: BOOLEAN, sig: Sigs, confidence: 0 .. UnsRange - 1,
             offset: Offsets, delta: Deltas]

EmptySTRow ==
  [w \in STWayIds |-> [valid |-> FALSE, tag |-> 0, sig |-> 0,
                       last_offset |-> 0, lru |-> w]]

EmptyGHR ==
  [i \in GHRIds |-> [valid |-> FALSE, sig |-> 0, confidence |-> 0,
                     offset |-> 0, delta |-> 0]]

(***************************************************************************)
(* The Global History Register.                                            *)
(***************************************************************************)

\* The entries that predicted a landing on this offset of a new page.
Landing(ghr, offset) ==
  {i \in GHRIds : ghr[i].valid /\ ghr[i].offset = offset}

\* The signature a newly installed page starts from: carried over the page
\* boundary by the first of the most confident predictions, or 0.
InstallSig(ghr, offset) ==
  LET sure == {i \in Landing(ghr, offset) : ghr[i].confidence > 0}
      best == Min({i \in sure :
                     \A j \in sure : ghr[j].confidence =< ghr[i].confidence})
  IN  IF GHROn /\ sure # {} THEN NextSig[<<ghr[best].sig, ghr[best].delta>>]
                            ELSE 0

\* Where a page-crossing prediction is recorded: over the entry for the same
\* offset, else over the first entry of lowest confidence.
\* Slip: never look for the offset.
GHRSlot_NoRefresh(ghr, offset) ==
  Min({i \in GHRIds : \A j \in GHRIds : ghr[i].confidence =< ghr[j].confidence})

GHRSlot(ghr, offset) ==
  IF Landing(ghr, offset) # {}
    THEN Min(Landing(ghr, offset))
    ELSE Min({i \in GHRIds :
                \A j \in GHRIds : ghr[i].confidence =< ghr[j].confidence})

GHRUpdate(ghr, pf_sig, pf_conf, pf_offset, pf_delta) ==
  [ghr EXCEPT ![GHRSlot(ghr, pf_offset)] =
     [valid |-> TRUE, sig |-> pf_sig, confidence |-> pf_conf,
      offset |-> pf_offset, delta |-> pf_delta]]

(***************************************************************************)
(* The Signature Table.                                                    *)
(***************************************************************************)

STHits(row, tag) == {w \in STWayIds : row[w].valid /\ row[w].tag = tag}

InvalidWays(row) == {w \in STWayIds : ~ row[w].valid}

\* Slip: the wrong end of the recency order.
LRUWays_Newest(row) == {w \in STWayIds : row[w].lru = 0}

LRUWays(row) == {w \in STWayIds : row[w].lru = STWays - 1}

\* Slip: fill an invalid way before looking for the page.
STWay_InvalidFirst(row, tag) ==
  IF InvalidWays(row) # {} THEN Min(InvalidWays(row))
  ELSE IF STHits(row, tag) # {} THEN Min(STHits(row, tag))
  ELSE Min(LRUWays(row))

\* Case 1: a hit; case 2: the first invalid way; case 3: the LRU way.
STWay(row, tag) ==
  IF STHits(row, tag) # {} THEN Min(STHits(row, tag))
  ELSE IF InvalidWays(row) # {} THEN Min(InvalidWays(row))
  ELSE Min(LRUWays(row))

\* Slip: the way is promoted before the others are compared with it.
Promote_ZeroFirst(row, m) == [row EXCEPT ![m].lru = 0]

\* Move way m to the front of the recency order.
Promote(row, m) ==
  [w \in STWayIds |->
     [row[w] EXCEPT !.lru =
        IF w = m THEN 0
        ELSE IF row[w].lru < row[m].lru THEN row[w].lru + 1
        ELSE row[w].lru]]

STDelta(row, tag, offset) ==
  IF STHits(row, tag) # {} THEN offset - row[STWay(row, tag)].last_offset
                           ELSE 0

\* The signature the accessed entry is left with.
STNewSig(row, ghr, tag, offset) ==
  LET old   == row[STWay(row, tag)].sig
      delta == STDelta(row, tag, offset)
  IN  IF STHits(row, tag) = {} THEN InstallSig(ghr, offset)
      ELSE IF delta # 0 THEN NextSig[<<old, delta>>]
      ELSE old

STRow(row, ghr, tag, offset) ==
  LET m == STWay(row, tag)
  IN  Promote([row EXCEPT ![m] =
                 [valid |-> TRUE, tag |-> tag,
                  sig |-> STNewSig(row, ghr, tag, offset),
                  last_offset |-> offset, lru |-> row[m].lru]], m)

\* Slip: the same line again trains its signature with delta 0.
STLastSig_SameLine(row, tag, offset) ==
  IF STHits(row, tag) # {} THEN row[STWay(row, tag)].sig ELSE 0

\* The signature to train: 0 (train nothing) unless the page has moved.
STLastSig(row, tag, offset) ==
  IF STDelta(row, tag, offset) # 0 THEN row[STWay(row, tag)].sig ELSE 0

\* The signature the lookahead starts from: 0 when the same line comes again.
STCurrSig(row, ghr, tag, offset) ==
  IF STHits(row, tag) # {} /\ STDelta(row, tag, offset) = 0
    THEN 0
    ELSE STNewSig(row, ghr, tag, offset)

(***************************************************************************)
(* What a row and the register must be like for the table to work.         *)
(***************************************************************************)

\* The lru fields are a permutation of the ways.
LRUOrdered(row) ==
  /\ \A p \in STWayIds : \E w \in STWayIds : row[w].lru = p
  /\ \A v, w \in STWayIds : row[v].lru = row[w].lru => v = w

OneEntryPerTag(row) ==
  \A v, w \in STWayIds :
    (row[v].valid /\ row[w].valid /\ row[v].tag = row[w].tag) => v = w

OneEntryPerOffset(ghr) ==
  \A i, j \in GHRIds :
    (ghr[i].valid /\ ghr[j].valid /\ ghr[i].offset = ghr[j].offset) => i = j
=============================================================================

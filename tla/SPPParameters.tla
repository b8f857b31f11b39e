--------------------------- MODULE SPPParameters ---------------------------
(***************************************************************************)
(* The knobs of the Signature Path Prefetcher (pref_spp.param.def) and the *)
(* constants its init derives from them, as CONSTANTS.                     *)
(*                                                                         *)
(* An address is a line number.  Lines are numbered through the pages, so  *)
(* line l is at offset l % LinesPerPage of page l \div LinesPerPage; a     *)
(* delta walks from line to line and may leave the page, and even Lines.   *)
(* Hashing is a parameter: the four index functions stand for spp_hash64   *)
(* followed by a modulus or a bit field, NextSig for the signature mix.    *)
(***************************************************************************)
EXTENDS Integers, FiniteSetsExt

CONSTANTS
  Pages,            \* number of pages of the modelled address space
  LinesPerPage,     \* VA_PAGE_SIZE_BYTES / DCACHE_LINE_SIZE
  Tags,             \* values of a partial page tag (PREF_SPP_ST_TAG_BIT)
  SigMax,           \* spp->sig_mask
  STSets, STWays,   \* signature table geometry
  PTSets, PTWays,   \* pattern table geometry
  CSigMax,          \* (1 << PREF_SPP_C_SIG_BIT) - 1
  CDeltaMax,        \* (1 << PREF_SPP_C_DELTA_BIT) - 1
  FilterSlots,      \* spp->filter_set = 1 << PREF_SPP_QUOTIENT_BIT
  Remainders,       \* number of remainder tags, 1 << PREF_SPP_REMAINDER_BIT
  GHREntries,       \* PREF_SPP_GHR_ENTRIES
  GlobalCounterMax, \* (1 << PREF_SPP_GLOBAL_CTR_BIT) - 1
  UnsRange,         \* 2^32, the range of the C type uns
  PFThreshold, IssueThreshold, FillThreshold, \* percent
  MaxDepth,         \* PREF_SPP_MAX_DEPTH
  LookaheadOn, FilterOn, GHROn,               \* the functional knobs
  STSetOf,          \* page -> ST set     (spp_hash64(page) % st_set)
  TagOf,            \* page -> tag        (page & st_tag_mask)
  PTSetOf,          \* signature -> PT set
  SlotOf,           \* line -> filter slot (quotient of its hash)
  RemainderOf,      \* line -> remainder tag
  NextSig           \* <<signature, delta>> -> signature

STSetIds == 0 .. STSets - 1
STWayIds == 0 .. STWays - 1
PTSetIds == 0 .. PTSets - 1
PTWayIds == 0 .. PTWays - 1
SlotIds  == 0 .. FilterSlots - 1
GHRIds   == 0 .. GHREntries - 1
Sigs     == 0 .. SigMax
Offsets  == 0 .. LinesPerPage - 1
PageIds  == 0 .. Pages - 1
Lines    == 0 .. Pages * LinesPerPage - 1
RemIds   == 0 .. Remainders - 1

\* Differences of two offsets of one page: every delta the tables can hold.
Deltas == -(LinesPerPage - 1) .. LinesPerPage - 1

PageOf(line)   == line \div LinesPerPage
OffsetOf(line) == line % LinesPerPage

\* ISSUE_THRESHOLD = 0 means "use PF_THRESHOLD".
IssueCutoff == IF IssueThreshold # 0 THEN IssueThreshold ELSE PFThreshold

ASSUME SizesAssumption ==
  /\ Pages \in Nat \ {0} /\ LinesPerPage \in Nat \ {0}
  /\ STSets \in Nat \ {0} /\ STWays \in Nat \ {0}
  /\ PTSets \in Nat \ {0} /\ PTWays \in Nat \ {0}
  /\ FilterSlots \in Nat \ {0} /\ Remainders \in Nat \ {0}
  /\ GHREntries \in Nat \ {0}
  /\ SigMax \in Nat /\ CSigMax \in Nat /\ CDeltaMax \in Nat
  /\ GlobalCounterMax \in Nat /\ MaxDepth \in Nat
  /\ UnsRange \in Nat /\ UnsRange > 100

ASSUME ThresholdAssumption ==
  /\ PFThreshold \in Nat /\ IssueThreshold \in Nat /\ FillThreshold \in Nat
  /\ {LookaheadOn, FilterOn, GHROn} \subseteq BOOLEAN

ASSUME HashAssumption ==
  /\ 0 \in Tags
  /\ STSetOf \in [PageIds -> STSetIds]
  /\ TagOf \in [PageIds -> Tags]
  /\ PTSetOf \in [Sigs -> PTSetIds]
  /\ SlotOf \in [Lines -> SlotIds]
  /\ RemainderOf \in [Lines -> RemIds]
  /\ NextSig \in [Sigs \X Deltas -> Sigs]
=============================================================================

------------------------------- MODULE MCSPP -------------------------------
(***************************************************************************)
(* Small instances of the Signature Path Prefetcher.  Hashes are replaced  *)
(* by bit fields of their argument, so that pages, lines and signatures    *)
(* collide as often as the small tables make them.                         *)
(***************************************************************************)
EXTENDS SPPRefinement, SPPSignature

CONSTANTS SigShift, SigBits, SigDeltaBits

MCNextSig ==
  [p \in Sigs \X Deltas |->
     MixSig(p[1], p[2], SigShift, SigBits, SigDeltaBits)]

MCSTSetOf     == [page \in PageIds |-> page % STSets]
MCTagOf       == [page \in PageIds |-> page % Cardinality(Tags)]
MCPTSetOf     == [sig \in Sigs |-> sig % PTSets]
MCSlotOf      == [line \in Lines |-> (line \div Remainders) % FilterSlots]
MCRemainderOf == [line \in Lines |-> line % Remainders]
=============================================================================

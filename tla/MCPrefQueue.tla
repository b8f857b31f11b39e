---------------------------- MODULE MCPrefQueue ----------------------------
(***************************************************************************)
(* A small instance of the UL1 prefetch request queue: two cores share it, *)
(* one with two lines.                                                     *)
(***************************************************************************)
EXTENDS PrefQueue

CONSTANTS c1, c2, l1, l2, l3, l4

MCCoreOf == [line \in Lines |-> IF line \in {l1, l2} THEN c1 ELSE c2]
=============================================================================

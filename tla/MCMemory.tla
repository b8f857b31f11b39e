------------------------------ MODULE MCMemory ------------------------------
(***************************************************************************)
(* Small instances of the memory hierarchy.                                *)
(***************************************************************************)
EXTENDS CoreMemory, TLC

CONSTANTS o1, o2, la, lb, lc, ld

MCWaiters == Ops \X (1 .. MaxUnique)
MCIds == 1 .. Entries
MCSymmetry == Permutations(Lines) \cup Permutations(Ops)
=============================================================================

----------------------------- MODULE MCPipeline -----------------------------
(***************************************************************************)
(* The pipeline on programs of one register and one address.  The indirect *)
(* jump meets every answer the branch predictor and the target buffer can  *)
(* give.                                                                   *)
(***************************************************************************)
EXTENDS Pipeline

MCInst(mem, cf, srcs, dests, bar) ==
    [mem |-> mem, cf |-> cf, srcs |-> srcs, dests |-> dests, addr |-> "a", bar |-> bar]

MCInsts == {MCInst("load",  "none",     {},    {"r"}, {}),
            MCInst("store", "none",     {"r"}, {},    {}),
            MCInst("none",  "indirect", {"r"}, {},    {}),
            MCInst("none",  "none",     {},    {},    {"issue", "fetch"})}

MCStations == 1 .. 1
MCTwoStations == 1 .. 2

=============================================================================

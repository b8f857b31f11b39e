----------------------------- MODULE CacheSets -----------------------------
(***************************************************************************)
(* One set of a cache (libs/cache_lib.c), as the data cache, the L1 and    *)
(* the structures beside them use it: look a line up, ask which way would  *)
(* be replaced, insert.  A set is a function from its ways to entries      *)
(* [valid, line, ...]; what an entry holds beside is its user's affair.    *)
(*                                                                         *)
(* The recency of the ways is left out: among valid ways any may be the    *)
(* one to go, as it may under true LRU once enough other lines were        *)
(* touched, and as lines touched in one cycle carry the same time.         *)
(***************************************************************************)
EXTENDS Integers, FiniteSetsExt

\* cache_access: the ways are searched in order, the first match answers.
Holding(set, line) ==
  {w \in DOMAIN set : set[w].valid /\ set[w].line = line}

Hit(set, line) == Holding(set, line) # {}

HitWay(set, line) == Min(Holding(set, line))

\* find_repl_entry: the first free way, any way of a full set.  Asked for
\* twice in one cycle (get_next_repl_line, then cache_insert) it answers the
\* same.
Replaceable(set) ==
  LET free == {w \in DOMAIN set : ~ set[w].valid}
  IN  IF free = {} THEN DOMAIN set ELSE {Min(free)}

\* cache_insert: nobody looks whether the line is there already.
Insert(set, way, entry) == [set EXCEPT ![way] = entry]
=============================================================================

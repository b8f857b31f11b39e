--------------------------- MODULE SPPRefinement ---------------------------
(***************************************************************************)
(* The Signature Table implements RecentPages: read in the order of their  *)
(* lru fields, the valid ways of a row are the recently touched pages.     *)
(***************************************************************************)
EXTENDS SPP

\* The way of a page by its age, 1 for the page touched last.
WayOfAge(row, i) == CHOOSE w \in STWayIds : row[w].lru = i - 1

RecentOf(row) ==
  [i \in {a \in 1 .. STWays : row[WayOfAge(row, a)].valid} |->
     LET e == row[WayOfAge(row, i)]
     IN  [tag |-> e.tag, offset |-> e.last_offset]]

Recent == INSTANCE RecentPages WITH
            Sets <- STSetIds, PageTags <- Tags, PageOffsets <- Offsets,
            Capacity <- STWays,
            recent <- [s \in STSetIds |-> RecentOf(st[s])]

\* The Signature Table is a true LRU memory of pages and their last offsets,
\* although an invalid way is filled before the LRU way is replaced.
RemembersRecentPages == Recent!Spec
=============================================================================

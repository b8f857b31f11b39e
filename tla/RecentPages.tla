---------------------------- MODULE RecentPages ----------------------------
(***************************************************************************)
(* What the Signature Table promises, without ways, valid bits or lru      *)
(* fields: each set remembers the most recently touched pages, most recent *)
(* first, at most Capacity of them, with the last offset touched in each.  *)
(***************************************************************************)
EXTENDS Naturals

CONSTANTS Sets, PageTags, PageOffsets, Capacity

VARIABLE recent

Init == recent = [s \in Sets |-> <<>>]

\* The place a touched page takes: its own, the first free one, or the oldest.
Place(memory, tag, p) ==
  \/ p \in DOMAIN memory /\ memory[p].tag = tag
  \/ /\ \A i \in DOMAIN memory : memory[i].tag # tag
     /\ \/ DOMAIN memory = 1 .. p - 1
        \/ DOMAIN memory = 1 .. Capacity /\ p = Capacity

\* From there it comes to the front, and the pages before it move up.
ToFront(memory, p, page) ==
  [i \in DOMAIN memory \cup {p} |->
     IF i = 1 THEN page ELSE IF i =< p THEN memory[i - 1] ELSE memory[i]]

Touch(s, tag, offset) ==
  \E p \in 1 .. Capacity :
    /\ Place(recent[s], tag, p)
    /\ recent' = [recent EXCEPT
         ![s] = ToFront(recent[s], p, [tag |-> tag, offset |-> offset])]

Next == \E s \in Sets, tag \in PageTags, offset \in PageOffsets :
          Touch(s, tag, offset)

Spec == Init /\ [][Next]_recent
=============================================================================

--------------------------- MODULE MemoryService ---------------------------
(***************************************************************************)
(* What the memory hierarchy promises the core, whatever it is made of: a  *)
(* client that waits for a line gets it.  A line arrives and ends the      *)
(* waits of some that wait for it; those who hold no right to it any more  *)
(* (an op off the path, a fetch after a recovery) may be sent away before. *)
(***************************************************************************)
CONSTANTS Clients, Lines, NoLine

VARIABLES
  waits,     \* client -> line it waits for, NoLine when it does not
  revocable, \* clients that may be sent away
  present    \* lines at hand

svars == <<waits, revocable, present>>

ServiceInit ==
  /\ waits = [c \in Clients |-> NoLine]
  /\ revocable = {}
  /\ present = {}

Waiting == {c \in Clients : waits[c] # NoLine}

Released(served) == [c \in Clients |-> IF c \in served THEN NoLine
                                       ELSE waits[c]]

\* Only one that does not wait may begin to.
Ask(c, line) ==
  /\ c \notin Waiting
  /\ waits' = [waits EXCEPT ![c] = line]
  /\ revocable' \in {revocable, revocable \cup {c}}
  /\ UNCHANGED present

\* A line arrives, perhaps in the place of another one.
Arrive(line, served) ==
  /\ \A c \in served : waits[c] = line
  /\ waits' = Released(served)
  /\ revocable' = revocable \ served
  /\ line \in present' /\ present' \subseteq present \cup {line}

Revoke(sent) ==
  /\ sent \subseteq revocable
  /\ waits' = Released(sent)
  /\ revocable' = revocable \ sent
  /\ UNCHANGED present

ServiceNext ==
  \/ \E c \in Clients, line \in Lines : Ask(c, line)
  \/ \E line \in Lines, served \in SUBSET Clients : Arrive(line, served)
  \/ \E sent \in SUBSET Clients : Revoke(sent)

\* Every wait ends.
Answered(c) == waits[c] # NoLine ~> waits[c] = NoLine

ServiceSafety == ServiceInit /\ [][ServiceNext]_svars

Service ==
  /\ ServiceSafety
  /\ \A c \in Clients : Answered(c)
=============================================================================

------------------------------ MODULE InOrder ------------------------------
(***************************************************************************)
(* What the pipeline promises: the instructions of the program enter in    *)
(* program order, and leave in program order, each once.                   *)
(***************************************************************************)
EXTENDS Integers, FiniteSets

CONSTANTS Insts, ProgramLength

VARIABLES
    retired,    \* how many instructions have left
    inFlight    \* those that have entered and not left, by their number

vars == <<retired, inFlight>>

Init == retired = 0 /\ inFlight = [n \in {} |-> 0]

Enter(inst) ==
    LET n == retired + Cardinality(DOMAIN inFlight) + 1
    IN /\ n <= ProgramLength
       /\ inFlight' = [m \in DOMAIN inFlight \cup {n} |-> IF m = n THEN inst ELSE inFlight[m]]
       /\ UNCHANGED retired

Leave ==
    /\ retired + 1 \in DOMAIN inFlight
    /\ inFlight' = [m \in DOMAIN inFlight \ {retired + 1} |-> inFlight[m]]
    /\ retired' = retired + 1

Next == Leave \/ \E inst \in Insts : Enter(inst)

Spec == Init /\ [][Next]_vars

=============================================================================

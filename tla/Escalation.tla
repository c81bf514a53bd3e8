----------------------------- MODULE Escalation -----------------------------
(***************************************************************************)
(* What timeout tracking promises about one conversation: between two      *)
(* resets (an agent message or a customer response) the waiting customer   *)
(* is told each timeout level at most once, and in rising order; a level   *)
(* may be skipped.                                                         *)
(*                                                                         *)
(* This is the specification TimeoutTracking is shown to implement when a  *)
(* single pod checks, and no command fails.                                *)
(***************************************************************************)
EXTENDS Naturals

CONSTANT Convs   \* the conversations

VARIABLE told    \* how often each level was told since the last reset

Levels == 1..3

Untold == [L \in Levels |-> 0]

Init == told = [c \in Convs |-> Untold]

(* A level is told only while neither it nor a higher one has been.        *)
Notify(c, L) ==
  /\ \A M \in Levels : M >= L => told[c][M] = 0
  /\ told' = [told EXCEPT ![c][L] = 1]

Reset(c) == told' = [told EXCEPT ![c] = Untold]

Next == \E c \in Convs : Reset(c) \/ \E L \in Levels : Notify(c, L)

Spec == Init /\ [][Next]_told
=============================================================================

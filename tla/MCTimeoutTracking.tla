------------------------- MODULE MCTimeoutTracking --------------------------
(***************************************************************************)
(* Small instances of TimeoutTracking for TLC.  One tick is one timeout    *)
(* interval, so the third level is due from the fourth tick on.            *)
(***************************************************************************)
EXTENDS TimeoutTracking, TLC

(* Pods, handlers and conversations are interchangeable.  Sound for the    *)
(* runs without liveness properties.                                       *)
Symmetry ==
  Permutations(Convs) \cup Permutations(Checkers) \cup Permutations(Requests)
=============================================================================

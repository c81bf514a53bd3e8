-------------------------- MODULE MCStreamProducer --------------------------
(***************************************************************************)
(* Small instances of StreamProducer for TLC.  One tick is one timeout     *)
(* interval.                                                               *)
(***************************************************************************)
EXTENDS StreamProducer, TLC

(* Conversations, handlers and the loops of a kind are interchangeable.    *)
(* Sound for the runs without liveness properties.                         *)
Symmetry ==
  Permutations(Convs) \cup Permutations(Requests) \cup
  Permutations(CheckLoops) \cup Permutations(DetectLoops)
=============================================================================

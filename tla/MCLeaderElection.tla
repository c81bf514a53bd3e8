-------------------------- MODULE MCLeaderElection --------------------------
(***************************************************************************)
(* Small instances of LeaderElection for TLC.  One tick is the election    *)
(* period of five seconds unless the configuration says otherwise, so the  *)
(* default LEADER_ELECTION_TTL of ten seconds is two ticks.                *)
(***************************************************************************)
EXTENDS LeaderElection, TLC

(* Pods are interchangeable, and so are the callers of IsLeader().  Sound  *)
(* for the runs without temporal properties.                               *)
Symmetry == Permutations(Pods) \cup Permutations(Callers)
=============================================================================

--------------------------- MODULE MCTimeoutStream --------------------------
(***************************************************************************)
(* Small instances of TimeoutStream for TLC.                               *)
(***************************************************************************)
EXTENDS TimeoutStream, TLC

(* Consumers are interchangeable.  Sound for the runs without liveness     *)
(* properties.                                                             *)
Symmetry == Permutations(Consumers)
=============================================================================

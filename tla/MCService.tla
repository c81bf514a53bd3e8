------------------------------ MODULE MCService -----------------------------
(***************************************************************************)
(* A small instance of Service for TLC: one pod in detail, one other.      *)
(* There is no symmetry to use: the run checks liveness.                   *)
(***************************************************************************)
EXTENDS Service
=============================================================================

------------------------------- MODULE Lease -------------------------------
(***************************************************************************)
(* What the Redis key "timeout:leader" promises the pods, whatever they do *)
(* with it: a lease.  It is granted only while it is free, it runs out     *)
(* after at most TTL ticks unless its holder extends it, and it passes     *)
(* from one pod to another only by being free in between.                  *)
(*                                                                         *)
(* This is the specification LeaderElection is shown to implement.         *)
(***************************************************************************)
EXTENDS Naturals

CONSTANTS Pods,   \* the pods that compete for the lease
          NoPod,  \* the value of holder while nobody holds the lease
          TTL     \* ticks a grant lasts; 0: a grant never runs out

VARIABLES holder,    \* the pod the lease is granted to
          remaining  \* ticks left before it runs out (0: it does not)

vars == <<holder, remaining>>

Free == holder = NoPod /\ remaining = 0

Init == Free

(* The lease is granted, only while nobody holds it.                       *)
Grant(p) ==
  /\ holder = NoPod
  /\ holder' = p
  /\ remaining' = TTL

(* Its holder extends it.                                                  *)
Extend(p) ==
  /\ holder = p
  /\ remaining' = TTL
  /\ UNCHANGED holder

(* Its holder gives it up.                                                 *)
Release(p) ==
  /\ holder = p
  /\ holder' = NoPod
  /\ remaining' = 0

(* Time passes: the lease comes one tick closer to its end ...             *)
Age ==
  /\ remaining > 1
  /\ remaining' = remaining - 1
  /\ UNCHANGED holder

(* ... and ends with its last tick.                                        *)
Expire ==
  /\ remaining = 1
  /\ Free'

Next == \/ \E p \in Pods : Grant(p) \/ Extend(p) \/ Release(p)
        \/ Age
        \/ Expire

Spec == Init /\ [][Next]_vars
=============================================================================

--------------------------- MODULE EventDelivery ---------------------------
(***************************************************************************)
(* What the Phase 2 event stream promises: at-least-once delivery.  A      *)
(* published event may be told to the notification service any number of   *)
(* times, but it is finished, never to be looked at again, only once it    *)
(* has been told, or has turned out to be unreadable.                      *)
(*                                                                         *)
(* This is the specification TimeoutStream is shown to implement.          *)
(***************************************************************************)

CONSTANT Events   \* the events that may ever be published

VARIABLES published,  \* the events in the stream
          unreadable, \* those of them no consumer can parse
          told,       \* the events the notification service was told of
          finished    \* the events that are acknowledged

vars == <<published, unreadable, told, finished>>

Init == published = {} /\ unreadable = {} /\ told = {} /\ finished = {}

Publish(e) ==
  /\ e \in Events \ published
  /\ published' = published \cup {e}
  /\ unreadable' \in {unreadable, unreadable \cup {e}}
  /\ UNCHANGED <<told, finished>>

Tell(e) ==
  /\ e \in published \ unreadable
  /\ told' = told \cup {e}
  /\ UNCHANGED <<published, unreadable, finished>>

Finish(e) ==
  /\ e \in told \cup unreadable
  /\ finished' = finished \cup {e}
  /\ UNCHANGED <<published, unreadable, told>>

Next == \E e \in Events : Publish(e) \/ Tell(e) \/ Finish(e)

Spec == Init /\ [][Next]_vars
=============================================================================

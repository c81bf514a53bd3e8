--------------------------- MODULE TimeoutStream ----------------------------
(***************************************************************************)
(* The consumer side of Phase 2, pkg/phase2/stream_consumer.go, and the    *)
(* stream "timeout_events" with its one consumer group.                    *)
(*                                                                         *)
(* Each consumer runs two loops.  The read loop takes new entries with     *)
(* XREADGROUP; Redis remembers them in the group's pending list until they *)
(* are acknowledged.  The recovery loop takes over, with XAUTOCLAIM,       *)
(* entries of whichever consumer that have been pending for MinIdle.  Both *)
(* tell the notification service of one entry after the other, in the      *)
(* order of their ids, and acknowledge each (processMessage).              *)
(*                                                                         *)
(* Who a pending entry is assigned to never matters to the code: XACK and  *)
(* XAUTOCLAIM act on it all the same.  It is not part of the state.        *)
(***************************************************************************)
EXTENDS Integers, FiniteSets

CONSTANTS
  Consumers,      \* the consumers, "consumer-" + POD_ID
  Count,          \* entries taken by one XREADGROUP or XAUTOCLAIM (10)
  MinIdle,        \* ticks after which a pending entry is claimed (1 minute)
  ForeignEvents,  \* others may write entries that do not parse
  ServiceFails,   \* the notification service may return an error
  RedisFaults,    \* commands may fail, with or without being executed
  Exits,          \* consumers may stop, crash and restart
  MaxEvents       \* bound: entries added to the stream

ASSUME TimeoutStreamAssumption ==
  /\ Count \in Nat \ {0}
  /\ MinIdle \in Nat \ {0}
  /\ MaxEvents \in Nat
  /\ ForeignEvents \in BOOLEAN
  /\ ServiceFails \in BOOLEAN
  /\ RedisFaults \in BOOLEAN
  /\ Exits \in BOOLEAN

VARIABLES
  length,     \* Redis: entries added so far; their ids are 1..length
  malformed,  \* Redis: the entries that do not parse
  delivered,  \* Redis: the group's last delivered id
  idle,       \* Redis: ticks since a pending entry was last handed out
  runs,       \* the state of each consumer
  pc,         \* where each loop is
  inbox,      \* the entries each loop has been handed and not yet dealt with
  notified,   \* history: how often the service was told of each entry,
              \*          counted up to two
  slow,       \* history: the entries that were MinIdle old in a loop's hands
  failed      \* history: the entries told, but not acknowledged for it

stream  == <<length, malformed, delivered>>
trouble == <<slow, failed>>
vars    == <<length, malformed, delivered, idle, runs, pc, inbox, notified,
             slow, failed>>

Ids == 1..MaxEvents

Workers == Consumers \X {"read", "claim"}

Min2(a, b) == IF a < b THEN a ELSE b

(* Not in the pending list: not handed out yet, or acknowledged.           *)
NotPending == -1

Pending == {i \in Ids : idle[i] # NotPending}

-----------------------------------------------------------------------------
(* The group exists before the first event does: StreamProducer.Start      *)
(* creates it, with the stream, before anything is published.              *)
Init ==
  /\ length = 0
  /\ malformed = {}
  /\ delivered = 0
  /\ idle = [i \in Ids |-> NotPending]
  /\ runs = [c \in Consumers |-> "down"]
  /\ pc = [w \in Workers |-> "next"]
  /\ inbox = [w \in Workers |-> {}]
  /\ notified = [i \in Ids |-> 0]
  /\ slow = {}
  /\ failed = {}

(* publishTimeoutEvent of some leader: XADD.  An event sent again after a  *)
(* lost reply is one more entry like any other.                            *)
Publish ==
  /\ length < MaxEvents
  /\ length' = length + 1
  /\ \/ UNCHANGED malformed
     \/ ForeignEvents /\ malformed' = malformed \cup {length'}
  /\ UNCHANGED <<delivered, idle, runs, pc, inbox, notified, trouble>>

(* The entries are in the pending list, handed out just now.               *)
HandOut(ids) == idle' = [i \in Ids |-> IF i \in ids THEN 0 ELSE idle[i]]

(* The reply reaches the loop, or is lost on the way.                      *)
Receive(w, ids) ==
  \/ inbox' = [inbox EXCEPT ![w] = ids]
  \/ RedisFaults /\ UNCHANGED inbox

(* consumeMessages: the call of XREADGROUP for ">" begins.                 *)
CallReadGroup(c) ==
  LET w == <<c, "read">> IN
  /\ runs[c] = "up"
  /\ pc[w] = "next"
  /\ inbox[w] = {}
  /\ pc' = [pc EXCEPT ![w] = "read"]
  /\ UNCHANGED <<stream, idle, runs, inbox, notified, trouble>>

(* Faulty variant: the last delivered id runs ahead of the stream.         *)
ReadPastEnd(c) ==
  LET w == <<c, "read">> IN
  /\ pc[w] = "read"
  /\ pc' = [pc EXCEPT ![w] = "next"]
  /\ delivered < length
  /\ delivered' = delivered + Count
  /\ HandOut(delivered + 1 .. delivered')
  /\ UNCHANGED <<length, malformed, runs, inbox, notified, trouble>>

(* It returns new entries as soon as there are some, even if Stop has been *)
(* called while it waited for them.                                        *)
ReadGroup(c) ==
  LET w == <<c, "read">> IN
  /\ pc[w] = "read"
  /\ pc' = [pc EXCEPT ![w] = "next"]
  /\ delivered < length
  /\ delivered' = Min2(delivered + Count, length)
  /\ HandOut(delivered + 1 .. delivered')
  /\ Receive(w, delivered + 1 .. delivered')
  /\ UNCHANGED <<length, malformed, runs, notified, trouble>>

(* It returns without entries after a second, or with an error.            *)
ReadNothing(c) ==
  LET w == <<c, "read">> IN
  /\ pc[w] = "read"
  /\ delivered = length \/ RedisFaults
  /\ pc' = [pc EXCEPT ![w] = "next"]
  /\ UNCHANGED <<stream, idle, runs, inbox, notified, trouble>>

(* processPendingMessages: XPENDING; with nothing pending it returns.  A   *)
(* ticker that fires after Stop may still win against stopCh in select.    *)
CheckPending(c) ==
  LET w == <<c, "claim">> IN
  /\ runs[c] # "down"
  /\ pc[w] = "next"
  /\ inbox[w] = {}
  /\ Pending # {}
  /\ pc' = [pc EXCEPT ![w] = "claim"]
  /\ UNCHANGED <<stream, idle, runs, inbox, notified, trouble>>

(* Faulty variants: entries are claimed however young they are; the scan   *)
(* starts behind the oldest entry.                                         *)
ClaimYoung == Pending
ClaimAfterOldest ==
  {i \in Ids : idle[i] = MinIdle /\ \E j \in Pending : j < i}

(* The first Count entries that have been pending for MinIdle.             *)
Claimable ==
  LET old == {i \in Ids : idle[i] = MinIdle}
  IN  {i \in old : Cardinality({j \in old : j < i}) < Count}

(* processPendingMessages: XAUTOCLAIM from 0-0.                            *)
AutoClaim(c) ==
  LET w == <<c, "claim">> IN
  /\ pc[w] = "claim"
  /\ pc' = [pc EXCEPT ![w] = "next"]
  /\ \/ HandOut(Claimable) /\ Receive(w, Claimable)
     \/ RedisFaults /\ UNCHANGED <<idle, inbox>>
  /\ UNCHANGED <<stream, runs, notified, trouble>>

(* The entry the loop deals with: the one with the lowest id.              *)
IsCurrent(w, i) == i \in inbox[w] /\ \A j \in inbox[w] : i <= j

Tell(i) == notified' = [notified EXCEPT ![i] = Min2(@ + 1, 2)]

Fail(ids) == failed' = failed \cup ids

Drop(w, i) == inbox' = [inbox EXCEPT ![w] = @ \ {i}]

(* Faulty variant: an entry is acknowledged even if the service failed.    *)
SendAndAck(w, i) ==
  /\ pc[w] = "next"
  /\ IsCurrent(w, i)
  /\ i \notin malformed
  /\ Tell(i) \/ (ServiceFails /\ UNCHANGED notified)
  /\ pc' = [pc EXCEPT ![w] = "ack"]
  /\ UNCHANGED <<stream, idle, runs, inbox, trouble>>

(* processMessage, up to sendNotification.  After an error of the service, *)
(* which may have been told all the same, the entry stays pending.         *)
SendNotification(w, i) ==
  /\ pc[w] = "next"
  /\ IsCurrent(w, i)
  /\ i \notin malformed
  /\ \/ Tell(i) /\ pc' = [pc EXCEPT ![w] = "ack"] /\ UNCHANGED <<inbox, failed>>
     \/ /\ ServiceFails
        /\ \/ Tell(i) /\ Fail({i})
           \/ UNCHANGED <<notified, failed>>
        /\ Drop(w, i)
        /\ UNCHANGED pc
  /\ UNCHANGED <<stream, idle, runs, slow>>

(* processMessage: an entry that does not parse is acknowledged at once.   *)
DiscardMalformed(w, i) ==
  /\ pc[w] = "next"
  /\ IsCurrent(w, i)
  /\ i \in malformed
  /\ pc' = [pc EXCEPT ![w] = "ack"]
  /\ UNCHANGED <<stream, idle, runs, inbox, notified, trouble>>

(* Faulty variant: the XACK is forgotten.                                  *)
ForgetToAck(w, i) ==
  /\ pc[w] = "ack"
  /\ IsCurrent(w, i)
  /\ Drop(w, i)
  /\ pc' = [pc EXCEPT ![w] = "next"]
  /\ UNCHANGED <<stream, idle, runs, notified, trouble>>

(* acknowledgeMessage: XACK.  If it fails the entry stays pending.         *)
AcknowledgeMessage(w, i) ==
  /\ pc[w] = "ack"
  /\ IsCurrent(w, i)
  /\ \/ idle' = [idle EXCEPT ![i] = NotPending] /\ UNCHANGED failed
     \/ RedisFaults /\ Fail({i}) /\ UNCHANGED idle
  /\ Drop(w, i)
  /\ pc' = [pc EXCEPT ![w] = "next"]
  /\ UNCHANGED <<stream, runs, notified, slow>>

-----------------------------------------------------------------------------
Start(c) ==
  /\ runs[c] = "down"
  /\ runs' = [runs EXCEPT ![c] = "up"]
  /\ UNCHANGED <<stream, idle, pc, inbox, notified, trouble>>

(* Stop closes stopCh and waits for nobody: the loops end with the batch   *)
(* they are at, unless the process ends before.                            *)
Stop(c) ==
  /\ Exits
  /\ runs[c] = "up"
  /\ runs' = [runs EXCEPT ![c] = "closed"]
  /\ UNCHANGED <<stream, idle, pc, inbox, notified, trouble>>

Acknowledging(w, i) == pc[w] = "ack" /\ IsCurrent(w, i)

(* The process ends, after Stop or by a crash, with what it held.          *)
Exit(c) ==
  /\ Exits
  /\ runs[c] # "down"
  /\ runs' = [runs EXCEPT ![c] = "down"]
  /\ pc' = [w \in Workers |-> IF w[1] = c THEN "next" ELSE pc[w]]
  /\ inbox' = [w \in Workers |-> IF w[1] = c THEN {} ELSE inbox[w]]
  /\ Fail({i \in Ids : \E w \in Workers : w[1] = c /\ Acknowledging(w, i)})
  /\ UNCHANGED <<stream, idle, notified, slow>>

InHand(i) == \E w \in Workers : i \in inbox[w]

(* Time passes, however far the loops have come.                           *)
Tick ==
  /\ idle' = [i \in Ids |-> IF idle[i] \in {NotPending, MinIdle}
                            THEN idle[i] ELSE idle[i] + 1]
  /\ slow' = slow \cup {i \in Ids : InHand(i) /\ idle'[i] = MinIdle}
  /\ UNCHANGED <<stream, runs, pc, inbox, notified, failed>>

-----------------------------------------------------------------------------
Process(w) ==
  \E i \in Ids : \/ SendNotification(w, i) \/ DiscardMalformed(w, i)
                 \/ AcknowledgeMessage(w, i)

Read(c) == CallReadGroup(c) \/ ReadGroup(c) \/ ReadNothing(c)

Recover(c) == CheckPending(c) \/ AutoClaim(c)

Next == \/ Publish
        \/ Tick
        \/ \E w \in Workers : Process(w)
        \/ \E c \in Consumers : \/ Read(c) \/ Recover(c)
                                \/ Start(c) \/ Stop(c) \/ Exit(c)

Spec == Init /\ [][Next]_vars

(* Each loop goes on for as long as its process runs; time passes.         *)
Fairness ==
  /\ WF_vars(Tick)
  /\ \A w \in Workers : WF_vars(Process(w))
  /\ \A c \in Consumers : WF_vars(Read(c)) /\ WF_vars(Recover(c))

FairSpec == Spec /\ Fairness

-----------------------------------------------------------------------------
(***************************************************************************)
(* Properties                                                              *)
(***************************************************************************)

(* Every variable stays within the states the code can be in.              *)
TypeOK ==
  /\ length \in 0..MaxEvents
  /\ malformed \subseteq 1..length
  /\ delivered \in 0..length
  /\ idle \in [Ids -> {NotPending} \cup 0..MinIdle]
  /\ runs \in [Consumers -> {"down", "up", "closed"}]
  /\ pc \in [Workers -> {"next", "read", "claim", "ack"}]
  /\ inbox \in [Workers -> SUBSET Ids]
  /\ notified \in [Ids -> 0..2]
  /\ slow \subseteq Ids
  /\ failed \subseteq Ids

(* The entries Redis has done with: handed out once and acknowledged.      *)
Acknowledged == (1..delivered) \ Pending

(* At-least-once delivery, see module EventDelivery: whatever is lost,     *)
(* claimed twice or interrupted, no event is acknowledged untold.          *)
Delivery == INSTANCE EventDelivery
  WITH Events     <- Ids,
       published  <- 1..length,
       unreadable <- malformed,
       told       <- {i \in Ids : notified[i] > 0},
       finished   <- Acknowledged

DeliverySpec == Delivery!Spec

(* No two loops, of one pod or of two, hold the same entry at the same     *)
(* time, unless it was not dealt with within MinIdle.                      *)
OneHolder ==
  \A v, w \in Workers : v # w => inbox[v] \cap inbox[w] \subseteq slow

(* The service is told of an entry a second time only if a loop was too    *)
(* slow with it, or if the acknowledgement of the first time failed: other *)
(* failures, of other entries, consumers or commands, repeat nothing.      *)
ToldOnce == \A i \in Ids : notified[i] > 1 => i \in slow \cup failed

(* Once every consumer stays up, each event is told in the end, also the   *)
(* ones a consumer took to its grave.                                      *)
EventuallyTold ==
  \A i \in Ids :
    <>[](\A c \in Consumers : runs[c] = "up") =>
      [](i <= length /\ i \notin malformed => <>(notified[i] > 0))
=============================================================================

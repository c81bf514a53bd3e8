--------------------------- MODULE StreamProducer ---------------------------
(***************************************************************************)
(* The producer side of Phase 2, pkg/phase2/stream_producer.go.            *)
(*                                                                         *)
(* The detection loop of the leader works like the check of Phase 1, but   *)
(* where that check tells the notification service it adds an event to the *)
(* stream.  The election that StreamProducer.Start starts brings Phase 1's *)
(* check loop with it, so both loops of the leader announce levels and     *)
(* record them in the same hash.                                           *)
(*                                                                         *)
(* This module extends TimeoutTracking: both kinds of loops are Checkers.  *)
(* They share the snapshot, the choice of a level and the HSET, and the    *)
(* requests of Phase 2 are those of Phase 1.  Any loop may run at any      *)
(* time: two pods may take themselves for the leader (LeaderElection), and *)
(* a detection loop may outlive Stop (Service).                            *)
(***************************************************************************)
EXTENDS TimeoutTracking, Sequences

CONSTANTS
  CheckLoops,   \* the pods' timeoutCheckLoops
  DetectLoops,  \* the pods' timeoutDetectionLoops
  MaxEvents     \* bound: events in the stream

(* What a detection loop tells is the stream: it fails if Redis does.      *)
ASSUME StreamProducerAssumption ==
  /\ Checkers = CheckLoops \cup DetectLoops
  /\ CheckLoops \cap DetectLoops = {}
  /\ RedisFaults => ServiceFails
  /\ MaxEvents \in Nat

VARIABLES
  events,    \* Redis: the stream "timeout_events"
  standing   \* history: the levels each loop announced and recorded, where
             \*          the level recorded has not been lowered since

stream       == <<events, standing>>
producerVars == <<vars, stream>>

Published == {events[i] : i \in DOMAIN events}

-----------------------------------------------------------------------------
ProducerInit ==
  /\ Init
  /\ events = <<>>
  /\ standing = {}

(* detectAndPublishTimeouts: the time, then the snapshot.                  *)
DetectTimeouts(d) == ReadClock(d) \/ CheckTimeouts(d)

(* processTimeoutDetection, up to publishTimeoutEvent.                     *)
ProcessDetection(d) == \E c \in Convs : ProcessConversation(d, c)

(* Faulty variant: the event carries the level recorded, not the one due.  *)
XaddLevelRecorded(d) ==
  /\ Len(events) < MaxEvents
  /\ events' = Append(events, [note[d] EXCEPT !.level = states[note[d].conv]])
  /\ Announce(d)

(* One execution of XADD by Redis: the event is in the stream, the level   *)
(* is announced.                                                           *)
Xadd(d) ==
  /\ Len(events) < MaxEvents
  /\ events' = Append(events, note[d])
  /\ Announce(d)

(* Faulty variant: an error of XADD is ignored.                            *)
PublishIgnoringErrors(d) ==
  /\ checkPc[d] = "send"
  /\ Xadd(d) \/ (RedisFaults /\ UNCHANGED <<events, telling>>)
  /\ checkPc' = [checkPc EXCEPT ![d] = "record"]
  /\ UNCHANGED <<clock, redis, now, batch, note, request, disturbed, standing>>

(* publishTimeoutEvent: XADD.  If only its reply is lost the client sends  *)
(* it again.  After an error nothing is recorded, whether or not the       *)
(* command was executed.                                                   *)
PublishTimeoutEvent(d) ==
  /\ checkPc[d] = "send"
  /\ \/ /\ Xadd(d)
        /\ checkPc' = [checkPc EXCEPT ![d] = "record"]
        /\ UNCHANGED <<note, disturbed>>
     \/ /\ RedisFaults
        /\ Xadd(d) /\ Disturb(note[d].conv)
        /\ GoOn(d) \/ UNCHANGED <<checkPc, note>>
     \/ /\ RedisFaults
        /\ UNCHANGED <<events, history>>
        /\ GoOn(d)
  /\ UNCHANGED <<clock, redis, now, batch, request, standing>>

(* What a loop recorded stands for as long as no lower level, or none, is  *)
(* recorded for the conversation.                                          *)
KeepStanding(new) ==
  standing' = {s \in standing \cup new : states'[s.conv] >= s.level}

Record(k) == [loop |-> k, conv |-> note[k].conv, level |-> note[k].level]

(* Faulty variant: after a failed HSET the loop announces the level again. *)
RecordOrAnnounceAgain(k) ==
  /\ checkPc[k] = "record"
  /\ \/ Hset(k) /\ GoOn(k) /\ KeepStanding({Record(k)})
     \/ /\ RedisFaults
        /\ checkPc' = [checkPc EXCEPT ![k] = "send"]
        /\ UNCHANGED <<states, note, standing>>
  /\ UNCHANGED <<clock, waiting, now, batch, request, history, events>>

(* The end of processTimeoutDetection, and of a check: HSET.               *)
RecordLevel(k) ==
  /\ UpdateState(k)
  /\ KeepStanding(IF states'[note[k].conv] = note[k].level
                  THEN {Record(k)} ELSE {})
  /\ UNCHANGED events

(* The pod dies with its loops; one at a time is the more general case.    *)
CrashLoop(k) == Crash(k) /\ UNCHANGED stream

-----------------------------------------------------------------------------
(* Phase 1's check loop in a Phase 2 pod.                                  *)
CheckLoopStep(k) ==
  /\ \/ ReadClock(k) \/ CheckTimeouts(k) \/ SendNotification(k)
     \/ CheckDone(k)
     \/ \E c \in Convs : ProcessConversation(k, c)
  /\ UNCHANGED stream

(* handleAgentMessage and handleCustomerResponse of Phase 2.               *)
Handle(r) ==
  \/ BeginRequest(r) /\ UNCHANGED stream
  \/ FirstCommand(r) /\ UNCHANGED stream
  \/ SecondCommand(r) /\ KeepStanding({}) /\ UNCHANGED events
  \/ ConnectionLost(r) /\ UNCHANGED stream

Time == Tick /\ UNCHANGED stream

DetectionStep(d) ==
  \/ DetectTimeouts(d) /\ UNCHANGED stream
  \/ ProcessDetection(d) /\ UNCHANGED stream
  \/ PublishTimeoutEvent(d)
  \/ CheckDone(d) /\ UNCHANGED stream

(* Phase 2 has no cleanup routine: CleanupExpired is not among its steps.  *)
ProducerNext == \/ \E d \in DetectLoops : DetectionStep(d)
                \/ \E k \in CheckLoops : CheckLoopStep(k)
                \/ \E k \in Checkers : RecordLevel(k) \/ CrashLoop(k)
                \/ \E r \in Requests : Handle(r)
                \/ Time

ProducerSpec == ProducerInit /\ [][ProducerNext]_producerVars

-----------------------------------------------------------------------------
(***************************************************************************)
(* Properties                                                              *)
(***************************************************************************)

(* Every variable stays within the states the code can be in.              *)
ProducerTypeOK ==
  /\ TypeOK
  /\ events \in Seq(Notes)
  /\ Len(events) <= MaxEvents
  /\ standing \subseteq [loop : Checkers, conv : Convs, level : Levels]

(* No loop announces a level it has announced and recorded before, or a    *)
(* lower one, unless somebody lowered the level recorded in between: a     *)
(* request, or the other loop with an older decision (see DetectedOnce).   *)
StandingNotRepeated ==
  \A k \in Checkers : checkPc[k] = "send" =>
    \A s \in standing :
      s.loop = k /\ s.conv = note[k].conv => s.level < note[k].level

(* A level in the hash is in the stream, or Phase 1's check loop has       *)
(* recorded it.  The detection loops skip what is recorded                 *)
(* (stream_producer.go:151), so the levels the check loop records are      *)
(* indeed kept from the consumers; but no lost or failed XADD, no crash    *)
(* and no second detection loop hides a level like that.                   *)
HiddenOnlyByCheckLoop ==
  \A c \in Convs : states[c] # NoState =>
    \/ \E e \in Published : e.conv = c /\ e.level = states[c]
    \/ \E s \in standing : /\ s.loop \in CheckLoops
                          /\ s.conv = c /\ s.level = states[c]

(* With one detection loop, the events about one agent message are in the  *)
(* stream in rising order of their levels, whatever is lost, sent again or *)
(* interrupted, and whatever the check loops and the requests do to the    *)
(* level in the hash meanwhile.                                            *)
EventsInOrder ==
  (\A d, e \in DetectLoops : d = e) =>
    \A i, j \in DOMAIN events :
      /\ i < j
      /\ events[i].conv = events[j].conv
      /\ events[i].start = events[j].start
      => events[i].level <= events[j].level

(* An announcement is executed, its reply is lost, and the loop is about   *)
(* to send it again.                                                       *)
AnnounceUnanswered(d) ==
  /\ RedisFaults
  /\ checkPc[d] = "send"
  /\ Announce(d)
  /\ Disturb(note[d].conv)
  /\ UNCHANGED <<clock, redis, check, request>>

(* Both kinds of loops are checkers of TimeoutTracking, but for one thing: *)
(* what Phase 2 announces may be sent twice by the client, which Phase 1's *)
(* notification service never sees.                                        *)
TrackingNext == Next \/ \E d \in DetectLoops : AnnounceUnanswered(d)

TrackingSpec == Init /\ [][TrackingNext]_vars

-----------------------------------------------------------------------------
(***************************************************************************)
(* What the repository's texts say and the code does not do                *)
(***************************************************************************)

(* stream_producer.go, before the HSET: "Update notification state to      *)
(* prevent duplicate detection".  Between two resets no level is announced *)
(* twice, here by the two loops of one pod and without faults.             *)
DetectedOnce ==
  \A c \in Convs : \A L \in Levels : told[c][L] <= 1
=============================================================================

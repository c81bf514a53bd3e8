------------------------ MODULE StreamProducerProofs ------------------------
(***************************************************************************)
(* Theorems about StreamProducer, for any number of loops of either kind,  *)
(* conversations and concurrent requests, with or without faults.          *)
(***************************************************************************)
EXTENDS StreamProducer, TimeoutTrackingProofs

-----------------------------------------------------------------------------
(* The loops are checkers                                                  *)

(* Every step is a step of TimeoutTracking, or an announcement that the    *)
(* client sends again, or leaves that state alone.                         *)
LEMMA TrackingStep ==
  ASSUME [ProducerNext]_producerVars
  PROVE  [TrackingNext]_vars
<1>a. DetectLoops \subseteq Checkers /\ CheckLoops \subseteq Checkers
  BY StreamProducerAssumption, Zenon
<1>1. ASSUME NEW d \in DetectLoops, PublishTimeoutEvent(d)
      PROVE  SendNotification(d) \/ AnnounceUnanswered(d)
  <2>1. CASE UNCHANGED <<checkPc, note>> /\ Xadd(d) /\ Disturb(note[d].conv)
             /\ RedisFaults
    BY <1>1, <2>1, Zenon
       DEF PublishTimeoutEvent, AnnounceUnanswered, Xadd, check
  <2>2. CASE ~(UNCHANGED <<checkPc, note>> /\ Xadd(d) /\ Disturb(note[d].conv)
               /\ RedisFaults)
    BY <1>1, <2>2, StreamProducerAssumption, Zenon
       DEF PublishTimeoutEvent, SendNotification, Xadd
  <2> QED
    BY <2>1, <2>2
<1>2. ASSUME NEW d \in DetectLoops, DetectionStep(d) PROVE [TrackingNext]_vars
  <2>1. CASE PublishTimeoutEvent(d)
    BY <1>a, <1>1, <2>1 DEF TrackingNext, Next, CheckStep
  <2>2. CASE DetectTimeouts(d) \/ ProcessDetection(d) \/ CheckDone(d)
    BY <1>a, <2>2
       DEF DetectTimeouts, ProcessDetection, TrackingNext, Next, CheckStep
  <2> QED
    BY <1>2, <2>1, <2>2 DEF DetectionStep
<1>3. ASSUME NEW k \in CheckLoops, CheckLoopStep(k) PROVE [TrackingNext]_vars
  BY <1>a, <1>3 DEF CheckLoopStep, TrackingNext, Next, CheckStep
<1>4. ASSUME NEW k \in Checkers, RecordLevel(k) \/ CrashLoop(k)
      PROVE  [TrackingNext]_vars
  BY <1>4 DEF RecordLevel, CrashLoop, TrackingNext, Next, CheckStep
<1>5. ASSUME NEW r \in Requests, Handle(r) PROVE [TrackingNext]_vars
  BY <1>5 DEF Handle, TrackingNext, Next, RequestStep
<1>6. CASE Time \/ UNCHANGED producerVars
  BY <1>6 DEF Time, TrackingNext, Next, producerVars
<1> QED
  BY <1>2, <1>3, <1>4, <1>5, <1>6 DEF ProducerNext

(* Phase 2 tracks timeouts as Phase 1 does, but for announcements that are *)
(* sent again: with both loops and whatever is lost, all it does to the    *)
(* data of TimeoutTracking is what checkers and requests do there.         *)
THEOREM ImplementsTracking == ProducerSpec => TrackingSpec
<1>1. ProducerInit => Init
  BY DEF ProducerInit
<1>2. [ProducerNext]_producerVars => [TrackingNext]_vars
  BY TrackingStep
<1> QED
  BY <1>1, <1>2, PTL DEF ProducerSpec, TrackingSpec

-----------------------------------------------------------------------------
(* The rules of Phase 1                                                    *)

(* An announcement whose reply is lost keeps every invariant of            *)
(* TimeoutTracking: the level was due, the conversation has left the       *)
(* snapshot, and its escalation counts as disturbed.                       *)
LEMMA UnansweredKeepsTypeOK ==
  ASSUME TypeOK, NEW d \in Checkers, AnnounceUnanswered(d)
  PROVE  TypeOK'
<1> USE DEF TypeOK, Levels
<1>1. note[d] \in Notes /\ note[d].conv \in Convs /\ note[d].level \in Levels
  BY DEF AnnounceUnanswered, Notes
<1>2. told' \in [Convs -> [Levels -> 0..2]]
  BY <1>1 DEF AnnounceUnanswered, Announce
<1>3. late' \in [Convs -> SUBSET Checkers]
  BY <1>1 DEF AnnounceUnanswered, Announce
<1>4. sent' \subseteq Notes /\ disturbed' \subseteq Convs
  BY <1>1 DEF AnnounceUnanswered, Announce, Disturb
<1> QED
  BY <1>2, <1>3, <1>4 DEF AnnounceUnanswered, redis, check, request

LEMMA UnansweredKeepsHistory ==
  ASSUME TypeOK, NEW d \in Checkers, AnnounceUnanswered(d)
  PROVE  /\ DueInv => DueInv'
         /\ RecordInv => RecordInv'
         /\ LateInv => LateInv'
         /\ UndisturbedInv => UndisturbedInv'
<1>1. /\ note[d] \in Notes /\ note[d].conv \in Convs
      /\ checkPc[d] = "send"
      /\ UNCHANGED <<clock, waiting, states, checkPc, now, batch, note>>
  BY DEF AnnounceUnanswered, TypeOK, Notes, redis, check
<1>2. sent' = sent \cup {note[d]}
  BY DEF AnnounceUnanswered, Announce
<1>3. DueInv => DueInv'
  BY <1>1, <1>2 DEF DueInv, NeverEarly
<1>4. RecordInv => RecordInv'
  BY <1>1, <1>2 DEF RecordInv, RecordedWasSent
<1>5. LateInv => LateInv'
  <2>1. \/ late' = late
        \/ /\ waiting[note[d].conv] = Absent
           /\ late' = [late EXCEPT ![note[d].conv] = @ \cup {d}]
    BY DEF AnnounceUnanswered, Announce
  <2>2. CASE late' = late
    BY <1>1, <2>2 DEF LateInv
  <2>3. CASE /\ waiting[note[d].conv] = Absent
             /\ late' = [late EXCEPT ![note[d].conv] = @ \cup {d}]
    <3>1. \A c \in Convs : c # note[d].conv => late'[c] = late[c]
      BY <2>3 DEF TypeOK
    <3>2. late'[note[d].conv] = late[note[d].conv] \cup {d}
      BY <1>1, <2>3 DEF TypeOK
    <3> QED
      BY <1>1, <2>3, <3>1, <3>2 DEF LateInv
  <2> QED
    BY <2>1, <2>2, <2>3
<1>6. UndisturbedInv => UndisturbedInv'
  <2> SUFFICES ASSUME UndisturbedInv, NEW c \in Convs \ disturbed'
               PROVE  LadderInv(c)'
    BY DEF UndisturbedInv
  <2>1. c \notin disturbed /\ c # note[d].conv
    BY DEF AnnounceUnanswered, Disturb
  <2>2. told'[c] = told[c]
    BY <1>1, <2>1 DEF AnnounceUnanswered, Announce, TypeOK
  <2> QED
    BY <1>1, <2>1, <2>2 DEF UndisturbedInv, LadderInv, InHand
<1> QED
  BY <1>3, <1>4, <1>5, <1>6

TrackingInv ==
  TypeOK /\ DueInv /\ RecordInv /\ LateInv /\ UndisturbedInv

LEMMA TrackingInvInductive ==
  TrackingInv /\ [TrackingNext]_vars => TrackingInv'
<1> SUFFICES ASSUME TrackingInv, [TrackingNext]_vars PROVE TrackingInv'
  OBVIOUS
<1>1. CASE [Next]_vars
  BY <1>1, TypeInductive, DueInvInductive, RecordInvInductive,
     LateInvInductive, UndisturbedInvInductive DEF TrackingInv
<1>2. ASSUME NEW d \in DetectLoops, AnnounceUnanswered(d) PROVE TrackingInv'
  <2>1. d \in Checkers
    BY StreamProducerAssumption, Zenon
  <2> QED
    BY <1>2, <2>1, UnansweredKeepsTypeOK, UnansweredKeepsHistory
       DEF TrackingInv
<1> QED
  BY <1>1, <1>2 DEF TrackingNext

LEMMA TrackingInvariant == ProducerSpec => []TrackingInv
<1>1. Init => TrackingInv
  BY InitTypeOK, InitDueInv, InitRecordInv, InitLateInv, InitUndisturbedInv
     DEF TrackingInv
<1> QED
  BY <1>1, TrackingInvInductive, ImplementsTracking, PTL DEF TrackingSpec

(* In Phase 2 too nothing is announced early, no level is recorded that    *)
(* was not announced, late decisions are bounded, and a level is announced *)
(* again within a cycle only for one of three causes: two loops had the    *)
(* conversation in hand at once, a loop announced a level and did not come *)
(* to record it, or the reply to an XADD was lost.  The last is a cause in *)
(* itself: every execution of the command counts as an announcement.       *)
THEOREM Phase2KeepsTheRules ==
  ProducerSpec =>
    []NeverEarly /\ []RecordedWasSent /\ LateOnce /\ RepeatsHaveACause
<1>1. TrackingInv => NeverEarly /\ RecordedWasSent
  BY DEF TrackingInv, DueInv, RecordInv
<1>2. TrackingInv /\ [TrackingNext]_vars =>
        [\A k \in Checkers :
           checkPc[k] = "pick" /\ checkPc'[k] = "send" =>
             LET c == note'[k].conv
             IN  waiting[c] = Absent => k \notin late[c]]_vars
  <2> SUFFICES ASSUME TrackingInv, [TrackingNext]_vars, NEW k \in Checkers,
                      checkPc[k] = "pick", checkPc'[k] = "send"
               PROVE  k \notin late[note'[k].conv]
    OBVIOUS
  <2>1. [Next]_vars
    BY DEF TrackingNext, AnnounceUnanswered, check
  <2> QED
    BY <2>1, ChoiceIsOnTime DEF TrackingInv
<1>3. TrackingInv /\ [TrackingNext]_vars =>
        [\A c \in Convs \ disturbed : \A L \in Levels :
           told'[c][L] > told[c][L] =>
             \A M \in Levels : M >= L => told[c][M] = 0]_vars
  <2> SUFFICES ASSUME TrackingInv, [TrackingNext]_vars,
                      NEW c \in Convs \ disturbed, NEW L \in Levels,
                      told'[c][L] > told[c][L],
                      NEW M \in Levels, M >= L
               PROVE  told[c][M] = 0
    OBVIOUS
  <2>0. told'[c] # told[c]
    BY DEF TrackingInv, TypeOK
  <2>1. CASE [Next]_vars
    BY <2>0, <2>1, ToldStep, RisesAreFirst DEF TrackingInv
  <2>2. ASSUME NEW d \in DetectLoops, AnnounceUnanswered(d)
        PROVE  told[c][M] = 0
    <3>1. d \in Checkers /\ checkPc[d] = "send" /\ Announce(d)
      BY <2>2, StreamProducerAssumption DEF AnnounceUnanswered
    <3> QED
      BY <2>0, <3>1, AnnounceStep, RisesAreFirst DEF TrackingInv
  <2> QED
    BY <2>1, <2>2 DEF TrackingNext
<1> QED
  BY <1>1, <1>2, <1>3, TrackingInvariant, ImplementsTracking, PTL
     DEF TrackingSpec, LateOnce, RepeatsHaveACause

-----------------------------------------------------------------------------
(* Type correctness                                                        *)

(* The next states of the stream, by what a step does to it.               *)
LEMMA StreamTypeOK ==
  ASSUME ProducerTypeOK, [ProducerNext]_producerVars
  PROVE  /\ events' \in Seq(Notes)
         /\ Len(events') <= MaxEvents
         /\ standing' \subseteq [loop : Checkers, conv : Convs, level : Levels]
<1> USE DEF ProducerTypeOK, stream
<1>a. DetectLoops \subseteq Checkers /\ MaxEvents \in Nat
  BY StreamProducerAssumption, Zenon
<1>1. ASSUME NEW d \in DetectLoops, PublishTimeoutEvent(d)
      PROVE  /\ events' \in Seq(Notes) /\ Len(events') <= MaxEvents
             /\ UNCHANGED standing
  <2>1. note[d] \in Notes
    BY <1>1, <1>a DEF PublishTimeoutEvent, TypeOK
  <2>2. Xadd(d) \/ UNCHANGED events
    BY <1>1 DEF PublishTimeoutEvent
  <2> QED
    BY <1>1, <1>a, <2>1, <2>2 DEF Xadd, PublishTimeoutEvent
<1>2. ASSUME NEW k \in Checkers, RecordLevel(k)
      PROVE  /\ UNCHANGED events
             /\ standing' \subseteq [loop : Checkers, conv : Convs, level : Levels]
  <2>1. note[k] \in Notes
    BY <1>2 DEF RecordLevel, UpdateState, TypeOK
  <2>2. Record(k) \in [loop : Checkers, conv : Convs, level : Levels]
    BY <2>1 DEF Record, Notes
  <2>3. standing' \subseteq standing \cup {Record(k)}
    BY <1>2 DEF RecordLevel, KeepStanding
  <2> QED
    BY <1>2, <2>2, <2>3 DEF RecordLevel
<1>3. ASSUME NEW r \in Requests, Handle(r)
      PROVE  UNCHANGED events /\ standing' \subseteq standing
  BY <1>3 DEF Handle, KeepStanding
<1>4. CASE UNCHANGED stream
  BY <1>4
<1> QED
  BY <1>1, <1>2, <1>3, <1>4
     DEF ProducerNext, DetectionStep, CheckLoopStep, CrashLoop, Time,
         producerVars

(* Both loops, the stream and the hash stay in the states the code knows.  *)
THEOREM ProducerTypeCorrect == ProducerSpec => []ProducerTypeOK
<1>1. ProducerInit => ProducerTypeOK
  <2> SUFFICES ASSUME ProducerInit PROVE ProducerTypeOK
    OBVIOUS
  <2>1. TypeOK
    BY InitTypeOK DEF ProducerInit
  <2>2. MaxEvents \in Nat
    BY StreamProducerAssumption, Zenon
  <2> QED
    BY <2>1, <2>2 DEF ProducerInit, ProducerTypeOK
<1>2. ProducerTypeOK /\ TrackingInv' /\ [ProducerNext]_producerVars
        => ProducerTypeOK'
  BY StreamTypeOK DEF ProducerTypeOK, TrackingInv
<1> QED
  BY <1>1, <1>2, TrackingInvariant, PTL DEF ProducerSpec

-----------------------------------------------------------------------------
(* What stands is not repeated                                             *)

(* The level recorded is at least what stands, and a loop chooses only     *)
(* levels above the one recorded.                                          *)
StandingInv ==
  /\ \A s \in standing : states[s.conv] >= s.level
  /\ StandingNotRepeated

LEMMA StandingInvInductive ==
  ASSUME ProducerTypeOK, StandingInv, [ProducerNext]_producerVars
  PROVE  StandingInv'
<1> USE DEF StandingInv, StandingNotRepeated, stream
<1>a. TypeOK /\ standing \subseteq [loop : Checkers, conv : Convs, level : Levels]
  BY DEF ProducerTypeOK
<1>b. DetectLoops \subseteq Checkers /\ CheckLoops \subseteq Checkers
  BY StreamProducerAssumption, Zenon
<1>1. ASSUME NEW k \in Checkers, UNCHANGED <<states, standing>>,
             \A j \in Checkers \ {k} : checkPc'[j] = checkPc[j] /\ note'[j] = note[j],
             \/ checkPc'[k] # "send"
             \/ checkPc[k] = "send" /\ note'[k] = note[k]
      PROVE  StandingInv'
  BY <1>1
<1>2. ASSUME NEW k \in Checkers, NEW c \in Convs, ProcessConversation(k, c),
             UNCHANGED stream
      PROVE  StandingInv'
  <2>1. UNCHANGED <<states, standing>>
    BY <1>2 DEF ProcessConversation, redis
  <2>2. CASE UNCHANGED <<checkPc, note>>
    BY <2>1, <2>2
  <2>3. ASSUME NEW L \in DueLevels(now[k] - batch[k][c], states[c]),
               note' = [note EXCEPT ![k] =
                          [conv |-> c, start |-> batch[k][c], level |-> L]],
               checkPc' = [checkPc EXCEPT ![k] = "send"]
        PROVE  StandingInv'
    <3>1. states[c] < L /\ states[c] \in Int /\ L \in Int
      BY <1>a DEF DueLevels, TypeOK, Levels
    <3>2. note'[k].conv = c /\ note'[k].level = L
      BY <1>a, <2>3 DEF TypeOK
    <3>3. \A j \in Checkers \ {k} :
            checkPc'[j] = checkPc[j] /\ note'[j] = note[j]
      BY <1>a, <2>3 DEF TypeOK
    <3>4. \A s \in standing : s.level \in Int
      BY <1>a DEF Levels
    <3>5. \A s \in standing : s.conv = c => s.level < L
      BY <3>1, <3>4
    <3> QED
      BY <2>1, <3>2, <3>3, <3>5
  <2> QED
    BY <1>2, <2>2, <2>3 DEF ProcessConversation
<1>3. ASSUME NEW k \in Checkers,
             ReadClock(k) \/ CheckTimeouts(k) \/ SendNotification(k)
               \/ ForgetCheck(k),
             UNCHANGED standing
      PROVE  StandingInv'
  <2>1. UNCHANGED states
    BY <1>3 DEF ReadClock, CheckTimeouts, SendNotification, ForgetCheck, redis
  <2>2. \A j \in Checkers \ {k} : checkPc'[j] = checkPc[j] /\ note'[j] = note[j]
    BY <1>3, <1>a
       DEF ReadClock, CheckTimeouts, SendNotification, GoOn, ForgetCheck, TypeOK
  <2>3. checkPc'[k] # "send"
    BY <1>3, <1>a
       DEF ReadClock, CheckTimeouts, SendNotification, GoOn, ForgetCheck, TypeOK
  <2> QED
    BY <1>1, <1>3, <2>1, <2>2, <2>3
<1>4. ASSUME NEW d \in DetectLoops, PublishTimeoutEvent(d)
      PROVE  StandingInv'
  <2>1. UNCHANGED <<states, standing>> /\ checkPc[d] = "send"
    BY <1>4 DEF PublishTimeoutEvent, redis
  <2>2. \A j \in Checkers \ {d} : checkPc'[j] = checkPc[j] /\ note'[j] = note[j]
    BY <1>4, <1>a, <1>b DEF PublishTimeoutEvent, GoOn, TypeOK
  <2>3. checkPc'[d] # "send" \/ note'[d] = note[d]
    BY <1>4, <1>a, <1>b DEF PublishTimeoutEvent, GoOn, TypeOK
  <2> QED
    BY <1>b, <1>1, <2>1, <2>2, <2>3
<1>5. ASSUME NEW k \in Checkers, RecordLevel(k) PROVE StandingInv'
  <2>1. standing' \subseteq standing \cup {Record(k)}
    BY <1>5 DEF RecordLevel, KeepStanding
  <2>2. \A s \in standing' : states'[s.conv] >= s.level
    BY <1>5 DEF RecordLevel, KeepStanding
  <2>3. checkPc'[k] # "send"
    BY <1>5, <1>a DEF RecordLevel, UpdateState, GoOn, TypeOK
  <2>4. \A j \in Checkers \ {k} : checkPc'[j] = checkPc[j] /\ note'[j] = note[j]
    BY <1>5, <1>a DEF RecordLevel, UpdateState, GoOn, TypeOK
  <2>5. Record(k).loop = k
    BY DEF Record
  <2> QED
    BY <2>1, <2>2, <2>3, <2>4, <2>5
<1>6. ASSUME NEW r \in Requests, SecondCommand(r), KeepStanding({})
      PROVE  StandingInv'
  <2>1. UNCHANGED <<checkPc, note>>
    BY <1>6 DEF SecondCommand, check
  <2>2. /\ standing' \subseteq standing
        /\ \A s \in standing' : states'[s.conv] >= s.level
    BY <1>6 DEF KeepStanding
  <2> QED
    BY <2>1, <2>2
<1>7. CASE UNCHANGED <<states, standing, checkPc, note>>
  BY <1>7
<1>8. ASSUME NEW r \in Requests, Handle(r) PROVE StandingInv'
  BY <1>6, <1>7, <1>8
     DEF Handle, BeginRequest, FirstCommand, ConnectionLost, redis, check
<1>9. ASSUME NEW k \in Checkers, CrashLoop(k) PROVE StandingInv'
  BY <1>3, <1>9 DEF CrashLoop, Crash
<1>10. CASE Time \/ UNCHANGED producerVars
  BY <1>7, <1>10 DEF Time, Tick, producerVars, vars, redis, check
<1>11. ASSUME NEW k \in CheckLoops, CheckLoopStep(k) PROVE StandingInv'
  BY <1>b, <1>2, <1>3, <1>11 DEF CheckLoopStep, CheckDone
<1>12. ASSUME NEW d \in DetectLoops, DetectionStep(d) PROVE StandingInv'
  BY <1>b, <1>2, <1>3, <1>4, <1>12
     DEF DetectionStep, DetectTimeouts, ProcessDetection, CheckDone
<1> QED
  BY <1>5, <1>8, <1>9, <1>10, <1>11, <1>12 DEF ProducerNext

(* No loop repeats what it announced and recorded, unless the level in the *)
(* hash was lowered by somebody else.                                      *)
THEOREM StandingLevelsNotRepeated == ProducerSpec => []StandingNotRepeated
<1>1. ProducerInit => StandingInv
  BY DEF ProducerInit, Init, StandingInv, StandingNotRepeated
<1>2. ProducerTypeOK /\ StandingInv /\ [ProducerNext]_producerVars => StandingInv'
  BY StandingInvInductive
<1>3. StandingInv => StandingNotRepeated
  BY DEF StandingInv, StandingNotRepeated
<1> QED
  BY <1>1, <1>2, <1>3, ProducerTypeCorrect, PTL DEF ProducerSpec

-----------------------------------------------------------------------------
(* What the hash hides from the stream                                     *)

(* A detection loop is about to record only what it has published, and     *)
(* every level in the hash stands as the record of some loop.              *)
HiddenInv ==
  /\ \A d \in DetectLoops : checkPc[d] = "record" => note[d] \in Published
  /\ \A s \in standing : s.loop \in DetectLoops =>
       \E e \in Published : e.conv = s.conv /\ e.level = s.level
  /\ \A c \in Convs : states[c] # NoState =>
       \E s \in standing : s.conv = c /\ s.level = states[c]

(* The records that stand after a step.                                    *)
LEMMA RecordsStand ==
  ASSUME ProducerTypeOK, HiddenInv, [ProducerNext]_producerVars,
         NEW c \in Convs, states'[c] # NoState
  PROVE  \E s \in standing' : s.conv = c /\ s.level = states'[c]
<1> USE DEF stream
<1>a. TypeOK /\ standing \subseteq [loop : Checkers, conv : Convs, level : Levels]
  BY DEF ProducerTypeOK
<1>b. \A n \in 0..3 : n >= n
  OBVIOUS
<1>1. ASSUME NEW new, KeepStanding(new), states'[c] = states[c]
      PROVE  \E s \in standing' : s.conv = c /\ s.level = states'[c]
  <2>1. PICK s \in standing : s.conv = c /\ s.level = states[c]
    BY <1>1 DEF HiddenInv
  <2>2. states'[s.conv] >= s.level
    BY <1>a, <1>b, <1>1, <2>1 DEF TypeOK
  <2> QED
    BY <1>1, <2>1, <2>2 DEF KeepStanding
<1>2. ASSUME NEW k \in Checkers, RecordLevel(k)
      PROVE  \E s \in standing' : s.conv = c /\ s.level = states'[c]
  <2> DEFINE new == IF states'[note[k].conv] = note[k].level
                    THEN {Record(k)} ELSE {}
  <2>1. KeepStanding(new) /\ (Hset(k) \/ UNCHANGED states)
    BY <1>2 DEF RecordLevel, UpdateState
  <2>2. CASE states'[c] = states[c]
    BY <1>1, <2>1, <2>2
  <2>3. CASE states'[c] # states[c]
    <3>1. states'[c] = note[k].level /\ note[k].conv = c
      BY <1>a, <2>1, <2>3 DEF Hset, TypeOK
    <3>2. Record(k) \in new /\ Record(k).conv = c
          /\ Record(k).level = note[k].level
      BY <3>1 DEF Record
    <3>3. note[k].level \in 0..3
      <4>1. note[k] \in Notes
        BY <1>a, <1>2 DEF RecordLevel, UpdateState, TypeOK
      <4> QED
        BY <4>1 DEF Notes, Levels
    <3>4. states'[Record(k).conv] >= Record(k).level
      BY <1>b, <3>1, <3>2, <3>3
    <3>5. Record(k) \in standing'
      BY <2>1, <3>2, <3>4 DEF KeepStanding
    <3> QED
      BY <3>1, <3>2, <3>5
  <2> QED
    BY <2>2, <2>3
<1>3. ASSUME NEW r \in Requests, SecondCommand(r), KeepStanding({})
      PROVE  \E s \in standing' : s.conv = c /\ s.level = states'[c]
  <2>1. states'[c] = states[c]
    BY <1>a, <1>3 DEF SecondCommand, TypeOK
  <2> QED
    BY <1>1, <1>3, <2>1
<1>4. CASE UNCHANGED <<states, standing>>
  BY <1>4 DEF HiddenInv
<1>5. ASSUME NEW r \in Requests, Handle(r)
      PROVE  \E s \in standing' : s.conv = c /\ s.level = states'[c]
  BY <1>3, <1>4, <1>5
     DEF Handle, BeginRequest, FirstCommand, ConnectionLost, redis
<1>6. ASSUME NEW d \in DetectLoops, PublishTimeoutEvent(d)
      PROVE  UNCHANGED <<states, standing>>
  BY <1>6 DEF PublishTimeoutEvent, redis
<1>7. ASSUME NEW k \in Checkers, UNCHANGED stream,
             \/ ReadClock(k) \/ CheckTimeouts(k) \/ SendNotification(k)
             \/ CheckDone(k) \/ Crash(k)
             \/ \E d \in Convs : ProcessConversation(k, d)
      PROVE  UNCHANGED <<states, standing>>
  BY <1>7 DEF ReadClock, CheckTimeouts, SendNotification, CheckDone, Crash,
              ForgetCheck, ProcessConversation, redis
<1>8. CASE Time \/ UNCHANGED producerVars
  BY <1>4, <1>8 DEF Time, Tick, producerVars, vars, redis
<1>9. DetectLoops \subseteq Checkers /\ CheckLoops \subseteq Checkers
  BY StreamProducerAssumption, Zenon
<1> QED
  BY <1>2, <1>4, <1>5, <1>6, <1>7, <1>8, <1>9
     DEF ProducerNext, DetectionStep, DetectTimeouts, ProcessDetection,
         CheckLoopStep, CrashLoop

(* What the detection loops record is in the stream after a step.          *)
LEMMA DetectedIsPublished ==
  ASSUME ProducerTypeOK, HiddenInv, [ProducerNext]_producerVars
  PROVE  /\ \A d \in DetectLoops :
              checkPc'[d] = "record" => note'[d] \in Published'
         /\ \A s \in standing' : s.loop \in DetectLoops =>
              \E e \in Published' : e.conv = s.conv /\ e.level = s.level
<1> DEFINE Goal == /\ \A d \in DetectLoops :
                        checkPc'[d] = "record" => note'[d] \in Published'
                   /\ \A s \in standing' : s.loop \in DetectLoops =>
                        \E e \in Published' :
                          e.conv = s.conv /\ e.level = s.level
<1> SUFFICES Goal
  OBVIOUS
<1> USE DEF stream
<1>a. TypeOK /\ events \in Seq(Notes)
  BY DEF ProducerTypeOK
<1>b. DetectLoops \subseteq Checkers /\ CheckLoops \subseteq Checkers
      /\ CheckLoops \cap DetectLoops = {}
  BY StreamProducerAssumption, Zenon
<1>c. UNCHANGED events => Published' = Published
  BY DEF Published
<1>1. ASSUME NEW k \in Checkers, Published \subseteq Published',
             standing' \subseteq standing,
             \A j \in Checkers \ {k} : checkPc'[j] = checkPc[j] /\ note'[j] = note[j],
             \/ k \notin DetectLoops
             \/ checkPc'[k] # "record"
             \/ note'[k] \in Published'
      PROVE  Goal
  BY <1>b, <1>1 DEF HiddenInv
<1>2. ASSUME NEW d \in DetectLoops, PublishTimeoutEvent(d) PROVE Goal
  <2>1. checkPc[d] = "send" /\ UNCHANGED standing
    BY <1>2 DEF PublishTimeoutEvent
  <2>2. note[d] \in Notes
    BY <1>a, <1>b, <2>1 DEF TypeOK
  <2>3. Xadd(d) => Published' = Published \cup {note[d]}
    BY <1>a, <2>2 DEF Xadd, Published
  <2>4. Published \subseteq Published'
    BY <1>2, <1>c, <2>3 DEF PublishTimeoutEvent
  <2>5. \A j \in Checkers \ {d} : checkPc'[j] = checkPc[j] /\ note'[j] = note[j]
    BY <1>2, <1>a, <1>b DEF PublishTimeoutEvent, GoOn, TypeOK
  <2>6. checkPc'[d] # "record" \/ note'[d] \in Published'
    BY <1>2, <1>a, <1>b, <2>1, <2>3 DEF PublishTimeoutEvent, GoOn, TypeOK
  <2> QED
    BY <1>b, <1>1, <2>1, <2>4, <2>5, <2>6
<1>3. ASSUME NEW k \in Checkers, RecordLevel(k) PROVE Goal
  <2>1. standing' \subseteq standing \cup {Record(k)} /\ Published' = Published
    BY <1>3, <1>c DEF RecordLevel, KeepStanding
  <2>2. checkPc[k] = "record"
    BY <1>3 DEF RecordLevel, UpdateState
  <2>3. checkPc'[k] = "pick" \/ note'[k] = note[k]
    BY <1>3, <1>a DEF RecordLevel, UpdateState, GoOn, TypeOK
  <2>4. \A j \in Checkers \ {k} : checkPc'[j] = checkPc[j] /\ note'[j] = note[j]
    BY <1>3, <1>a DEF RecordLevel, UpdateState, GoOn, TypeOK
  <2>5. k \in DetectLoops => note[k] \in Published
    BY <2>2 DEF HiddenInv
  <2>6. /\ Record(k).loop = k
        /\ Record(k).conv = note[k].conv
        /\ Record(k).level = note[k].level
    BY DEF Record
  <2>7. \A s \in standing' : s.loop \in DetectLoops =>
          \E e \in Published' : e.conv = s.conv /\ e.level = s.level
    BY <2>1, <2>5, <2>6 DEF HiddenInv
  <2>8. \A d \in DetectLoops : checkPc'[d] = "record" => note'[d] \in Published'
    BY <1>b, <2>1, <2>3, <2>4, <2>5 DEF HiddenInv
  <2> QED
    BY <2>7, <2>8
<1>4. ASSUME NEW k \in Checkers, UNCHANGED <<events, standing>>,
             \/ ReadClock(k) \/ CheckTimeouts(k) \/ ForgetCheck(k)
             \/ \E c \in Convs : ProcessConversation(k, c)
      PROVE  Goal
  <2>1. \A j \in Checkers \ {k} : checkPc'[j] = checkPc[j] /\ note'[j] = note[j]
    BY <1>4, <1>a DEF ReadClock, CheckTimeouts, ForgetCheck,
                      ProcessConversation, TypeOK
  <2>2. checkPc'[k] # "record"
    BY <1>4, <1>a DEF ReadClock, CheckTimeouts, ForgetCheck,
                      ProcessConversation, TypeOK
  <2> QED
    BY <1>c, <1>1, <1>4, <2>1, <2>2
<1>5. ASSUME NEW k \in CheckLoops, SendNotification(k), UNCHANGED stream
      PROVE  Goal
  <2>1. \A j \in Checkers \ {k} : checkPc'[j] = checkPc[j] /\ note'[j] = note[j]
    BY <1>5, <1>a, <1>b DEF SendNotification, GoOn, TypeOK
  <2> QED
    BY <1>b, <1>c, <1>1, <1>5, <2>1
<1>6. CASE UNCHANGED <<events, checkPc, note>> /\ standing' \subseteq standing
  BY <1>c, <1>6 DEF HiddenInv
<1>7. ASSUME NEW r \in Requests, Handle(r) PROVE Goal
  BY <1>6, <1>7 DEF Handle, BeginRequest, FirstCommand, SecondCommand,
                    ConnectionLost, KeepStanding, check
<1>8. CASE Time \/ UNCHANGED producerVars
  BY <1>6, <1>8 DEF Time, Tick, producerVars, vars, check
<1>9. ASSUME NEW k \in Checkers, CrashLoop(k) PROVE Goal
  BY <1>4, <1>9 DEF CrashLoop, Crash
<1>10. ASSUME NEW k \in CheckLoops, CheckLoopStep(k) PROVE Goal
  BY <1>b, <1>4, <1>5, <1>10 DEF CheckLoopStep, CheckDone
<1>11. ASSUME NEW d \in DetectLoops, DetectionStep(d) PROVE Goal
  BY <1>b, <1>2, <1>4, <1>11
     DEF DetectionStep, DetectTimeouts, ProcessDetection, CheckDone
<1> HIDE DEF Goal
<1> QED
  BY <1>3, <1>7, <1>8, <1>9, <1>10, <1>11 DEF ProducerNext

(* The hash claims a level that is not in the stream only if a check loop  *)
(* recorded it: with any number of loops and whatever fails, a level that  *)
(* a detection loop recorded last has been published.                      *)
THEOREM OnlyCheckLoopsHide == ProducerSpec => []HiddenOnlyByCheckLoop
<1>1. ProducerInit => HiddenInv
  BY StreamProducerAssumption DEF ProducerInit, Init, HiddenInv
<1>2. ProducerTypeOK /\ HiddenInv /\ [ProducerNext]_producerVars => HiddenInv'
  <2> SUFFICES ASSUME ProducerTypeOK, HiddenInv, [ProducerNext]_producerVars
               PROVE  HiddenInv'
    OBVIOUS
  <2>1. \A c \in Convs : states'[c] # NoState =>
          \E s \in standing' : s.conv = c /\ s.level = states'[c]
    BY RecordsStand
  <2> QED
    BY <2>1, DetectedIsPublished DEF HiddenInv
<1>3. ProducerTypeOK /\ HiddenInv => HiddenOnlyByCheckLoop
  <2> SUFFICES ASSUME ProducerTypeOK, HiddenInv,
                      NEW c \in Convs, states[c] # NoState
               PROVE  \/ \E e \in Published : e.conv = c /\ e.level = states[c]
                      \/ \E s \in standing : /\ s.loop \in CheckLoops
                                             /\ s.conv = c
                                             /\ s.level = states[c]
    BY DEF HiddenOnlyByCheckLoop
  <2>1. PICK s \in standing : s.conv = c /\ s.level = states[c]
    BY DEF HiddenInv
  <2>2. s.loop \in CheckLoops \/ s.loop \in DetectLoops
    BY StreamProducerAssumption DEF ProducerTypeOK
  <2> QED
    BY <2>1, <2>2 DEF HiddenInv
<1> QED
  BY <1>1, <1>2, <1>3, ProducerTypeCorrect, PTL DEF ProducerSpec

-----------------------------------------------------------------------------
(* The order of the events                                                 *)

OneDetectLoop == \A d, e \in DetectLoops : d = e

Due(n, t) == t - n.start > n.level * Interval

(* A detection loop has in hand the highest level that was due when its    *)
(* pass began; and the events in the stream were all due by then.          *)
OrderInv ==
  /\ \A d \in DetectLoops : checkPc[d] \in {"send", "record"} =>
       /\ Due(note[d], now[d])
       /\ \A M \in Levels :
            now[d] - note[d].start > M * Interval => M <= note[d].level
  /\ \A e \in Published : Due(e, clock)
  /\ OneDetectLoop =>
       \A d \in DetectLoops : checkPc[d] # "idle" =>
         \A e \in Published : Due(e, now[d])
  /\ EventsInOrder

(* A level that is due stays due.                                          *)
LEMMA DueLater ==
  ASSUME NEW n \in Notes, NEW t \in Nat, NEW u \in Nat, t <= u, Due(n, t)
  PROVE  Due(n, u)
<1>1. n.start \in Nat /\ n.level * Interval \in Nat
  BY TimeoutTrackingAssumption DEF Notes, Levels
<1> QED
  BY <1>1 DEF Due

(* A step that adds no event keeps the order, and so does a loop that lets *)
(* go of what it had in hand.                                              *)
LEMMA OrderUntouched ==
  ASSUME ProducerTypeOK, OrderInv, UNCHANGED events,
         clock' \in Nat, clock <= clock',
         \A d \in DetectLoops :
           \/ checkPc'[d] = checkPc[d] /\ note'[d] = note[d] /\ now'[d] = now[d]
           \/ checkPc'[d] = "idle"
           \/ checkPc'[d] = "read" /\ now'[d] = clock
           \/ checkPc'[d] = "pick" /\ now'[d] = now[d] /\ checkPc[d] # "idle"
  PROVE  OrderInv'
<1>1. Published' = Published /\ (EventsInOrder => EventsInOrder')
  BY DEF Published, EventsInOrder
<1>2. Published \subseteq Notes /\ clock \in Nat
  BY DEF ProducerTypeOK, TypeOK, Published
<1>3. \A e \in Published : Due(e, clock) => Due(e, clock')
  BY <1>2, DueLater
<1> QED
  BY <1>1, <1>3 DEF OrderInv, Due

(* The level chosen for a conversation is the highest one due.             *)
LEMMA ChoiceKeepsOrder ==
  ASSUME ProducerTypeOK, OrderInv, NEW d \in Checkers, NEW c \in Convs,
         ProcessConversation(d, c), UNCHANGED stream
  PROVE  OrderInv'
<1>a. /\ TypeOK
      /\ DetectLoops \subseteq Checkers
  BY StreamProducerAssumption, Zenon DEF ProducerTypeOK
<1>b. /\ UNCHANGED <<clock, now, events>>
      /\ checkPc[d] = "pick" /\ batch[d][c] \in Nat /\ now[d] \in Nat
  BY <1>a DEF ProcessConversation, IsNext, stream, TypeOK
<1>c. clock \in Nat /\ clock <= clock
  BY <1>a DEF TypeOK
<1>1. CASE UNCHANGED <<checkPc, note>>
  BY <1>b, <1>c, <1>1, OrderUntouched
<1>2. ASSUME NEW L \in DueLevels(now[d] - batch[d][c], states[c]),
             \A M \in DueLevels(now[d] - batch[d][c], states[c]) : M <= L,
             note' = [note EXCEPT ![d] =
                        [conv |-> c, start |-> batch[d][c], level |-> L]],
             checkPc' = [checkPc EXCEPT ![d] = "send"]
      PROVE  OrderInv'
  <2> DEFINE wait == now[d] - batch[d][c]
  <2>1. L \in Levels /\ wait > L * Interval /\ states[c] < L /\ states[c] \in Nat
    <3>1. states[c] \in 0..3
      BY <1>a DEF TypeOK
    <3>2. L \in Levels /\ wait > L * Interval /\ states[c] < L
      BY DEF DueLevels
    <3> QED
      BY <3>1, <3>2
  <2>2. ASSUME NEW M \in Levels, wait > M * Interval PROVE M <= L
    <3>1. CASE states[c] < M
      BY <1>2, <2>2, <3>1 DEF DueLevels
    <3>2. CASE ~(states[c] < M)
      <4>1. states[c] \in Nat /\ M \in Nat /\ L \in Nat /\ states[c] < L
        BY <2>1 DEF Levels
      <4> QED
        BY <3>2, <4>1
    <3> QED
      BY <3>1, <3>2
  <2>3. /\ note'[d].start = batch[d][c] /\ note'[d].level = L
        /\ \A e \in Checkers \ {d} :
             checkPc'[e] = checkPc[e] /\ note'[e] = note[e]
    BY <1>a, <1>2 DEF TypeOK
  <2>4. Published' = Published /\ (EventsInOrder => EventsInOrder')
    BY <1>b DEF Published, EventsInOrder
  <2>5. /\ Due(note'[d], now'[d])
        /\ \A M \in Levels :
             now'[d] - note'[d].start > M * Interval => M <= note'[d].level
    BY <1>b, <2>1, <2>2, <2>3 DEF Due
  <2>6. \A e \in DetectLoops : checkPc'[e] # "idle" => checkPc[e] # "idle"
    BY <1>a, <1>b, <2>3
  <2> QED
    BY <1>a, <1>b, <2>3, <2>4, <2>5, <2>6 DEF OrderInv, Due
<1> QED
  BY <1>1, <1>2 DEF ProcessConversation

(* An event that is added, or added again, has the highest level so far.   *)
LEMMA XaddKeepsOrder ==
  ASSUME ProducerTypeOK, DueInv, OrderInv, NEW d \in DetectLoops,
         checkPc[d] = "send", Xadd(d), UNCHANGED <<clock, now>>,
         \A e \in DetectLoops \ {d} :
           checkPc'[e] = checkPc[e] /\ note'[e] = note[e],
         \/ checkPc'[d] = "pick"
         \/ checkPc'[d] \in {"send", "record"} /\ note'[d] = note[d]
  PROVE  OrderInv'
<1>a. /\ TypeOK /\ events \in Seq(Notes)
      /\ d \in Checkers
  BY StreamProducerAssumption DEF ProducerTypeOK
<1>b. note[d] \in Notes
  BY <1>a DEF TypeOK
<1>1. /\ DOMAIN events' = 1..(Len(events) + 1)
      /\ \A i \in 1..Len(events) : events'[i] = events[i]
      /\ events'[Len(events) + 1] = note[d]
      /\ Len(events) \in Nat
  BY <1>a, <1>b DEF Xadd
<1>2. Published' = Published \cup {note[d]}
  BY <1>a, <1>b DEF Xadd, Published
<1>3. /\ Due(note[d], now[d])
      /\ \A M \in Levels :
           now[d] - note[d].start > M * Interval => M <= note[d].level
  BY DEF OrderInv
<1>4. Due(note[d], clock)
  BY <1>a DEF DueInv, Due
<1>5. EventsInOrder'
  <2> SUFFICES ASSUME OneDetectLoop,
                      NEW i \in DOMAIN events', NEW j \in DOMAIN events', i < j,
                      events'[i].conv = events'[j].conv,
                      events'[i].start = events'[j].start
               PROVE  events'[i].level <= events'[j].level
    BY DEF EventsInOrder, OneDetectLoop
  <2>1. i \in 1..Len(events)
    BY <1>1
  <2>2. CASE j \in 1..Len(events)
    <3>1. i \in DOMAIN events /\ j \in DOMAIN events
      BY <1>a, <2>1, <2>2
    <3> QED
      BY <1>1, <2>1, <2>2, <3>1 DEF OrderInv, EventsInOrder, OneDetectLoop
  <2>3. CASE j = Len(events) + 1
    <3>1. events[i] \in Published /\ events[i] \in Notes
      BY <1>a, <2>1 DEF Published
    <3>2. Due(events[i], now[d])
      BY <3>1 DEF OrderInv
    <3>3. events[i].level \in Levels
      BY <3>1 DEF Notes
    <3>4. events[i].start = note[d].start
      BY <1>1, <2>1, <2>3
    <3>5. events[i].level <= note[d].level
      BY <1>3, <3>2, <3>3, <3>4 DEF Due
    <3> QED
      BY <1>1, <2>1, <2>3, <3>5
  <2> QED
    BY <1>1, <2>2, <2>3
<1>6. ASSUME OneDetectLoop, NEW e \in DetectLoops, checkPc'[e] # "idle",
             NEW n \in Published'
      PROVE  Due(n, now'[e])
  <2>1. e = d
    BY <1>6 DEF OneDetectLoop
  <2> QED
    BY <1>2, <1>3, <1>6, <2>1 DEF OrderInv
<1>7. \A n \in Published' : Due(n, clock')
  BY <1>2, <1>4 DEF OrderInv
<1>8. \A e \in DetectLoops : checkPc'[e] \in {"send", "record"} =>
        /\ Due(note'[e], now'[e])
        /\ \A M \in Levels :
             now'[e] - note'[e].start > M * Interval => M <= note'[e].level
  BY DEF OrderInv
<1> QED
  BY <1>5, <1>6, <1>7, <1>8 DEF OrderInv, OneDetectLoop, Due

LEMMA OrderInvInductive ==
  ASSUME ProducerTypeOK, DueInv, OrderInv, [ProducerNext]_producerVars
  PROVE  OrderInv'
<1>a. TypeOK /\ clock \in Nat /\ clock <= clock
  BY DEF ProducerTypeOK, TypeOK
<1>b. DetectLoops \subseteq Checkers /\ CheckLoops \subseteq Checkers
  BY StreamProducerAssumption, Zenon
<1>c. CheckLoops \cap DetectLoops = {}
  BY StreamProducerAssumption, Zenon
<1>1. ASSUME NEW k \in Checkers, UNCHANGED events,
             \/ SendNotification(k) /\ k \in CheckLoops
             \/ ReadClock(k) \/ CheckTimeouts(k) \/ UpdateState(k)
             \/ ForgetCheck(k)
      PROVE  OrderInv'
  <2>1. UNCHANGED clock
    BY <1>1 DEF ReadClock, CheckTimeouts, SendNotification, UpdateState,
                ForgetCheck
  <2>2. \A d \in DetectLoops \ {k} :
          checkPc'[d] = checkPc[d] /\ note'[d] = note[d] /\ now'[d] = now[d]
    BY <1>1, <1>a, <1>b
       DEF ReadClock, CheckTimeouts, SendNotification, UpdateState, ForgetCheck,
           GoOn, TypeOK
  <2>3. k \in DetectLoops =>
          \/ checkPc'[k] = checkPc[k] /\ note'[k] = note[k] /\ now'[k] = now[k]
          \/ checkPc'[k] = "idle"
          \/ checkPc'[k] = "read" /\ now'[k] = clock
          \/ checkPc'[k] = "pick" /\ now'[k] = now[k] /\ checkPc[k] # "idle"
    BY <1>1, <1>a, <1>c
       DEF ReadClock, CheckTimeouts, UpdateState, ForgetCheck, GoOn, TypeOK
  <2> QED
    BY <1>1, <1>a, <2>1, <2>2, <2>3, OrderUntouched
<1>2. ASSUME NEW k \in Checkers, NEW c \in Convs, ProcessConversation(k, c),
             UNCHANGED stream
      PROVE  OrderInv'
  BY <1>2, ChoiceKeepsOrder
<1>3. ASSUME NEW d \in DetectLoops, PublishTimeoutEvent(d)
      PROVE  OrderInv'
  <2>1. checkPc[d] = "send" /\ UNCHANGED <<clock, now>>
    BY <1>3 DEF PublishTimeoutEvent
  <2>2. \A e \in DetectLoops \ {d} :
          checkPc'[e] = checkPc[e] /\ note'[e] = note[e]
    BY <1>3, <1>a, <1>b DEF PublishTimeoutEvent, GoOn, TypeOK
  <2>3. CASE Xadd(d)
    <3>1. \/ checkPc'[d] = "pick"
          \/ checkPc'[d] \in {"send", "record"} /\ note'[d] = note[d]
      BY <1>3, <1>a, <1>b, <2>1 DEF PublishTimeoutEvent, GoOn, TypeOK
    <3> QED
      BY <2>1, <2>2, <2>3, <3>1, XaddKeepsOrder
  <2>4. CASE UNCHANGED events /\ GoOn(d)
    <3>1. checkPc'[d] = "pick"
      BY <1>a, <1>b, <2>4 DEF GoOn, TypeOK
    <3> QED
      BY <1>a, <2>1, <2>2, <2>4, <3>1, OrderUntouched
  <2> QED
    BY <1>3, <2>3, <2>4 DEF PublishTimeoutEvent
<1>4. CASE /\ UNCHANGED <<events, checkPc, note, now>>
           /\ clock' \in {clock, clock + 1}
  <2>1. clock' \in Nat /\ clock <= clock'
    BY <1>4, <1>a
  <2> QED
    BY <1>4, <2>1, OrderUntouched
<1>5. ASSUME NEW r \in Requests, Handle(r) PROVE OrderInv'
  <2>1. UNCHANGED <<clock, events, checkPc, note, now>>
    BY <1>5 DEF Handle, BeginRequest, FirstCommand, SecondCommand,
                ConnectionLost, check, stream
  <2> QED
    BY <1>4, <2>1
<1>6. CASE Time \/ UNCHANGED producerVars
  BY <1>4, <1>6 DEF Time, Tick, producerVars, vars, check, stream
<1>7. ASSUME NEW k \in Checkers, RecordLevel(k) \/ CrashLoop(k)
      PROVE  OrderInv'
  BY <1>1, <1>7 DEF RecordLevel, CrashLoop, Crash, stream
<1>8. ASSUME NEW k \in CheckLoops, CheckLoopStep(k) PROVE OrderInv'
  BY <1>b, <1>1, <1>2, <1>8 DEF CheckLoopStep, CheckDone, stream
<1>9. ASSUME NEW d \in DetectLoops, DetectionStep(d) PROVE OrderInv'
  BY <1>b, <1>1, <1>2, <1>3, <1>9
     DEF DetectionStep, DetectTimeouts, ProcessDetection, CheckDone, stream
<1> QED
  BY <1>5, <1>6, <1>7, <1>8, <1>9 DEF ProducerNext

(* A single detection loop adds the events about an agent message in       *)
(* rising order, and never early.                                          *)
THEOREM EventsRise == ProducerSpec => []EventsInOrder
<1>1. ProducerInit => OrderInv
  <2> SUFFICES ASSUME ProducerInit PROVE OrderInv
    OBVIOUS
  <2>1. events = <<>> /\ Published = {}
    BY DEF ProducerInit, Published
  <2>2. \A d \in DetectLoops : checkPc[d] = "idle"
    BY StreamProducerAssumption DEF ProducerInit, Init
  <2> QED
    BY <2>1, <2>2 DEF OrderInv, EventsInOrder
<1>2. ProducerTypeOK /\ DueInv /\ OrderInv /\ [ProducerNext]_producerVars
        => OrderInv'
  BY OrderInvInductive
<1>3. OrderInv => EventsInOrder
  BY DEF OrderInv
<1>4. ProducerSpec => []DueInv
  BY TrackingInvariant, PTL DEF TrackingInv
<1> QED
  BY <1>1, <1>2, <1>3, <1>4, ProducerTypeCorrect, PTL DEF ProducerSpec
=============================================================================

----------------------- MODULE TimeoutTrackingProofs ------------------------
(***************************************************************************)
(* Theorems about TimeoutTracking, for any number of conversations,        *)
(* checkers and concurrent requests, any timestamps, interval and bounds.  *)
(***************************************************************************)
EXTENDS TimeoutTracking, TLAPS

-----------------------------------------------------------------------------
(* Type correctness                                                        *)

LEMMA InitTypeOK == Init => TypeOK
BY DEF Init, TypeOK, Nobody, NoState, PassState

(* A check disturbs the conversation it has in hand, or begins with.       *)
LEMMA DisturbedTypeOK ==
  ASSUME TypeOK, NEW k \in Checkers, CheckStep(k) \/ Crash(k)
  PROVE  disturbed' \subseteq Convs
<1>1. checkPc[k] \in {"send", "record"} => note[k].conv \in Convs
  BY DEF TypeOK, Notes
<1>2. disturbed \subseteq Convs
  BY DEF TypeOK
<1> QED
  BY <1>1, <1>2
     DEF CheckStep, ReadClock, CheckTimeouts, ProcessConversation,
         SendNotification, UpdateState, CheckDone, Crash, Disturb, LetGo,
         DisturbIfInHand, history

(* A check that is given up keeps the types.                               *)
LEMMA ForgetTypeOK ==
  ASSUME TypeOK, NEW k \in Checkers, ForgetCheck(k), disturbed' \subseteq Convs
  PROVE  TypeOK'
<1> USE DEF TypeOK, redis, request, telling
<1>1. /\ checkPc' \in [Checkers -> PassState]
      /\ now' \in [Checkers -> Nat]
      /\ note' \in [Checkers -> Notes \cup {NoNote}]
  BY DEF ForgetCheck, PassState
<1>2. batch' \in [Checkers -> [Convs -> Nat \cup {Absent}]]
  BY DEF ForgetCheck, Nobody
<1>3. \A j \in Checkers : checkPc'[j] \in {"send", "record"} => note'[j] \in Notes
  BY DEF ForgetCheck
<1> QED
  BY <1>1, <1>2, <1>3 DEF ForgetCheck

(* A check keeps the types.                                                *)
LEMMA CheckTypeOK ==
  ASSUME TypeOK, NEW k \in Checkers, CheckStep(k) \/ Crash(k)
  PROVE  TypeOK'
<1> USE TimeoutTrackingAssumption
        DEF TypeOK, redis, request, history, telling, Levels, PassState
<1>0. disturbed' \subseteq Convs
  BY DisturbedTypeOK
<1>a. CASE ReadClock(k)
  BY <1>0, <1>a DEF ReadClock
<1>1. CASE CheckTimeouts(k)
  <2>1. 0..now[k] \subseteq Nat
    OBVIOUS
  <2>2. CASE ForgetCheck(k)
    BY <1>0, <2>2, ForgetTypeOK
  <2>3. CASE ~ForgetCheck(k)
    <3>1. batch' \in [Checkers -> [Convs -> Nat \cup {Absent}]]
      <4> DEFINE snapshot == [c \in Convs |-> IF waiting[c] \in 0..now[k]
                                              THEN waiting[c] ELSE Absent]
      <4>1. snapshot \in [Convs -> Nat \cup {Absent}]
        BY <2>1
      <4>2. batch' = [batch EXCEPT ![k] = snapshot]
        BY <1>1, <2>3 DEF CheckTimeouts
      <4> HIDE DEF snapshot
      <4> QED
        BY <4>1, <4>2
    <3>2. /\ checkPc' = [checkPc EXCEPT ![k] = "pick"]
          /\ UNCHANGED <<clock, redis, now, note, request, telling>>
      BY <1>1, <2>3 DEF CheckTimeouts
    <3>3. checkPc' \in [Checkers -> PassState]
      BY <3>2
    <3>4. \A j \in Checkers :
            checkPc'[j] \in {"send", "record"} => note'[j] \in Notes
      BY <3>2
    <3> QED
      BY <1>0, <3>1, <3>2, <3>3, <3>4
  <2> QED
    BY <2>2, <2>3
<1>2. ASSUME NEW c \in Convs, ProcessConversation(k, c) PROVE TypeOK'
  <2>1. batch[k][c] \in Nat
    BY <1>2 DEF ProcessConversation, IsNext
  <2>2. batch' \in [Checkers -> [Convs -> Nat \cup {Absent}]]
    BY <1>2 DEF ProcessConversation
  <2>3. CASE UNCHANGED <<checkPc, note>>
    BY <1>0, <1>2, <2>2, <2>3 DEF ProcessConversation
  <2>4. ASSUME NEW L \in Levels,
               note' = [note EXCEPT ![k] =
                          [conv |-> c, start |-> batch[k][c], level |-> L]],
               checkPc' = [checkPc EXCEPT ![k] = "send"]
        PROVE  TypeOK'
    <3>1. [conv |-> c, start |-> batch[k][c], level |-> L] \in Notes
      BY <2>1 DEF Notes
    <3>2. /\ note' \in [Checkers -> Notes \cup {NoNote}]
          /\ checkPc' \in [Checkers -> PassState]
          /\ \A j \in Checkers :
               checkPc'[j] \in {"send", "record"} => note'[j] \in Notes
      BY <2>4, <3>1
    <3> QED
      BY <1>0, <1>2, <2>2, <3>2 DEF ProcessConversation
  <2> QED
    BY <1>2, <2>3, <2>4 DEF ProcessConversation, DueLevels
<1>3. CASE SendNotification(k)
  <2>1. note[k].conv \in Convs /\ note[k].level \in Levels
    BY <1>3 DEF SendNotification, Notes
  <2>2. told' \in [Convs -> [Levels -> 0..2]]
    <3>1. Announce(k) => told' \in [Convs -> [Levels -> 0..2]]
      BY <2>1 DEF Announce
    <3> QED
      BY <1>3, <3>1 DEF SendNotification
  <2>3. late' \in [Convs -> SUBSET Checkers]
    <3>1. Announce(k) => late' \in [Convs -> SUBSET Checkers]
      BY <2>1 DEF Announce
    <3> QED
      BY <1>3, <3>1 DEF SendNotification
  <2>4. sent' \subseteq Notes
    BY <1>3 DEF SendNotification, Announce
  <2>5. /\ checkPc' \in [Checkers -> PassState]
        /\ note' \in [Checkers -> Notes \cup {NoNote}]
        /\ \A j \in Checkers :
             checkPc'[j] \in {"send", "record"} => note'[j] \in Notes
    BY <1>3 DEF SendNotification, GoOn
  <2>6. UNCHANGED <<clock, waiting, states, now, batch, job, begun>>
    BY <1>3 DEF SendNotification
  <2> QED
    BY <1>0, <2>2, <2>3, <2>4, <2>5, <2>6
<1>4. CASE UpdateState(k)
  <2>1. note[k].conv \in Convs /\ note[k].level \in 1..3
    BY <1>4 DEF UpdateState, Notes
  <2>2. states' \in [Convs -> 0..3]
    <3>1. note[k].level \in 0..3 /\ states \in [Convs -> 0..3]
      BY <2>1
    <3>2. \/ states' = [states EXCEPT ![note[k].conv] = note[k].level]
          \/ states' = states
      BY <1>4, Zenon DEF UpdateState, Hset
    <3> QED
      BY <2>1, <3>1, <3>2, Zenon
  <2>3. /\ checkPc' \in [Checkers -> PassState]
        /\ note' \in [Checkers -> Notes \cup {NoNote}]
        /\ \A j \in Checkers :
             checkPc'[j] \in {"send", "record"} => note'[j] \in Notes
    BY <1>4 DEF UpdateState, GoOn
  <2> QED
    BY <1>0, <1>4, <2>2, <2>3 DEF UpdateState
<1>5. CASE CheckDone(k) \/ Crash(k)
  BY <1>0, <1>5, ForgetTypeOK DEF CheckDone, Crash
<1> QED
  BY <1>a, <1>1, <1>2, <1>3, <1>4, <1>5 DEF CheckStep

(* A request's next state is well typed.                                   *)
LEMMA RetryTypeOK ==
  ASSUME TypeOK, NEW r \in Requests, job[r] # NoJob, RetryOrGiveUp(r)
  PROVE  job' \in [Requests -> Jobs \cup {NoJob}]
<1>1. CASE /\ job[r].tries < MaxRetries
           /\ job' = [job EXCEPT ![r].next = "first", ![r].tries = @ + 1]
  <2>1. job[r] \in Jobs
    BY DEF TypeOK
  <2>2. [job[r] EXCEPT !.next = "first", !.tries = @ + 1] \in Jobs
    <3>1. job[r].tries + 1 \in 0..MaxRetries
      BY <1>1, <2>1, TimeoutTrackingAssumption DEF Jobs
    <3> QED
      BY <2>1, <3>1 DEF Jobs
  <2>3. job' = [job EXCEPT ![r] =
                  [job[r] EXCEPT !.next = "first", !.tries = @ + 1]]
    BY <1>1 DEF TypeOK
  <2> QED
    BY <2>2, <2>3 DEF TypeOK
<1>2. CASE job' = [job EXCEPT ![r] = NoJob]
  BY <1>2 DEF TypeOK
<1> QED
  BY <1>1, <1>2 DEF RetryOrGiveUp

(* A request keeps the types.                                              *)
LEMMA RequestTypeOK ==
  ASSUME TypeOK, NEW r \in Requests,
         BeginRequest(r) \/ RequestStep(r) \/ ConnectionLost(r)
  PROVE  TypeOK'
<1> USE TimeoutTrackingAssumption
        DEF TypeOK, redis, check, history, telling
<1>1. CASE BeginRequest(r)
  <2>1. ASSUME NEW c \in Convs, NEW s \in Stamps \cup {clock},
               BeginTrack(r, c, s)
        PROVE  job' \in [Requests -> Jobs \cup {NoJob}]
    BY <2>1 DEF BeginTrack, Jobs
  <2>2. ASSUME NEW c \in Convs, BeginClear(r, c)
        PROVE  job' \in [Requests -> Jobs \cup {NoJob}]
    BY <2>2 DEF BeginClear, Jobs
  <2> QED
    BY <1>1, <2>1, <2>2 DEF BeginRequest
<1>2. CASE FirstCommand(r)
  <2>1. job[r] \in Jobs
    BY <1>2 DEF FirstCommand
  <2>2. job[r].conv \in Convs /\ job[r].stamp \in Nat
    BY <2>1 DEF Jobs
  <2>3. [job[r] EXCEPT !.next = "second"] \in Jobs
    BY <2>1 DEF Jobs
  <2>4. job' = [job EXCEPT ![r] = [job[r] EXCEPT !.next = "second"]]
    BY <1>2 DEF FirstCommand
  <2>5. job' \in [Requests -> Jobs \cup {NoJob}]
    BY <2>3, <2>4
  <2>6. /\ waiting' \in [Convs -> Nat \cup {Absent}]
        /\ late' \in [Convs -> SUBSET Checkers]
    BY <1>2, <2>2 DEF FirstCommand, Zadd, Zrem
  <2> QED
    BY <1>2, <2>5, <2>6 DEF FirstCommand
<1>3. CASE SecondCommand(r)
  <2>1. job[r].conv \in Convs
    BY <1>3 DEF SecondCommand, Jobs
  <2>2. job' \in [Requests -> Jobs \cup {NoJob}]
    BY <1>3, RetryTypeOK DEF SecondCommand
  <2>3. /\ states' \in [Convs -> 0..3]
        /\ told' \in [Convs -> [Levels -> 0..2]]
    BY <1>3, <2>1 DEF SecondCommand, NoState
  <2>4. disturbed' \subseteq Convs
    BY <1>3 DEF SecondCommand, Calm
  <2> QED
    BY <1>3, <2>2, <2>3, <2>4 DEF SecondCommand
<1>4. CASE ConnectionLost(r)
  BY <1>4, RetryTypeOK DEF ConnectionLost
<1> QED
  BY <1>1, <1>2, <1>3, <1>4 DEF RequestStep

(* Cleanup and the clock keep the types.                                   *)
LEMMA EnvironmentTypeOK == TypeOK /\ (CleanupExpired \/ Tick) => TypeOK'
BY DEF TypeOK, CleanupExpired, Tick, redis, check, request, history, telling

LEMMA TypeInductive ==
  ASSUME TypeOK, [Next]_vars PROVE TypeOK'
<1>1. CASE UNCHANGED vars
  BY <1>1 DEF vars, TypeOK
<1> QED
  BY <1>1, CheckTypeOK, RequestTypeOK, EnvironmentTypeOK DEF Next

(* The sorted set, the hash, the checks and the requests stay in the states *)
(* the code knows; only levels 0 to 3 are recorded.                        *)
THEOREM TypeCorrect == Spec => []TypeOK
<1>1. TypeOK /\ [Next]_vars => TypeOK'
  BY TypeInductive
<1> QED
  BY <1>1, InitTypeOK, PTL DEF Spec

-----------------------------------------------------------------------------
(* Notifications are never early                                           *)

(* A notification in hand is already due, for a check's time is past.      *)
DueInv ==
  /\ \A k \in Checkers : checkPc[k] # "idle" => now[k] <= clock
  /\ \A k \in Checkers :
       checkPc[k] \in {"send", "record"} =>
         clock - note[k].start > note[k].level * Interval
  /\ NeverEarly

LEMMA DueInvInductive ==
  TypeOK /\ DueInv /\ [Next]_vars => DueInv'
<1> SUFFICES ASSUME TypeOK, DueInv, [Next]_vars PROVE DueInv'
  OBVIOUS
<1> USE TimeoutTrackingAssumption DEF TypeOK, DueInv, NeverEarly
<1>1. CASE UNCHANGED <<clock, checkPc, now, note, sent>>
  BY <1>1
<1>2. CASE Tick
  <2>1. \A n \in Notes : n.start \in Nat /\ n.level * Interval \in Nat
    BY DEF Notes, Levels
  <2> QED
    BY <1>2, <2>1 DEF Tick, check, history, telling
<1>a. ASSUME NEW k \in Checkers, ReadClock(k) PROVE DueInv'
  BY <1>a DEF ReadClock, history, telling
<1>3. ASSUME NEW k \in Checkers, CheckTimeouts(k), ~ForgetCheck(k)
      PROVE  DueInv'
  BY <1>3 DEF CheckTimeouts, history, telling
<1>4. ASSUME NEW k \in Checkers, NEW c \in Convs, ProcessConversation(k, c)
      PROVE  DueInv'
  <2>1. CASE UNCHANGED <<checkPc, note>>
    BY <1>4, <2>1 DEF ProcessConversation, history, telling
  <2>2. ASSUME NEW L \in DueLevels(now[k] - batch[k][c], states[c]),
               note' = [note EXCEPT ![k] =
                          [conv |-> c, start |-> batch[k][c], level |-> L]],
               checkPc' = [checkPc EXCEPT ![k] = "send"]
        PROVE  DueInv'
    <3>1. batch[k][c] \in Nat /\ L \in Levels /\ L * Interval \in Nat
      BY <1>4 DEF ProcessConversation, IsNext, DueLevels, Levels
    <3>2. now[k] - batch[k][c] > L * Interval /\ now[k] <= clock
      BY <1>4 DEF ProcessConversation, DueLevels
    <3>3. clock - batch[k][c] > L * Interval
      BY <3>1, <3>2
    <3>4. UNCHANGED <<clock, now, sent>>
      BY <1>4 DEF ProcessConversation, history, telling
    <3>5. note'[k].start = batch[k][c] /\ note'[k].level = L
      BY <2>2
    <3>6. \A j \in Checkers \ {k} :
            note'[j] = note[j] /\ checkPc'[j] = checkPc[j]
      BY <2>2
    <3>7. checkPc[k] = "pick"
      BY <1>4 DEF ProcessConversation
    <3> QED
      BY <3>3, <3>4, <3>5, <3>6, <3>7
  <2> QED
    BY <1>4, <2>1, <2>2 DEF ProcessConversation
<1>5. ASSUME NEW k \in Checkers, SendNotification(k) PROVE DueInv'
  BY <1>5 DEF SendNotification, Announce, GoOn, history, telling
<1>6. ASSUME NEW k \in Checkers, UpdateState(k) PROVE DueInv'
  BY <1>6 DEF UpdateState, GoOn, history, telling
<1>7. ASSUME NEW k \in Checkers, ForgetCheck(k) PROVE DueInv'
  BY <1>7 DEF ForgetCheck, history, telling
<1>8. ASSUME NEW r \in Requests,
             BeginRequest(r) \/ RequestStep(r) \/ ConnectionLost(r)
      PROVE  UNCHANGED <<clock, checkPc, now, note, sent>>
  BY <1>8 DEF BeginRequest, RequestStep, FirstCommand, SecondCommand,
              ConnectionLost, check, history, telling
<1>9. CASE CleanupExpired \/ UNCHANGED vars
  BY <1>1, <1>9 DEF CleanupExpired, check, history, telling, vars
<1> QED
  BY <1>a, <1>1, <1>2, <1>3, <1>4, <1>5, <1>6, <1>7, <1>8, <1>9
     DEF Next, CheckStep, CheckDone, Crash

LEMMA InitDueInv == Init => DueInv
BY DEF Init, DueInv, NeverEarly

(* No notification goes out before its time.                               *)
THEOREM NotificationsNeverEarly == Spec => []NeverEarly
<1>1. DueInv => NeverEarly
  BY DEF DueInv
<1> QED
  BY <1>1, InitDueInv, DueInvInductive, TypeCorrect, PTL DEF Spec

-----------------------------------------------------------------------------
(* What is recorded was sent                                               *)

(* The level a check is about to record has been sent.                     *)
RecordInv ==
  /\ \A k \in Checkers : checkPc[k] = "record" => note[k] \in sent
  /\ RecordedWasSent

LEMMA RecordInvInductive ==
  TypeOK /\ RecordInv /\ [Next]_vars => RecordInv'
<1> SUFFICES ASSUME TypeOK, RecordInv, [Next]_vars PROVE RecordInv'
  OBVIOUS
<1> USE DEF TypeOK, RecordInv, RecordedWasSent, NoState
<1>1. CASE UNCHANGED <<states, checkPc, note, sent>>
  BY <1>1
<1>2. ASSUME NEW k \in Checkers,
             ReadClock(k) \/ (CheckTimeouts(k) /\ ~ForgetCheck(k))
      PROVE  RecordInv'
  <2>1. UNCHANGED <<states, note, sent>>
    BY <1>2 DEF ReadClock, CheckTimeouts, redis, history, telling
  <2>2. \A j \in Checkers : checkPc'[j] = "record" => checkPc[j] = "record"
    BY <1>2 DEF ReadClock, CheckTimeouts
  <2> QED
    BY <2>1, <2>2
<1>3. ASSUME NEW k \in Checkers, NEW c \in Convs, ProcessConversation(k, c)
      PROVE  RecordInv'
  BY <1>3 DEF ProcessConversation, redis, history, telling
<1>4. ASSUME NEW k \in Checkers, SendNotification(k) PROVE RecordInv'
  BY <1>4 DEF SendNotification, Announce, GoOn, redis, history, telling
<1>5. ASSUME NEW k \in Checkers, UpdateState(k) PROVE RecordInv'
  <2>1. note[k] \in sent /\ note[k].conv \in Convs
    BY <1>5 DEF UpdateState, Notes
  <2> QED
    BY <1>5, <2>1 DEF UpdateState, Hset, GoOn, history, telling
<1>6. ASSUME NEW k \in Checkers, ForgetCheck(k) PROVE RecordInv'
  BY <1>6 DEF ForgetCheck, redis, history, telling
<1>7. ASSUME NEW r \in Requests, SecondCommand(r) PROVE RecordInv'
  <2>1. job[r].conv \in Convs
    BY <1>7 DEF SecondCommand, Jobs
  <2> QED
    BY <1>7, <2>1 DEF SecondCommand, check
<1>8. ASSUME NEW r \in Requests,
             BeginRequest(r) \/ FirstCommand(r) \/ ConnectionLost(r)
      PROVE  UNCHANGED <<states, checkPc, note, sent>>
  BY <1>8 DEF BeginRequest, FirstCommand, ConnectionLost, redis, check,
              history, telling
<1>9. CASE CleanupExpired \/ Tick \/ UNCHANGED vars
  BY <1>1, <1>9 DEF CleanupExpired, Tick, redis, check, history, telling, vars
<1> QED
  BY <1>1, <1>2, <1>3, <1>4, <1>5, <1>6, <1>7, <1>8, <1>9
     DEF Next, CheckStep, RequestStep, CheckDone, Crash

LEMMA InitRecordInv == Init => RecordInv
BY DEF Init, RecordInv, RecordedWasSent

(* The hash never claims a notification that was not sent.                 *)
THEOREM RecordedLevelsWereSent == Spec => []RecordedWasSent
<1>1. RecordInv => RecordedWasSent
  BY DEF RecordInv
<1> QED
  BY <1>1, InitRecordInv, RecordInvInductive, TypeCorrect, PTL DEF Spec

-----------------------------------------------------------------------------
(* Late notifications                                                      *)

(* A conversation in hand is no longer in the snapshot; and who has sent a *)
(* late notification about a conversation does not have it in what is left *)
(* of its snapshot.                                                        *)
LateInv ==
  /\ \A k \in Checkers :
       checkPc[k] = "send" => batch[k][note[k].conv] = Absent
  /\ \A c \in Convs : waiting[c] # Absent => late[c] = {}
  /\ \A c \in Convs : \A k \in late[c] : batch[k][c] = Absent

LEMMA LateInvInductive ==
  TypeOK /\ LateInv /\ [Next]_vars => LateInv'
<1> SUFFICES ASSUME TypeOK, LateInv, [Next]_vars PROVE LateInv'
  OBVIOUS
<1> USE DEF TypeOK, LateInv
<1>1. CASE UNCHANGED <<waiting, late, batch, checkPc, note>>
  BY <1>1
<1>a. ASSUME NEW k \in Checkers, ReadClock(k) PROVE LateInv'
  BY <1>a DEF ReadClock, redis, history, telling
<1>2. ASSUME NEW k \in Checkers, CheckTimeouts(k), ~ForgetCheck(k)
      PROVE  LateInv'
  <2>1. \A c \in Convs : waiting[c] = Absent => batch'[k][c] = Absent
    <3> DEFINE snapshot == [c \in Convs |-> IF waiting[c] \in 0..now[k]
                                            THEN waiting[c] ELSE Absent]
    <3>1. \A c \in Convs : waiting[c] = Absent => snapshot[c] = Absent
      OBVIOUS
    <3>2. batch' = [batch EXCEPT ![k] = snapshot]
      BY <1>2 DEF CheckTimeouts
    <3> HIDE DEF snapshot
    <3> QED
      BY <3>1, <3>2
  <2>2. checkPc'[k] # "send"
    BY <1>2 DEF CheckTimeouts
  <2>3. \A j \in Checkers \ {k} :
          batch'[j] = batch[j] /\ checkPc'[j] = checkPc[j]
    BY <1>2 DEF CheckTimeouts
  <2>4. UNCHANGED <<waiting, late, note>>
    BY <1>2 DEF CheckTimeouts, redis, telling
  <2>5. \A c \in Convs : \A j \in late'[c] : batch'[j][c] = Absent
    <3> SUFFICES ASSUME NEW c \in Convs, NEW j \in late[c]
                 PROVE  batch'[j][c] = Absent
      BY <2>4
    <3>1. j \in Checkers /\ waiting[c] = Absent /\ batch[j][c] = Absent
      OBVIOUS
    <3> QED
      BY <2>1, <2>3, <3>1
  <2>6. \A j \in Checkers :
          checkPc'[j] = "send" => batch'[j][note'[j].conv] = Absent
    BY <2>2, <2>3, <2>4
  <2> HIDE DEF TypeOK
  <2> QED
    BY <2>4, <2>5, <2>6
<1>3. ASSUME NEW k \in Checkers, NEW c \in Convs, ProcessConversation(k, c)
      PROVE  LateInv'
  <2>2. batch' = [batch EXCEPT ![k][c] = Absent] /\ UNCHANGED <<waiting, late>>
    BY <1>3 DEF ProcessConversation, redis, history, telling
  <2>3. checkPc'[k] = "send" => note'[k].conv = c
    BY <1>3 DEF ProcessConversation
  <2>4. \A j \in Checkers \ {k} : note'[j] = note[j] /\ checkPc'[j] = checkPc[j]
    BY <1>3 DEF ProcessConversation
  <2>5. batch'[k][c] = Absent
    BY <2>2
  <2>6. \A j \in Checkers \ {k} : batch'[j] = batch[j]
    BY <2>2
  <2>7. \A d \in Convs : batch[k][d] = Absent => batch'[k][d] = Absent
    BY <2>2
  <2> QED
    BY <2>2, <2>3, <2>4, <2>5, <2>6, <2>7
<1>4. ASSUME NEW k \in Checkers, SendNotification(k) PROVE LateInv'
  <2> DEFINE c == note[k].conv
  <2>1. c \in Convs
    BY <1>4 DEF SendNotification, Notes
  <2>3. checkPc'[k] # "send"
    BY <1>4 DEF SendNotification, GoOn
  <2>4. UNCHANGED <<waiting, batch>>
    BY <1>4 DEF SendNotification, redis
  <2>5. \A j \in Checkers \ {k} : checkPc'[j] = checkPc[j] /\ note'[j] = note[j]
    BY <1>4 DEF SendNotification, GoOn
  <2>6. \A d \in Convs : \A j \in late'[d] :
          j \in late[d] \/ (j = k /\ d = c /\ waiting[c] = Absent)
    BY <1>4, <2>1 DEF SendNotification, Announce, history, telling
  <2>7. batch[k][c] = Absent
    BY <1>4 DEF SendNotification
  <2>8. \A d \in Convs : waiting[d] # Absent => late'[d] = {}
    BY <1>4, <2>1 DEF SendNotification, Announce, history, telling
  <2> HIDE DEF c
  <2>9. \A d \in Convs : \A j \in late'[d] : batch'[j][d] = Absent
    BY <2>4, <2>6, <2>7
  <2> QED
    BY <2>3, <2>4, <2>5, <2>8, <2>9
<1>5. ASSUME NEW k \in Checkers, UpdateState(k) PROVE LateInv'
  <2>1. UNCHANGED <<waiting, batch, late>>
    BY <1>5 DEF UpdateState, history, telling
  <2>2. \A j \in Checkers :
          checkPc'[j] = "send" => checkPc[j] = "send" /\ note'[j] = note[j]
    BY <1>5 DEF UpdateState, GoOn
  <2> QED
    BY <2>1, <2>2
<1>6. ASSUME NEW k \in Checkers, ForgetCheck(k) PROVE LateInv'
  BY <1>6 DEF ForgetCheck, Nobody, redis, history, telling
<1>7. ASSUME NEW r \in Requests, FirstCommand(r) PROVE LateInv'
  <2>1. job[r].conv \in Convs
    BY <1>7 DEF FirstCommand, Jobs
  <2> QED
    BY <1>7, <2>1 DEF FirstCommand, Zadd, Zrem, check
<1>8. ASSUME NEW r \in Requests,
             BeginRequest(r) \/ SecondCommand(r) \/ ConnectionLost(r)
      PROVE  UNCHANGED <<waiting, late, batch, checkPc, note>>
  BY <1>8 DEF BeginRequest, SecondCommand, ConnectionLost, redis, check,
              history, telling
<1>9. CASE CleanupExpired
  BY <1>9 DEF CleanupExpired, check, history, telling
<1>10. CASE Tick \/ UNCHANGED vars
  BY <1>1, <1>10 DEF Tick, redis, check, history, telling, vars
<1> QED
  BY <1>a, <1>1, <1>2, <1>3, <1>4, <1>5, <1>6, <1>7, <1>8, <1>9, <1>10
     DEF Next, CheckStep, RequestStep, CheckDone, Crash

(* A level is chosen for a conversation of the snapshot only.              *)
LEMMA ChoiceIsOnTime ==
  ASSUME TypeOK, LateInv, [Next]_vars, NEW k \in Checkers,
         checkPc[k] = "pick", checkPc'[k] = "send"
  PROVE  k \notin late[note'[k].conv]
<1>1. ASSUME NEW j \in Checkers, CheckStep(j) \/ Crash(j)
      PROVE  \E c \in Convs : ProcessConversation(k, c)
  <2>1. checkPc' # checkPc /\ checkPc \in [Checkers -> PassState]
    BY DEF TypeOK
  <2>2. PICK p \in {"idle", "read", "pick", "record"} :
          \/ checkPc' = [checkPc EXCEPT ![j] = p] \/ checkPc' = checkPc
          \/ \E c \in Convs : /\ ProcessConversation(j, c)
                              /\ checkPc' = [checkPc EXCEPT ![j] = "send"]
    BY <1>1 DEF CheckStep, ReadClock, CheckTimeouts, ProcessConversation,
                SendNotification, UpdateState, CheckDone, Crash, ForgetCheck,
                GoOn
  <2> QED
    BY <2>1, <2>2
<1>2. ASSUME NEW r \in Requests,
             BeginRequest(r) \/ RequestStep(r) \/ ConnectionLost(r)
      PROVE  UNCHANGED checkPc
  BY <1>2 DEF BeginRequest, RequestStep, FirstCommand, SecondCommand,
              ConnectionLost, check
<1>3. (CleanupExpired \/ Tick \/ UNCHANGED vars) => UNCHANGED checkPc
  BY DEF CleanupExpired, Tick, check, vars
<1>4. PICK c \in Convs : ProcessConversation(k, c)
  BY <1>1, <1>2, <1>3 DEF Next
<1>5. note'[k].conv = c /\ batch[k][c] # Absent
  BY <1>4 DEF ProcessConversation, IsNext, TypeOK
<1> QED
  BY <1>5 DEF LateInv

LEMMA InitLateInv == Init => LateInv
BY DEF Init, LateInv

(* Each checker decides on at most one notification about a conversation   *)
(* that has left the sorted set.                                           *)
THEOREM LateNotificationsAreBounded == Spec => LateOnce
<1>1. LateInv /\ TypeOK /\ [Next]_vars =>
        [\A k \in Checkers :
           checkPc[k] = "pick" /\ checkPc'[k] = "send" =>
             LET c == note'[k].conv
             IN  waiting[c] = Absent => k \notin late[c]]_vars
  BY ChoiceIsOnTime
<1> QED
  BY <1>1, InitLateInv, LateInvInductive, TypeCorrect, PTL DEF Spec, LateOnce

-----------------------------------------------------------------------------
(* The escalation ladder                                                   *)

(* As long as the escalation of a conversation is not disturbed, a single  *)
(* check has it in hand, and goes on with a level above what is recorded   *)
(* and told, which is the one recorded when HSET is sent again; what was   *)
(* told is recorded, or is being recorded.                                 *)
LadderInv(c) ==
  /\ \A j, k \in Checkers : InHand(j, c) /\ InHand(k, c) => j = k
  /\ \A k \in Checkers : InHand(k, c) =>
       \/ states[c] < note[k].level
       \/ checkPc[k] = "record" /\ states[c] = note[k].level
  /\ \A k \in Checkers : InHand(k, c) /\ checkPc[k] = "send" =>
       \A M \in Levels : M >= note[k].level => told[c][M] = 0
  /\ \A M \in Levels : told[c][M] # 0 =>
       \/ M <= states[c]
       \/ \E k \in Checkers :
            InHand(k, c) /\ checkPc[k] = "record" /\ M <= note[k].level

UndisturbedInv == \A c \in Convs \ disturbed : LadderInv(c)

(* What a step leaves alone of a conversation keeps its ladder.            *)
LEMMA LadderUntouched ==
  ASSUME NEW c, LadderInv(c), states'[c] = states[c], told'[c] = told[c],
         \A k \in Checkers :
           \/ InHand(k, c)' /\ checkPc'[k] = checkPc[k] /\ note'[k] = note[k]
           \/ ~InHand(k, c)' /\ ~(InHand(k, c) /\ checkPc[k] = "record")
  PROVE  LadderInv(c)'
BY DEF LadderInv, InHand

(* So does a check that lets go of a conversation whose level is recorded. *)
LEMMA LadderLetGo ==
  ASSUME NEW c, LadderInv(c), states'[c] = states[c], told'[c] = told[c],
         NEW k \in Checkers, InHand(k, c), states[c] = note[k].level,
         ~InHand(k, c)',
         \A j \in Checkers \ {k} :
           checkPc'[j] = checkPc[j] /\ note'[j] = note[j]
  PROVE  LadderInv(c)'
<1>1. \A j \in Checkers : InHand(j, c) => j = k
  BY DEF LadderInv
<1>2. \A j \in Checkers : ~InHand(j, c)'
  BY <1>1 DEF InHand
<1>3. \A M \in Levels : told[c][M] # 0 => M <= states[c]
  BY <1>1 DEF LadderInv
<1> QED
  BY <1>2, <1>3 DEF LadderInv

(* A check keeps the ladder of every conversation it does not disturb.     *)
LEMMA CheckKeepsLadder ==
  ASSUME TypeOK, NEW k \in Checkers, CheckStep(k) \/ Crash(k),
         NEW c \in Convs \ disturbed', LadderInv(c)
  PROVE  LadderInv(c)'
<1>a. /\ checkPc \in [Checkers -> PassState]
      /\ note \in [Checkers -> Notes \cup {NoNote}]
      /\ states \in [Convs -> 0..3]
      /\ told \in [Convs -> [Levels -> 0..2]]
      /\ \A j \in Checkers : checkPc[j] \in {"send", "record"} => note[j] \in Notes
  BY DEF TypeOK
<1>b. \A n \in Notes : n.conv \in Convs /\ n.level \in Levels
  BY DEF Notes
<1>c. Levels \subseteq Nat
  BY DEF Levels
<1>d. ASSUME states'[c] = states[c], told'[c] = told[c],
             \A j \in Checkers \ {k} :
               checkPc'[j] = checkPc[j] /\ note'[j] = note[j],
             ~InHand(k, c)',
             ~(InHand(k, c) /\ checkPc[k] = "record")
      PROVE  LadderInv(c)'
  BY <1>d, LadderUntouched DEF InHand
<1>1. CASE ReadClock(k) \/ CheckTimeouts(k) \/ CheckDone(k)
  BY <1>1, <1>a, <1>d
     DEF ReadClock, CheckTimeouts, CheckDone, ForgetCheck, redis, history,
         telling, InHand
<1>2. ASSUME NEW d \in Convs, ProcessConversation(k, d) PROVE LadderInv(c)'
  <2>1. UNCHANGED <<states, told>> /\ checkPc[k] = "pick"
    BY <1>2 DEF ProcessConversation, redis, telling
  <2>2. CASE UNCHANGED <<checkPc, note>>
    BY <2>1, <2>2, <1>d DEF InHand
  <2>3. ASSUME NEW L \in DueLevels(now[k] - batch[k][d], states[d]),
               note' = [note EXCEPT ![k] =
                          [conv |-> d, start |-> batch[k][d], level |-> L]],
               checkPc' = [checkPc EXCEPT ![k] = "send"],
               DisturbIfInHand(d)
        PROVE  LadderInv(c)'
    <3>1. /\ note'[k].conv = d /\ note'[k].level = L /\ checkPc'[k] = "send"
          /\ \A j \in Checkers \ {k} :
               checkPc'[j] = checkPc[j] /\ note'[j] = note[j]
      BY <1>a, <2>3
    <3>2. CASE d # c
      BY <1>d, <2>1, <3>1, <3>2 DEF InHand
    <3>3. CASE d = c
      <4>1. \A j \in Checkers : ~InHand(j, c)
        BY <2>3, <3>3 DEF DisturbIfInHand
      <4>2. \A M \in Levels : told[c][M] # 0 => M <= states[c]
        BY <4>1 DEF LadderInv
      <4>3. L \in Levels /\ states[c] < L /\ states[c] \in Nat
        BY <1>a, <3>3 DEF DueLevels
      <4>4. \A M \in Levels : M >= L => told[c][M] = 0
        <5> SUFFICES ASSUME NEW M \in Levels, M >= L PROVE ~(M <= states[c])
          BY <4>2
        <5> QED
          BY <1>c, <4>3
      <4>5. \A j \in Checkers : InHand(j, c)' => j = k
        BY <3>1, <4>1 DEF InHand
      <4> QED
        BY <2>1, <3>1, <4>2, <4>3, <4>4, <4>5 DEF LadderInv
    <3> QED
      BY <3>2, <3>3
  <2> QED
    BY <1>2, <2>2, <2>3 DEF ProcessConversation
<1>3. CASE SendNotification(k)
  <2> DEFINE d == note[k].conv
             L == note[k].level
  <2>1. /\ checkPc[k] = "send" /\ d \in Convs /\ L \in Levels
        /\ UNCHANGED states
        /\ \A j \in Checkers \ {k} :
             checkPc'[j] = checkPc[j] /\ note'[j] = note[j]
    BY <1>3, <1>a, <1>b DEF SendNotification, GoOn, redis
  <2>2. CASE UNCHANGED told /\ GoOn(k)
    BY <1>a, <1>d, <2>1, <2>2 DEF GoOn, InHand
  <2>3. CASE Announce(k) /\ d # c
    <3>1. told'[c] = told[c]
      BY <1>a, <2>1, <2>3 DEF Announce
    <3>2. ~InHand(k, c)'
      BY <1>3, <1>a, <2>3 DEF SendNotification, GoOn, InHand
    <3> QED
      BY <1>d, <2>1, <3>1, <3>2
  <2>4. CASE /\ Announce(k) /\ d = c
             /\ checkPc' = [checkPc EXCEPT ![k] = "record"] /\ UNCHANGED note
    <3>1. InHand(k, c) /\ InHand(k, c)' /\ checkPc'[k] = "record"
      BY <1>a, <2>1, <2>4 DEF InHand
    <3>2. \A j \in Checkers : InHand(j, c)' => j = k
      BY <2>1, <3>1 DEF LadderInv, InHand
    <3>3. \A M \in Levels : told[c][M] # 0 => M <= states[c]
      BY <2>1, <3>1 DEF LadderInv
    <3>4. \A M \in Levels : told'[c][M] # 0 => told[c][M] # 0 \/ M = L
      BY <1>a, <2>1, <2>4 DEF Announce
    <3>5. L <= L
      BY <2>1 DEF Levels
    <3>6. states[c] < L
      BY <2>1, <3>1 DEF LadderInv
    <3> QED
      BY <2>1, <2>4, <3>1, <3>2, <3>3, <3>4, <3>5, <3>6 DEF LadderInv
  <2>5. ~Disturb(c)
    BY DEF Disturb
  <2>6. UNCHANGED history => UNCHANGED told
    BY DEF history, telling
  <2> QED
    BY <1>3, <2>2, <2>3, <2>4, <2>5, <2>6, Zenon DEF SendNotification
<1>4. CASE UpdateState(k)
  <2> DEFINE d == note[k].conv
             L == note[k].level
  <2>1. /\ checkPc[k] = "record" /\ d \in Convs /\ L \in Levels
        /\ UNCHANGED told
        /\ \A j \in Checkers \ {k} :
             checkPc'[j] = checkPc[j] /\ note'[j] = note[j]
    BY <1>4, <1>a, <1>b DEF UpdateState, GoOn, telling
  <2>2. CASE d # c
    <3>1. states'[c] = states[c]
      BY <1>4, <1>a, <2>2 DEF UpdateState, Hset
    <3>2. ~InHand(k, c) /\ ~InHand(k, c)'
      BY <1>4, <1>a, <2>2 DEF UpdateState, GoOn, InHand
    <3> QED
      BY <1>d, <2>1, <3>1, <3>2
  <2>3. CASE d = c /\ Hset(k)
    <3>1. InHand(k, c)
      BY <2>1, <2>3 DEF InHand
    <3>2. \A j \in Checkers : InHand(j, c)' =>
            j = k /\ checkPc'[k] = "record" /\ note'[k] = note[k]
      BY <1>4, <1>a, <2>1, <3>1 DEF LadderInv, InHand, UpdateState, GoOn
    <3>3. states'[c] = L
      BY <1>a, <2>3 DEF Hset
    <3>4. states[c] <= L /\ states[c] \in Nat /\ L \in Nat
      <4>1. states[c] \in Nat /\ L \in Nat
        BY <1>a, <1>c, <2>1, 0..3 \subseteq Nat
      <4>2. states[c] < L \/ states[c] = L
        BY <3>1 DEF LadderInv
      <4> HIDE DEF L
      <4> QED
        BY <4>1, <4>2
    <3>5. \A M \in Levels : told[c][M] # 0 => M <= states[c] \/ M <= L
      BY <3>1 DEF LadderInv
    <3>6. \A M \in Levels : M <= states[c] => M <= L
      <4> HIDE DEF L
      <4> QED
        BY <1>c, <3>4
    <3> QED
      BY <2>1, <3>2, <3>3, <3>5, <3>6 DEF LadderInv
  <2>4. CASE d = c /\ GoOn(k) /\ LetGo(k) /\ UNCHANGED states
    <3>1. InHand(k, c) /\ ~InHand(k, c)'
      BY <1>a, <2>1, <2>4 DEF InHand, GoOn
    <3>2. states[c] = L
      BY <2>4 DEF LetGo, Disturb
    <3> QED
      BY <2>1, <2>4, <3>1, <3>2, LadderLetGo
  <2> QED
    BY <1>4, <2>2, <2>3, <2>4 DEF UpdateState
<1>5. CASE Crash(k)
  <2>1. /\ UNCHANGED <<states, told>> /\ checkPc'[k] = "idle"
        /\ \A j \in Checkers \ {k} :
             checkPc'[j] = checkPc[j] /\ note'[j] = note[j]
    BY <1>5, <1>a DEF Crash, ForgetCheck, redis, telling
  <2>2. ~InHand(k, c)'
    BY <2>1 DEF InHand
  <2>3. CASE InHand(k, c) /\ checkPc[k] = "record"
    <3>1. states[c] = note[k].level
      BY <1>5, <2>3 DEF Crash, LetGo, Disturb, InHand
    <3> QED
      BY <2>1, <2>2, <2>3, <3>1, LadderLetGo
  <2> QED
    BY <1>d, <2>1, <2>2, <2>3
<1> QED
  BY <1>1, <1>2, <1>3, <1>4, <1>5 DEF CheckStep

(* An HDEL begins a new ladder, unless two checks have the conversation in *)
(* hand.                                                                   *)
LEMMA HdelBeginsLadder ==
  ASSUME TypeOK, UndisturbedInv, NEW r \in Requests, SecondCommand(r),
         NEW c \in Convs \ disturbed'
  PROVE  LadderInv(c)'
<1> DEFINE d == job[r].conv
<1>1. UNCHANGED <<checkPc, note>> /\ d \in Convs
  BY DEF SecondCommand, check, TypeOK, Jobs
<1>2. \A k \in Checkers : InHand(k, c)' = InHand(k, c)
  BY <1>1 DEF InHand
<1>3. CASE d # c
  <2>1. states'[c] = states[c] /\ told'[c] = told[c] /\ c \notin disturbed
    BY <1>3 DEF SecondCommand, Calm, TypeOK
  <2> QED
    BY <1>1, <1>2, <2>1 DEF UndisturbedInv, LadderInv
<1>4. CASE d = c
  <2>1. states'[c] = 0 /\ \A M \in Levels : told'[c][M] = 0
    BY <1>1, <1>4 DEF SecondCommand, TypeOK, NoState
  <2>2. \A j, k \in Checkers : InHand(j, c) /\ InHand(k, c) => j = k
    BY <1>4 DEF SecondCommand, Calm, UndisturbedInv, LadderInv
  <2>3. \A k \in Checkers : InHand(k, c) => 0 < note[k].level
    <3>1. \A n \in Notes : 0 < n.level
      BY DEF Notes, Levels
    <3>2. \A k \in Checkers : InHand(k, c) => note[k] \in Notes
      BY DEF InHand, TypeOK
    <3> QED
      BY <3>1, <3>2
  <2> QED
    BY <1>1, <1>2, <2>1, <2>2, <2>3 DEF LadderInv
<1> QED
  BY <1>3, <1>4

LEMMA UndisturbedInvInductive ==
  ASSUME TypeOK, UndisturbedInv, [Next]_vars PROVE UndisturbedInv'
<1> SUFFICES ASSUME NEW c \in Convs \ disturbed' PROVE LadderInv(c)'
  BY DEF UndisturbedInv
<1>1. ASSUME NEW k \in Checkers, CheckStep(k) \/ Crash(k) PROVE LadderInv(c)'
  <2>1. disturbed \subseteq disturbed'
    BY <1>1 DEF CheckStep, ReadClock, CheckTimeouts, ProcessConversation,
                SendNotification, UpdateState, CheckDone, Crash, Disturb,
                LetGo, DisturbIfInHand, history
  <2> QED
    BY <1>1, <2>1, CheckKeepsLadder DEF UndisturbedInv
<1>2. ASSUME NEW r \in Requests, SecondCommand(r) PROVE LadderInv(c)'
  BY <1>2, HdelBeginsLadder
<1>3. CASE UNCHANGED <<checkPc, note, states, told, disturbed>>
  BY <1>3 DEF UndisturbedInv, LadderInv, InHand
<1>4. ASSUME NEW r \in Requests,
             BeginRequest(r) \/ FirstCommand(r) \/ ConnectionLost(r)
      PROVE  UNCHANGED <<checkPc, note, states, told, disturbed>>
  BY <1>4 DEF BeginRequest, FirstCommand, ConnectionLost, redis, check,
              history, telling
<1>5. CASE CleanupExpired \/ Tick \/ UNCHANGED vars
  BY <1>3, <1>5 DEF CleanupExpired, Tick, redis, check, history, telling, vars
<1> QED
  BY <1>1, <1>2, <1>3, <1>4, <1>5 DEF Next, RequestStep

(* Level L of c is told, and it and all higher levels were untold.         *)
ToldFirst(c, L) ==
  /\ \A M \in Levels : M >= L => told[c][M] = 0
  /\ told'[c] = [told[c] EXCEPT ![L] = 1]

(* Who tells of an undisturbed conversation finds its level and all higher *)
(* ones untold.                                                            *)
LEMMA AnnounceStep ==
  ASSUME TypeOK, UndisturbedInv, NEW c \in Convs \ disturbed,
         told'[c] # told[c],
         NEW k \in Checkers, checkPc[k] = "send", Announce(k)
  PROVE  \E L \in Levels : ToldFirst(c, L)
<1> DEFINE L == note[k].level
<1>1. note[k] \in Notes
  BY DEF TypeOK
<1>2. note[k].conv \in Convs /\ L \in Levels /\ L >= L
  BY <1>1 DEF Notes, Levels
<1>3. note[k].conv = c
  BY <1>2 DEF Announce, TypeOK
<1>4. \A M \in Levels : M >= L => told[c][M] = 0
  BY <1>3 DEF UndisturbedInv, LadderInv, InHand
<1>5. told'[c] = [told[c] EXCEPT ![L] = 1]
  BY <1>2, <1>3, <1>4 DEF Announce, TypeOK
<1> QED
  BY <1>2, <1>4, <1>5 DEF ToldFirst

LEMMA ToldStep ==
  ASSUME TypeOK, UndisturbedInv, [Next]_vars, NEW c \in Convs \ disturbed,
         told'[c] # told[c]
  PROVE  \/ told'[c] = [L \in Levels |-> 0]
         \/ \E L \in Levels : ToldFirst(c, L)
<1>1. ASSUME NEW k \in Checkers, SendNotification(k)
      PROVE  \E L \in Levels : ToldFirst(c, L)
  <2>1. checkPc[k] = "send" /\ Announce(k)
    BY <1>1 DEF SendNotification, history, telling
  <2> QED
    BY <2>1, AnnounceStep
<1>2. ASSUME NEW r \in Requests, SecondCommand(r)
      PROVE  told'[c] = [L \in Levels |-> 0]
  BY <1>2 DEF SecondCommand, TypeOK, Jobs
<1>3. ASSUME NEW k \in Checkers,
             \/ ReadClock(k) \/ CheckTimeouts(k) \/ UpdateState(k)
             \/ ForgetCheck(k)
             \/ \E d \in Convs : ProcessConversation(k, d)
      PROVE  UNCHANGED told
  BY <1>3 DEF ReadClock, CheckTimeouts, UpdateState, ForgetCheck,
              ProcessConversation, history, telling
<1>4. ASSUME NEW r \in Requests,
             BeginRequest(r) \/ FirstCommand(r) \/ ConnectionLost(r)
      PROVE  UNCHANGED told
  BY <1>4 DEF BeginRequest, FirstCommand, ConnectionLost, history, telling
<1>5. CASE CleanupExpired \/ Tick \/ UNCHANGED vars
  BY <1>5 DEF CleanupExpired, Tick, history, telling, vars
<1> QED
  BY <1>1, <1>2, <1>3, <1>4, <1>5
     DEF Next, CheckStep, RequestStep, CheckDone, Crash

(* A level is told once more only by such a step.                          *)
LEMMA RisesAreFirst ==
  ASSUME TypeOK, NEW c \in Convs, NEW L \in Levels,
         told'[c][L] > told[c][L],
         \/ told'[c] = [K \in Levels |-> 0]
         \/ \E K \in Levels : ToldFirst(c, K)
  PROVE  \A M \in Levels : M >= L => told[c][M] = 0
<1>1. told[c] \in [Levels -> 0..2]
  BY DEF TypeOK
<1>2. told'[c] # [K \in Levels |-> 0]
  BY <1>1
<1>3. PICK K \in Levels : ToldFirst(c, K)
  BY <1>2
<1>4. K = L
  BY <1>1, <1>3 DEF ToldFirst
<1> QED
  BY <1>1, <1>3, <1>4 DEF ToldFirst

LEMMA InitUndisturbedInv == Init => UndisturbedInv
<1> SUFFICES ASSUME Init, NEW c \in Convs PROVE LadderInv(c)
  BY DEF UndisturbedInv
<1>1. \A k \in Checkers : ~InHand(k, c)
  BY DEF Init, InHand
<1>2. \A M \in Levels : told[c][M] = 0
  BY DEF Init
<1> QED
  BY <1>1, <1>2 DEF LadderInv

LEMMA UndisturbedInvariant == Spec => []UndisturbedInv
<1>1. TypeOK /\ UndisturbedInv /\ [Next]_vars => UndisturbedInv'
  BY UndisturbedInvInductive
<1> QED
  BY <1>1, InitUndisturbedInv, TypeCorrect, PTL DEF Spec

(* A level, or a lower one, is told again within a cycle only after two    *)
(* checks had the conversation in hand at once, or after a check told a    *)
(* level and did not record it.                                            *)
THEOREM RepeatsAreCaused == Spec => RepeatsHaveACause
<1>1. TypeOK /\ UndisturbedInv /\ [Next]_vars =>
        [\A c \in Convs \ disturbed : \A L \in Levels :
           told'[c][L] > told[c][L] =>
             \A M \in Levels : M >= L => told[c][M] = 0]_vars
  <2> SUFFICES ASSUME TypeOK, UndisturbedInv, [Next]_vars,
                      NEW c \in Convs \ disturbed, NEW L \in Levels,
                      told'[c][L] > told[c][L],
                      NEW M \in Levels, M >= L
               PROVE  told[c][M] = 0
    OBVIOUS
  <2>1. told'[c] # told[c]
    BY DEF TypeOK
  <2> QED
    BY <2>1, ToldStep, RisesAreFirst
<1> QED
  BY <1>1, UndisturbedInvariant, TypeCorrect, PTL DEF Spec, RepeatsHaveACause

-----------------------------------------------------------------------------
(* One checker and no faults                                               *)

(* The deployment the ladder is promised for.                              *)
OneReliableChecker ==
  /\ \A j, k \in Checkers : j = k
  /\ RedisFaults = FALSE
  /\ ServiceFails = FALSE
  /\ Crashes = FALSE

(* Nothing disturbs the escalation there.                                  *)
LEMMA NothingDisturbs ==
  ASSUME OneReliableChecker, disturbed = {}, [Next]_vars
  PROVE  disturbed' = {}
<1>1. ASSUME NEW k \in Checkers, CheckStep(k) PROVE disturbed' = {}
  <2>1. ASSUME NEW c \in Convs, ProcessConversation(k, c) PROVE disturbed' = {}
    <3>1. \A j \in Checkers : ~InHand(j, c)
      BY <2>1 DEF OneReliableChecker, ProcessConversation, InHand
    <3> QED
      BY <2>1, <3>1 DEF ProcessConversation, DisturbIfInHand
  <2> QED
    BY <1>1, <2>1 DEF CheckStep, ReadClock, CheckTimeouts, SendNotification,
                      UpdateState, CheckDone, history, OneReliableChecker
<1>2. ASSUME NEW r \in Requests,
             BeginRequest(r) \/ RequestStep(r) \/ ConnectionLost(r)
      PROVE  disturbed' = {}
  BY <1>2 DEF BeginRequest, RequestStep, FirstCommand, SecondCommand, Calm,
              ConnectionLost, history
<1>3. CASE CleanupExpired \/ Tick \/ UNCHANGED vars
  BY <1>3 DEF CleanupExpired, Tick, history, vars
<1> QED
  BY <1>1, <1>2, <1>3 DEF Next, Crash, OneReliableChecker

(* A step of the code is a step of the ladder, or leaves it alone.         *)
LEMMA LadderStep ==
  ASSUME TypeOK, UndisturbedInv, disturbed = {}, [Next]_vars
  PROVE  [Ladder!Next]_told
<1> USE DEF Ladder!Next, Ladder!Levels, Levels
<1>1. ASSUME NEW k \in Checkers, SendNotification(k), UNCHANGED told
      PROVE  [Ladder!Next]_told
  BY <1>1
<1>2. ASSUME NEW k \in Checkers, SendNotification(k), Announce(k)
      PROVE  [Ladder!Next]_told
  <2> DEFINE c == note[k].conv
             L == note[k].level
  <2>1. note[k] \in Notes /\ checkPc[k] = "send"
    BY <1>2 DEF SendNotification, TypeOK
  <2>2. c \in Convs /\ L \in Levels
    BY <2>1 DEF Notes
  <2>3. \A M \in Levels : M >= L => told[c][M] = 0
    BY <2>1, <2>2 DEF UndisturbedInv, LadderInv, InHand
  <2>4. told[c][L] = 0
    BY <2>2, <2>3
  <2>5. Ladder!Notify(c, L)
    BY <1>2, <2>3, <2>4 DEF Announce, Ladder!Notify
  <2> QED
    BY <2>2, <2>5
<1>3. ASSUME NEW r \in Requests, SecondCommand(r) PROVE Ladder!Next
  BY <1>3 DEF SecondCommand, Jobs, TypeOK, Ladder!Reset, Ladder!Untold
<1>4. ASSUME NEW k \in Checkers,
             \/ ReadClock(k) \/ CheckTimeouts(k) \/ UpdateState(k)
             \/ ForgetCheck(k)
             \/ \E c \in Convs : ProcessConversation(k, c)
      PROVE  UNCHANGED told
  BY <1>4 DEF ReadClock, CheckTimeouts, UpdateState, ForgetCheck,
              ProcessConversation, history, telling
<1>5. ASSUME NEW r \in Requests,
             BeginRequest(r) \/ FirstCommand(r) \/ ConnectionLost(r)
      PROVE  UNCHANGED told
  BY <1>5 DEF BeginRequest, FirstCommand, ConnectionLost, history, telling
<1>6. CASE CleanupExpired \/ Tick \/ UNCHANGED vars
  BY <1>6 DEF CleanupExpired, Tick, history, telling, vars
<1>7. ASSUME NEW k \in Checkers, SendNotification(k)
      PROVE  Announce(k) \/ UNCHANGED told
  BY <1>7 DEF SendNotification, history, telling
<1> QED
  BY <1>1, <1>2, <1>3, <1>4, <1>5, <1>6, <1>7
     DEF Next, CheckStep, RequestStep, CheckDone, Crash

(* A single checker that does not fail tells each level at most once per   *)
(* cycle, in rising order, whatever requests interleave with its checks.   *)
THEOREM ImplementsEscalation ==
  ASSUME OneReliableChecker
  PROVE  Spec => EscalationSpec
<1>1. Init => disturbed = {} /\ Ladder!Init
  BY DEF Init, Ladder!Init, Ladder!Untold, Ladder!Levels, Levels
<1>2. disturbed = {} /\ [Next]_vars => (disturbed = {})'
  BY NothingDisturbs
<1>3. TypeOK /\ UndisturbedInv /\ disturbed = {} /\ [Next]_vars
        => [Ladder!Next]_told
  BY LadderStep
<1> QED
  BY <1>1, <1>2, <1>3, UndisturbedInvariant, TypeCorrect, PTL
     DEF Spec, EscalationSpec, Ladder!Spec
=============================================================================

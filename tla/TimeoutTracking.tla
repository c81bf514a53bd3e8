-------------------------- MODULE TimeoutTracking ---------------------------
(***************************************************************************)
(* Timeout tracking: the requests of pkg/phase1/timeout_manager.go, which  *)
(* write the sorted set "waiting_conversations" and the hash               *)
(* "notification_states", and the check of pkg/phase1/leader.go, which     *)
(* reads them, tells waiting customers off and records the level told.     *)
(*                                                                         *)
(* Each Redis command is a step of its own: the two commands of a request  *)
(* go through Pipeline(), not TxPipeline(), and a check reads a snapshot,  *)
(* then works through it one conversation at a time.                       *)
(***************************************************************************)
EXTENDS Integers

CONSTANTS
  Convs,        \* the conversations
  Checkers,     \* the goroutines that run checkTimeouts, at most one a pod
  Requests,     \* the HTTP handlers at work at the same time
  Stamps,       \* timestamps an agent message may carry, besides "now"
  Interval,     \* TIMEOUT_INTERVAL_MS in ticks
  MaxAge,       \* age at which cleanup drops a conversation (24 h) in ticks
  MaxRetries,   \* redis.Options.MaxRetries, counted for a pipeline only
  RedisFaults,  \* commands may be refused, replies and connections lost
  ServiceFails, \* the notification service may return an error
  Crashes,      \* pods that check may die
  MaxTime,      \* bound: the clock stops here
  MaxRequests   \* bound: requests in a behaviour

ASSUME TimeoutTrackingAssumption ==
  /\ Stamps \subseteq Nat
  /\ Interval \in Nat \ {0}
  /\ MaxAge \in Nat
  /\ MaxRetries \in Nat
  /\ RedisFaults \in BOOLEAN
  /\ ServiceFails \in BOOLEAN
  /\ Crashes \in BOOLEAN
  /\ MaxTime \in Nat
  /\ MaxRequests \in Nat

VARIABLES
  clock,     \* milliseconds since 1970, in ticks
  waiting,   \* Redis: score of each conversation in waiting_conversations
  states,    \* Redis: level of each conversation in notification_states
  checkPc,   \* where each check is
  now,       \* time a check has read from its clock
  batch,     \* what is left of the check's snapshot of the sorted set
  note,      \* the notification a check is about to send or to record
  job,       \* what each request is doing
  begun,     \* requests begun (for MaxRequests)
  sent,      \* history: the notifications sent
  told,      \* history: how often each level was sent since the last HDEL,
             \*          counted up to two
  late,      \* history: the checkers that sent a notification about a
             \*          conversation since it left the sorted set
  disturbed  \* history: the conversations whose escalation was disturbed
             \*          since the last HDEL, see below

redis   == <<waiting, states>>
check   == <<checkPc, now, batch, note>>
request == <<job, begun>>
telling == <<sent, told, late>>
history == <<telling, disturbed>>
vars    == <<clock, waiting, states, checkPc, now, batch, note, job, begun,
             sent, told, late, disturbed>>

Levels == 1..3

(* Not a member of the sorted set, respectively of the snapshot.           *)
Absent == -1

(* A hash field that does not exist reads as level 0.                      *)
NoState == 0

Notes  == [conv : Convs, start : Nat, level : Levels]
NoNote == [level |-> 0]

Jobs == [op : {"track", "clear"}, conv : Convs, stamp : Nat,
         next : {"first", "second"}, tries : 0..MaxRetries]
NoJob == [op |-> "none"]

(* "read": the clock has been read.  "pick": between two conversations.    *)
(* "send": about to tell a level.  "record": about to record it.           *)
PassState == {"idle", "read", "pick", "send", "record"}

Nobody == [c \in Convs |-> Absent]

-----------------------------------------------------------------------------
Init ==
  /\ clock = 0
  /\ waiting = Nobody
  /\ states = [c \in Convs |-> NoState]
  /\ checkPc = [k \in Checkers |-> "idle"]
  /\ now = [k \in Checkers |-> 0]
  /\ batch = [k \in Checkers |-> Nobody]
  /\ note = [k \in Checkers |-> NoNote]
  /\ job = [r \in Requests |-> NoJob]
  /\ begun = 0
  /\ sent = {}
  /\ told = [c \in Convs |-> [L \in Levels |-> 0]]
  /\ late = [c \in Convs |-> {}]
  /\ disturbed = {}

-----------------------------------------------------------------------------
(* The escalation of a conversation is disturbed when two checks have it   *)
(* in hand at the same time, and when a check that told a level does not   *)
(* come to record it.  An HDEL ends that, unless two checks go on.         *)
InHand(k, c) == checkPc[k] \in {"send", "record"} /\ note[k].conv = c

Disturb(c) == disturbed' = disturbed \cup {c}

DisturbIfInHand(c) ==
  disturbed' = IF \E k \in Checkers : InHand(k, c)
               THEN disturbed \cup {c} ELSE disturbed

Calm(c) ==
  disturbed' = IF \A j, k \in Checkers : InHand(j, c) /\ InHand(k, c) => j = k
               THEN disturbed \ {c} ELSE disturbed

(* A check lets go of the conversation it told, which it does not know to  *)
(* be recorded.                                                            *)
LetGo(k) == IF states[note[k].conv] = note[k].level
            THEN UNCHANGED disturbed ELSE Disturb(note[k].conv)

(* The check is done with the conversation at hand.                        *)
GoOn(k) ==
  /\ checkPc' = [checkPc EXCEPT ![k] = "pick"]
  /\ note' = [note EXCEPT ![k] = NoNote]

ForgetCheck(k) ==
  /\ checkPc' = [checkPc EXCEPT ![k] = "idle"]
  /\ now' = [now EXCEPT ![k] = 0]
  /\ batch' = [batch EXCEPT ![k] = Nobody]
  /\ note' = [note EXCEPT ![k] = NoNote]
  /\ UNCHANGED <<clock, redis, request, telling>>

-----------------------------------------------------------------------------
(* checkTimeouts begins: time.Now().                                       *)
ReadClock(k) ==
  /\ checkPc[k] = "idle"
  /\ checkPc' = [checkPc EXCEPT ![k] = "read"]
  /\ now' = [now EXCEPT ![k] = clock]
  /\ UNCHANGED <<clock, redis, batch, note, request, history>>

(* checkTimeouts goes on: the snapshot of everybody whose score is not in  *)
(* the future (ZRANGEBYSCORE 0 now).  If it fails the check is over.       *)
CheckTimeouts(k) ==
  /\ checkPc[k] = "read"
  /\ \/ /\ checkPc' = [checkPc EXCEPT ![k] = "pick"]
        /\ batch' = [batch EXCEPT ![k] =
                       [c \in Convs |-> IF waiting[c] \in 0..now[k]
                                        THEN waiting[c] ELSE Absent]]
        /\ UNCHANGED <<clock, redis, now, note, request, telling>>
     \/ RedisFaults /\ ForgetCheck(k)
  /\ UNCHANGED disturbed

(* Faulty variants: a level is due as soon as its interval is over; the    *)
(* level recorded is due again; only the first notification is ever due;   *)
(* only the level after the one recorded is due.                           *)
DueTooEarly(wait, current) ==
  {L \in Levels : wait >= L * Interval /\ current < L}
DueAgain(wait, current) ==
  {L \in Levels : wait > L * Interval /\ current <= L}
DueOnce(wait, current) ==
  {L \in Levels : wait > L * Interval /\ current = NoState}
DueNext(wait, current) ==
  {L \in Levels : wait > L * Interval /\ L = current + 1}

(* The levels that are due after wait and higher than the level recorded.  *)
DueLevels(wait, current) ==
  {L \in Levels : wait > L * Interval /\ current < L}

(* The conversation that comes next in the snapshot: the longest waiting.  *)
IsNext(k, c) ==
  /\ batch[k][c] # Absent
  /\ \A d \in Convs : batch[k][d] # Absent => batch[k][c] <= batch[k][d]

(* processConversationTimeout, up to sendNotification: HGET the level      *)
(* recorded, and choose the highest level due.                             *)
ProcessConversation(k, c) ==
  /\ checkPc[k] = "pick"
  /\ IsNext(k, c)
  /\ batch' = [batch EXCEPT ![k][c] = Absent]
  /\ LET due == DueLevels(now[k] - batch[k][c], states[c]) IN
       \/ /\ due = {} \/ RedisFaults
          /\ UNCHANGED <<checkPc, note, disturbed>>
       \/ \E L \in due :
            /\ \A M \in due : M <= L
            /\ note' = [note EXCEPT ![k] =
                          [conv |-> c, start |-> batch[k][c], level |-> L]]
            /\ checkPc' = [checkPc EXCEPT ![k] = "send"]
            /\ DisturbIfInHand(c)
  /\ UNCHANGED <<clock, redis, now, request, telling>>

(* The notification of check k reaches the service.                        *)
Announce(k) ==
  LET c == note[k].conv
      L == note[k].level
  IN  /\ sent' = sent \cup {note[k]}
      /\ told' = [told EXCEPT ![c][L] = IF @ = 0 THEN 1 ELSE 2]
      /\ late' = IF waiting[c] = Absent
                 THEN [late EXCEPT ![c] = @ \cup {k}] ELSE late

(* Faulty variant: an error of the notification service is ignored.        *)
SendIgnoringErrors(k) ==
  /\ checkPc[k] = "send"
  /\ checkPc' = [checkPc EXCEPT ![k] = "record"]
  /\ Announce(k) \/ (ServiceFails /\ UNCHANGED telling)
  /\ UNCHANGED <<clock, redis, now, batch, note, request, disturbed>>

(* sendNotification.  After an error of the service, which may have been   *)
(* told all the same, nothing is recorded.                                 *)
SendNotification(k) ==
  /\ checkPc[k] = "send"
  /\ \/ /\ Announce(k)
        /\ checkPc' = [checkPc EXCEPT ![k] = "record"]
        /\ UNCHANGED <<note, disturbed>>
     \/ /\ ServiceFails
        /\ (Announce(k) /\ Disturb(note[k].conv)) \/ UNCHANGED history
        /\ GoOn(k)
  /\ UNCHANGED <<clock, redis, now, batch, request>>

(* HSET the level told.                                                    *)
Hset(k) == states' = [states EXCEPT ![note[k].conv] = note[k].level]

(* Faulty variants: the next level is recorded; a conversation whose HSET  *)
(* fails is processed once more by the same check.                         *)
RecordNextLevel(k) ==
  /\ checkPc[k] = "record"
  /\ states' = [states EXCEPT ![note[k].conv] = note[k].level + 1]
  /\ GoOn(k)
  /\ UNCHANGED <<clock, waiting, now, batch, request, history>>
ProcessAgain(k) ==
  /\ checkPc[k] = "record"
  /\ \/ Hset(k) /\ UNCHANGED <<batch, disturbed>>
     \/ /\ RedisFaults
        /\ batch' = [batch EXCEPT ![k][note[k].conv] = note[k].start]
        /\ Disturb(note[k].conv)
        /\ UNCHANGED states
  /\ GoOn(k)
  /\ UNCHANGED <<clock, waiting, now, request, telling>>

(* The end of processConversationTimeout: HSET the level, on to the next.  *)
(* If only the reply is lost, the command is sent again.                   *)
UpdateState(k) ==
  /\ checkPc[k] = "record"
  /\ \/ Hset(k) /\ GoOn(k) /\ UNCHANGED disturbed
     \/ RedisFaults /\ Hset(k) /\ UNCHANGED <<checkPc, note, disturbed>>
     \/ RedisFaults /\ GoOn(k) /\ LetGo(k) /\ UNCHANGED states
  /\ UNCHANGED <<clock, waiting, now, batch, request, telling>>

CheckDone(k) ==
  /\ checkPc[k] = "pick"
  /\ batch[k] = Nobody
  /\ ForgetCheck(k)
  /\ UNCHANGED disturbed

(* The pod dies in the middle of a check.                                  *)
Crash(k) ==
  /\ Crashes
  /\ checkPc[k] # "idle"
  /\ ForgetCheck(k)
  /\ IF checkPc[k] = "record" THEN LetGo(k) ELSE UNCHANGED disturbed

-----------------------------------------------------------------------------
(* A request arrives: TrackAgentMessage or ClearTimeout.  An agent message *)
(* without a timestamp gets the time of its arrival.                       *)
BeginTrack(r, c, stamp) ==
  job' = [job EXCEPT ![r] = [op |-> "track", conv |-> c, stamp |-> stamp,
                             next |-> "first", tries |-> 0]]

BeginClear(r, c) ==
  job' = [job EXCEPT ![r] = [op |-> "clear", conv |-> c, stamp |-> 0,
                             next |-> "first", tries |-> 0]]

BeginRequest(r) ==
  /\ job[r] = NoJob
  /\ begun < MaxRequests
  /\ begun' = begun + 1
  /\ \E c \in Convs : \/ \E s \in Stamps \cup {clock} : BeginTrack(r, c, s)
                      \/ BeginClear(r, c)
  /\ UNCHANGED <<clock, redis, check, history>>

(* The first command of the pipeline: ZADD or ZREM.                        *)
Zadd(c, stamp) ==
  /\ waiting' = [waiting EXCEPT ![c] = stamp]
  /\ late' = [late EXCEPT ![c] = {}]

Zrem(c) == waiting' = [waiting EXCEPT ![c] = Absent] /\ UNCHANGED late

FirstCommand(r) ==
  /\ job[r] # NoJob
  /\ job[r].next = "first"
  /\ \/ job[r].op = "track" /\ Zadd(job[r].conv, job[r].stamp)
     \/ job[r].op = "clear" /\ Zrem(job[r].conv)
     \/ RedisFaults /\ UNCHANGED <<waiting, late>>
  /\ job' = [job EXCEPT ![r].next = "second"]
  /\ UNCHANGED <<clock, states, check, begun, sent, told, disturbed>>

(* The pipeline fails: the client sends all of it again, or gives up.      *)
RetryOrGiveUp(r) ==
  \/ /\ job[r].tries < MaxRetries
     /\ job' = [job EXCEPT ![r].next = "first", ![r].tries = @ + 1]
  \/ job' = [job EXCEPT ![r] = NoJob]

(* The second command of either pipeline: HDEL.  Its reply may be lost.    *)
SecondCommand(r) ==
  /\ job[r] # NoJob
  /\ job[r].next = "second"
  /\ states' = [states EXCEPT ![job[r].conv] = NoState]
  /\ told' = [told EXCEPT ![job[r].conv] = [L \in Levels |-> 0]]
  /\ Calm(job[r].conv)
  /\ \/ job' = [job EXCEPT ![r] = NoJob]
     \/ RedisFaults /\ RetryOrGiveUp(r)
  /\ UNCHANGED <<clock, waiting, check, begun, sent, late>>

(* The connection breaks before the next command is executed.              *)
ConnectionLost(r) ==
  /\ RedisFaults
  /\ job[r] # NoJob
  /\ RetryOrGiveUp(r)
  /\ UNCHANGED <<clock, redis, check, begun, history>>

-----------------------------------------------------------------------------
(* Faulty variant: the level of what is dropped is deleted as well, while  *)
(* a check still has the conversation in its snapshot.                     *)
CleanupLevels ==
  /\ \E c \in Convs : waiting[c] \in 0..(clock - MaxAge)
  /\ waiting' = [c \in Convs |-> IF waiting[c] \in 0..(clock - MaxAge)
                                 THEN Absent ELSE waiting[c]]
  /\ states' = [c \in Convs |-> IF waiting[c] \in 0..(clock - MaxAge)
                                THEN NoState ELSE states[c]]
  /\ UNCHANGED <<clock, check, request, history>>

(* CleanupExpiredConversations, run hourly: ZREMRANGEBYSCORE 0 cutoff.  The*)
(* notification states stay.                                               *)
CleanupExpired ==
  /\ \E c \in Convs : waiting[c] \in 0..(clock - MaxAge)
  /\ waiting' = [c \in Convs |-> IF waiting[c] \in 0..(clock - MaxAge)
                                 THEN Absent ELSE waiting[c]]
  /\ UNCHANGED <<clock, states, check, request, history>>

Tick ==
  /\ clock < MaxTime
  /\ clock' = clock + 1
  /\ UNCHANGED <<redis, check, request, history>>

-----------------------------------------------------------------------------
CheckStep(k) == \/ ReadClock(k) \/ CheckTimeouts(k) \/ CheckDone(k)
                \/ SendNotification(k) \/ UpdateState(k)
                \/ \E c \in Convs : ProcessConversation(k, c)

RequestStep(r) == FirstCommand(r) \/ SecondCommand(r)

Next == \/ \E k \in Checkers : CheckStep(k) \/ Crash(k)
        \/ \E r \in Requests : \/ BeginRequest(r) \/ RequestStep(r)
                               \/ ConnectionLost(r)
        \/ CleanupExpired
        \/ Tick

Spec == Init /\ [][Next]_vars

(* The leader checks again and again, a request that was begun goes on,    *)
(* time passes.  Nobody is obliged to send a request.                      *)
Fairness ==
  /\ WF_vars(Tick)
  /\ \A k \in Checkers : WF_vars(CheckStep(k))
  /\ \A r \in Requests : WF_vars(RequestStep(r))

FairSpec == Spec /\ Fairness

-----------------------------------------------------------------------------
(***************************************************************************)
(* Properties                                                              *)
(***************************************************************************)

(* Every variable stays within the states the code can be in.              *)
TypeOK ==
  /\ clock \in Nat
  /\ waiting \in [Convs -> Nat \cup {Absent}]
  /\ states \in [Convs -> 0..3]
  /\ checkPc \in [Checkers -> PassState]
  /\ now \in [Checkers -> Nat]
  /\ batch \in [Checkers -> [Convs -> Nat \cup {Absent}]]
  /\ note \in [Checkers -> Notes \cup {NoNote}]
  /\ \A k \in Checkers : checkPc[k] \in {"send", "record"} => note[k] \in Notes
  /\ job \in [Requests -> Jobs \cup {NoJob}]
  /\ begun \in Nat
  /\ sent \subseteq Notes
  /\ told \in [Convs -> [Levels -> 0..2]]
  /\ late \in [Convs -> SUBSET Checkers]
  /\ disturbed \subseteq Convs

(* Nobody is told of a timeout early, however stale the snapshot, the      *)
(* level read or the clock of the check: a level L notification is sent    *)
(* more than L intervals after the message it is about.                    *)
NeverEarly ==
  \A n \in sent : clock - n.start > n.level * Interval

(* A level that is recorded has been told: no crash, lost reply or second  *)
(* checker makes the hash claim a notification that never went out.        *)
RecordedWasSent ==
  \A c \in Convs :
    states[c] # NoState =>
      \E n \in sent : n.conv = c /\ n.level = states[c]

(* Once a conversation has left the sorted set (the customer answered),    *)
(* each checker decides on at most one more notification about it, the one *)
(* its snapshot still held: a checker that has told of the conversation    *)
(* since chooses no level for it again, whatever failed meanwhile.         *)
LateOnce ==
  [][\A k \in Checkers :
       checkPc[k] = "pick" /\ checkPc'[k] = "send" =>
         LET c == note'[k].conv IN waiting[c] = Absent => k \notin late[c]]_vars

(* A level told before, or a lower one, is told again within a cycle only  *)
(* after two checks had the conversation in hand at once, or a check told  *)
(* a level and did not record it.  No stale snapshot, lost request, second *)
(* leader or failed read does it, nor a check that dies at another point.  *)
(* In Phase 2 an announcement whose reply is lost, and which is therefore  *)
(* sent again, is a cause as well (see StreamProducer).                    *)
RepeatsHaveACause ==
  [][\A c \in Convs \ disturbed : \A L \in Levels :
       told'[c][L] > told[c][L] =>
         \A M \in Levels : M >= L => told[c][M] = 0]_vars

(* With one checker and no faults, levels are told once and in order: see  *)
(* module Escalation.                                                      *)
Ladder == INSTANCE Escalation

EscalationSpec == Ladder!Spec

(* A conversation that stays tracked by the same message for good reaches  *)
(* the last level in the hash, whichever pods check it in whatever order.  *)
EscalationCompletes ==
  \A c \in Convs : \A s \in 0..(MaxTime - 3 * Interval - 1) :
    <>[](waiting[c] = s) => <>[](states[c] = 3)

-----------------------------------------------------------------------------
(***************************************************************************)
(* What the repository's texts say and the code does not do                *)
(***************************************************************************)

(* scripts/test-multi-leader.sh: "Timeout cycles restart properly when     *)
(* agents send follow-up messages".  An agent message that stays the last  *)
(* one of its conversation is escalated to the last level in the end.      *)
CyclesRestart ==
  \A c \in Convs : \A s \in 0..(MaxTime - 3 * Interval - 1) :
    <>[](waiting[c] = s) =>
      <>([conv |-> c, start |-> s, level |-> 3] \in sent)
=============================================================================

# Timeout tracking with Redis: a TLA+ model, its checks and its proofs

The program watches conversations in which a customer waits for an answer.  An
agent's message starts a wait, the customer's response ends it, and a waiting
conversation is escalated through three levels of notification, one, two and
three timeout intervals after the message.  Several identical *pods* share one
Redis server.  In Phase 1 the pod that is leader checks for timeouts and sends
the notifications itself; in Phase 2 the leader publishes timeout events to a
Redis stream and a consumer group of all pods sends the notifications.

These modules model the coordination: who leads, what a check may do while
requests change the data under it, and what becomes of an event between the
stream and the acknowledgement.  Every Redis command is one atomic step (Redis
runs commands one at a time), and between two commands of one goroutine anything
may happen.

## 1. The system and its parts

| Part | Source | State | Operations | Talks to |
|---|---|---|---|---|
| Leader election | `pkg/phase1/leader.go` 25-177 | Redis key `timeout:leader` with its expiry; `le.isLeader`, `stopCh`, the 5 s ticker | `Start`, `Stop`, `IsLeader`, `tryBecomeLeader`, `renewLeadership`, `resignLeadership` | Redis; its own check loop and IsLeader()'s callers through `le.isLeader` |
| Timeout check | `leader.go` 179-302 | the snapshot being worked through, the level just read | `timeoutCheckLoop`, `checkTimeouts`, `processConversationTimeout`, `sendNotification` | reads `waiting_conversations`, reads and writes `notification_states` |
| Timeout tracking | `pkg/phase1/timeout_manager.go` | sorted set `waiting_conversations`, hash `notification_states` | `TrackAgentMessage`, `ClearTimeout`, `CleanupExpiredConversations`; two getters | called by the HTTP handlers and the hourly cleanup routine |
| Stream producer | `pkg/phase2/stream_producer.go` | stream `timeout_events`, its group | `createConsumerGroup`, `detectAndPublishTimeouts`, `publishTimeoutEvent` | has a leader election of its own, with its check loop |
| Stream consumer | `pkg/phase2/stream_consumer.go` | the group's pending list; the batch in hand | `consumeMessages`, `processMessage`, `acknowledgeMessage`, `processPendingMessages` | the notification service |
| Services, handlers, mains | `pkg/phase[12]/{service,handlers}.go`, `cmd/phase[12]/main.go` | what is running | start, stop, signal, HTTP requests, hourly cleanup | all of the above |
| Redis client, configuration, constants, models, metrics | `pkg/redis`, `pkg/config`, `pkg/constants`, `pkg/models`, `pkg/metrics` | none that changes | set-up | |
| Handlers and server of an earlier version | `pkg/handlers`, `pkg/server` | | used by no program | |

What is hard in it, and what makes each part correct:

* **Leader election.**  Three kinds of goroutine share `le.isLeader` without a
  lock: the election loop, any caller of `IsLeader()` and `Stop()`.  Each acts on
  an answer of Redis that may be out of date: the key may have expired and passed
  to another pod meanwhile.  Commands are retried by the client, so one that was
  executed may be refused the second time.  Correct means: the key is a lease
  (it always runs out, only its owner extends it or gives it up), it finds a new
  owner after a crash, and a pod that lost it stops believing in it.
* **Timeout tracking and check.**  A request is two commands through a pipeline
  that is no transaction; a check takes a snapshot and then reads, notifies and
  records conversation by conversation.  Correct means: no notification is
  early, none is recorded that was not sent, levels rise, are not repeated within
  a cycle and are reached in the end, and a customer who answered is told at most
  once more by each checker.
* **Stream producer.**  The election it starts brings Phase 1's check loop with it,
  so the leader of Phase 2 runs two loops over one hash; its XADD may be sent twice,
  and its detection loop does not end with `Stop`.  Correct means: no failure hides a level
  from the stream, what is announced and recorded is not announced again, and a level is
  announced twice only for a cause that can be named.  (The check loop does hide levels:
  what it records the detection loop skips, see section 6.)
* **Life of a pod.**  The services stop in an order of their own: the leadership
  first, then the HTTP server, the detection loop and the cleanup routine not at all.
  Correct means: a pod leads only on the strength of a key it had, ends its
  leadership once it is stopped, and checks for as long as it leads.
* **Event stream.**  Pods crash with entries in hand, replies and
  acknowledgements are lost, XAUTOCLAIM takes entries from pods that are only
  slow.  Correct means: no event is acknowledged untold, each is told in the end,
  and a second time only for a cause that can be named.

`PROJECT.json` lists the hazards one by one, at their lines, with the property
that would catch each.

## 2. Modules

| Module | Role |
|---|---|
| `Lease` | abstract: a lease that is granted when free, extended or given up by its holder, and runs out |
| `LeaderElection` | the election, `IsLeader()`, `Stop()`, crashes, the expiry of the key |
| `LeaderElectionProofs` | its theorems |
| `Service` | composes the election with its users: the check loop, the worker, the HTTP server, start and stop of a pod |
| `ServiceProofs` | its theorems; extends `LeaderElectionProofs` |
| `Escalation` | abstract: within a cycle each level is told at most once, in rising order |
| `TimeoutTracking` | requests, cleanup and the timeout check on the shared set and hash |
| `TimeoutTrackingProofs` | its theorems |
| `StreamProducer` | extends TimeoutTracking: the detection loop beside the check loop, and the stream they fill |
| `StreamProducerProofs` | its theorems; extends `TimeoutTrackingProofs` |
| `EventDelivery` | abstract: at-least-once delivery |
| `TimeoutStream` | the stream, its consumer group, the read and the recovery loop of each consumer |
| `TimeoutStreamProofs` | its theorems |
| `MCLeaderElection`, `MCService`, `MCTimeoutTracking`, `MCStreamProducer`, `MCTimeoutStream` | the TLC instances, with their symmetry sets |

Operators whose comment begins "Faulty variant" are not used by the
specifications.  Each is a plausible slip in the definition that follows it, and
`PROJECT.json` ("mutants") names the property that finds it.

### LeaderElection

`leaderKey` and `keyTTL` are the Redis key and its remaining life; `isLeader` is
the shared field; `due` and `fired` are the ticker and its channel of capacity one;
`elect`, `ask` and `proc` say where the election loop, each caller of
`IsLeader()` and the main goroutine of a pod are.

* `TryBecomeLeader` is the SET NX with its four outcomes: it succeeds, is refused,
  fails (executed or not), or was executed, lost its reply and is refused when the
  client sends it again.  `WonElection`, `RenewLeadership`, `VerifyLeadership` and
  `LoseLeadership` are the rest of `tryBecomeLeader`, one step per command and per
  access of the field.  The EVALs of `RenewLeadership` and `ResignLeadership`, too, are
  sent again after a lost reply, by when the key may have changed hands.
* `RefusalErrors` says how the client reports a refused SET NX.  go-redis v8
  (`go.mod`: v8.11.5) returns the error `redis.Nil`, so the value that fits the
  program is `{TRUE}`; then the else-branch of `tryBecomeLeader` (125-135) is never
  taken.  The code of that branch was written for a client that returns an empty
  value and no error; safety is checked for either (`{TRUE, FALSE}`).
* `IsLeaderGet`, `IsLeaderFails`/`IsLeaderUpdates`, `IsLeaderReturns` are the three
  places at which another goroutine can get in.  A missing key is an error of GET.
* `Stop`, `StopReadsFlag`, `ResignLeadership`, `Resigned` are `Stop()`.  The loop may
  take one more tick after `stopCh` is closed, since `select` picks at random.
* `Exit` is the end of the process at any point, after `Stop()` or by a crash.
* `ThinksItLeads` are the running pods with the flag up that are `Settled`: they have no
  election attempt, no `IsLeader()` and no `Stop()` under way.
* `Tick` is the passing of time for the key and for the tickers.  It may fall
  anywhere, so a pod may be as slow as it likes; with `Punctual` it waits until
  nothing is left to do, so findings under `Punctual` are not about slow pods.

### TimeoutTracking

`waiting` holds the scores of the sorted set, `states` the levels of the hash;
`checkPc`, `now`, `batch`, `note` are a check in progress, `job` the requests in
progress.  `sent`, `told`, `late` and `disturbed` are history: a conversation is
*disturbed* from the moment at which two checks have it in hand at once (`InHand`: a level
is chosen and not yet recorded), or a check that told a level lets go of it while the hash
does not hold that level (`LetGo`), until an HDEL with no two checks left at it.

* `BeginRequest`, `FirstCommand`, `SecondCommand`, `ConnectionLost` are
  `TrackAgentMessage` (ZADD, HDEL) and `ClearTimeout` (ZREM, HDEL).  A pipeline that
  fails is sent again as a whole up to `MaxRetries` times, or given up.
* `ReadClock` (time.Now), `CheckTimeouts` (ZRANGEBYSCORE up to that time),
  `ProcessConversation` (HGET and the choice of a level), `SendNotification`, `UpdateState`
  (HSET, which fails, or is sent again after a lost reply), `CheckDone` are a check.
  `Crash` is the end of the pod in the middle of one.
* `CleanupExpired` is ZREMRANGEBYSCORE.  It is allowed at any time by anybody; the
  code runs it hourly on the leader.
* `Announce` is the call of the notification service.  The service of the code is a
  stub; with `ServiceFails` it returns an error, having been told or not, and the check
  goes on with the next conversation and records nothing.
* Which pods check is left open here: `Checkers` is the set of loops that may be
  checking at the same time.  More than one is a state the program gets into, as
  `le_one_leader` shows.

### Service

`check` is where the check loop of a pod is, `server` its HTTP server.  Two variables are
history: `owned` are the pods the key has named since they were started, `behind` those
that let the latest tick of the clock pass with a call of `IsLeader()`, or the step from
the won SET NX to the flag, under way.

* `StartService` is `Service.Start`, `Elect` a step of the election, of `Stop()` or of its
  loop, `BeginCheck`, `EndCheck` and `CheckLoopReturns` are `timeoutCheckLoop`, which trusts
  the field `le.isLeader`.  What a check does is TimeoutTracking.
* `Ask` is a call of `IsLeader()`, by the `Worker` (Phase 1's cleanup routine, Phase 2's
  detection loop; it works while its `ask` is "yes") or by a `Handler` (/health and
  /status), which is asked only while the server accepts requests.
* `Shutdown` begins when `leaderElection.Stop()` has returned; `ShutdownReturns` comes when
  the requests in progress are done or after ten seconds, hence at any time.
  `ExitService` is the end of main, or a crash at any point.
* The two phases have the same life: `phase2/service.go` also closes the consumers'
  `stopCh`, which is `Stop` of TimeoutStream.
* `Detailed` are the pods that run this program.  Of the others only the key is
  modelled (`OtherPod`): they may do whatever `Lease` allows.  That is sound because
  pods that run the program do nothing else to the key, which `ServiceImplementsLease`
  proves for every mixture of the two kinds, and it keeps the instances small.

### StreamProducer

It extends TimeoutTracking: `CheckLoops` and `DetectLoops` together are its `Checkers`.
`events` is the stream, `standing` (history) what each loop announced and recorded and no
one has lowered since.

* `DetectTimeouts`, `ProcessDetection`, `CheckDone` and `RecordLevel` are
  `detectAndPublishTimeouts` and `processTimeoutDetection`: the Go code repeats that of the
  Phase 1 check line by line, so the actions are those of TimeoutTracking.
* `PublishTimeoutEvent` is XADD with its outcomes: it succeeds, fails (executed or not), or
  is executed, loses its reply, and is about to be sent again; the loop then stays where it
  is.  Each execution appends an event, and is an announcement that `told` counts.  An
  announcement whose reply was lost counts as a disturbance, so a level published twice by
  the client is a repetition with a cause, not an invisible one.
* `CheckLoopStep` is the Phase 1 check loop in a Phase 2 pod, `Handle` the handlers of
  `phase2/handlers.go`.  Phase 2 has no cleanup routine.
* `TrackingSpec` is the specification that Phase 2 is shown to implement: TimeoutTracking
  and one step more, `AnnounceUnanswered`, the announcement that will be sent again.

### TimeoutStream

`length`, `malformed` are the entries, `delivered` the last id handed to the group,
`idle` the pending list with the idle time of each entry; `runs`, `pc`, `inbox` are
the consumers, with two loops each; `notified` is history.  The owner of a pending
entry is left out: neither XACK nor XAUTOCLAIM, as the code calls them, depends on it.

* `CallReadGroup` begins a blocking XREADGROUP, which returns entries (`ReadGroup`, also
  after `Stop`) or none (`ReadNothing`); `CheckPending` is XPENDING, `AutoClaim` XAUTOCLAIM.
* `SendNotification`, `DiscardMalformed`, `AcknowledgeMessage` are `processMessage`.
  The notification service may report an error after it was told (`ServiceFails`).
* `Stop` closes `stopCh` and waits for nobody, so loops end their batch or lose it
  to `Exit`.
* `slow` (history) are the entries that became `MinIdle` old in the hands of a loop,
  `failed` those the service was told of without an acknowledgement that worked.

## 3. What the runs show

Times are ticks.  In LeaderElection one tick is the 5 s of the election ticker, so
the default TTL of 10 s is 2.  In TimeoutTracking one tick is one timeout interval.
The same holds for Service and StreamProducer, which extend them.
In TimeoutStream `MinIdle` ticks are the minute after which an entry is claimed.

| Run | Properties | Instance | Shows |
|---|---|---|---|
| `le_safety` | `TypeOK`, `HeldKeyExpires`, `OwnerReleases`, `DeadPodsKeyAges`, `LeaseSpec` | 2 pods, 1 caller, failing commands, any speed, either client | the key is a lease, and nobody prolongs that of a dead pod |
| `sv_lifecycle` | `ServiceTypeOK`, `LeadershipEarned`, `VerifiedLeaderHoldsKey`, `DeadPodsLetGo`, `LeaderReelected`, `StaleFlagCleared`, `ChecksGoOn`, `StoppedPodRetires` | 1 pod in detail with a worker and a handler, 1 that keeps to the lease, any speed | leadership is earned, verified, acted upon, lost and given up with the pod |
| `le_one_leader` | `AtMostOneLeader` | 2 punctual pods, no failures | **violated**, see section 6 |
| `le_lease_kept` | `LeaseKept` | 1 punctual pod, no failures | **violated** |
| `tt_faults` | `TypeOK`, `NeverEarly`, `RecordedWasSent`, `LateOnce`, `RepeatsHaveACause` | 2 checkers, 2 requests, 1 retry, failing commands and service, crashes, time to 4 | safety of notifications, whatever fails, and the only causes of a repetition |
| `tt_escalation` | `EscalationSpec` | 1 checker, 2 conversations, 3 requests of which 2 at a time, no failures | the ladder of one cycle |
| `tt_liveness` | `EscalationCompletes` | 2 checkers, 2 requests | a wait that goes on reaches level 3 for good |
| `tt_cycles` | `CyclesRestart` | 1 checker, 2 requests, no failures | **violated** |
| `sp_safety` | `ProducerTypeOK`, `StandingNotRepeated`, `HiddenOnlyByCheckLoop`, `EventsInOrder`, `TrackingSpec`, `RepeatsHaveACause` | 1 check loop, 1 detection loop, 2 requests, 3 events, failures, crashes, time to 3 | the two loops of Phase 2 over one hash; the stream against the hash |
| `sp_duplicates` | `DetectedOnce` | the same two loops, 1 request, no failures | **violated** |
| `ts_delivery` | `TypeOK`, `OneHolder`, `ToldOnce`, `DeliverySpec` | 2 consumers, 2 events in batches of up to 2, all failures, any speed | at-least-once delivery, and the only two causes of a repetition |
| `ts_liveness` | `EventuallyTold` | 2 consumers, 2 events, claims of one entry at a time, stops and crashes | an event a pod took to its grave is recovered |

Why these bounds are enough to be interesting:

* Two pods and a TTL of two ticks: the key expires under a slow pod between any two
  of its steps, is won by the other one, and the first goes on with what it believed.
  The safety properties are proved for any number of pods (section 4).
* `MaxTime` 4 lets level 3 become due (strictly after 3 intervals) for a message at
  time 0, and lets levels be skipped by a late check.  A message carries the time of its
  arrival; `Stamps` {0} in `tt_escalation`, `tt_liveness`, `tt_cycles` and `sp_safety` lets
  it arrive late instead (`tt_faults`, the largest instance, has none).  Two requests
  give a message and a follow-up or a response; three in `tt_escalation` give a message,
  its answer and the next message.  `MaxAge` 3 (24 h in the code) lets the cleanup catch
  conversations that are being escalated.
* One conversation suffices where the property is about one: conversations meet only
  in the snapshot, and `tt_escalation` has two.
* Service has one pod in detail, with all its goroutines, and one other that wins,
  extends and gives up the key at any time.  Commands do not fail there: that is
  `le_safety`.  TTL, ticker and speed are those of `le_safety`, so the flag goes stale
  between any two steps of its users.
* StreamProducer has one check loop and one detection loop: one Phase 2 pod, or one
  loop of each of two pods.  Level 2 becomes due at time 3; three events leave room for
  both levels and an XADD executed twice, or an event of the next cycle.
* `tt_faults` is sharp about its causes: `RepeatsHaveACause` is violated as soon as any one
  of the steps that enter or leave `disturbed` (two checks at once, an error after telling,
  a failed HSET, a crash before the HSET, the HDEL that must find no two checks) no longer
  does so, hence each of them is needed and occurs.
* `EventsInOrder` is put to the test in `sp_safety`: from time 3 on levels 1 and 2 are both
  due for a message at time 0, and between two passes of the detection loop a request may
  delete the level in the hash, or the check loop set it.
* `Count` 2 with 2 events gives batches of one entry and of two in `ts_delivery`.  In
  `ts_liveness` it is 1, so that a claim is cut off while more entries are due, as it is
  with ten in the code.
* `MaxTime`, `MaxRequests` and `MaxEvents` bound the clock, the requests and the
  stream.  `told` and `notified` count up to two, which is all a property asks.

Symmetry is used in runs without liveness only.  Every run checks for deadlock.

### Fairness, and why the code justifies it

* Time passes (`WF` on `Tick`).
* A goroutine that has started a call goes on with it: `WF` on the steps of the
  election loop, of `IsLeader()`, of `Stop()`, of `Shutdown`, of a check, of a request and
  of each consumer loop while its process runs.  The tickers make the loops come back.
* The worker calls `IsLeader()` again and again: every detection period in Phase 2,
  hourly in Phase 1.  The handlers only finish what they have begun.
* A loop that waits in `select` notices a closed `stopCh` in the end, since `select` picks
  at random among the channels that are ready: `SF` on `ElectionEnds` and
  `CheckLoopReturns`.
* The check loop finds the flag up again and again if it is up again and again (`SF` on
  `BeginCheck`): its ticker fires every `CHECK_INTERVAL_MS` (1 s), and a flag that was
  raised is up for several of these periods unless the key is lost.  That is an argument
  about time, not about scheduling, and `ChecksGoOn` rests on it: what the property adds is
  that no goroutine of the pod loses the flag or ends the loop for good.  It does not say
  that only leaders check.
* `StoppedPodRetires` is eventual: within the ten seconds that main leaves to a stopped pod
  it may publish, or even take the key again.
* Nothing obliges a pod to start, stop, crash or recover, nobody to send a request,
  and no Redis command to fail: those have no fairness.  `LeaderReelected` and
  `EventuallyTold` therefore assume that a pod, or all pods, stay up from some time on.
* The liveness runs have no failing commands: a Redis that never answers keeps
  anything from happening.

## 4. What is proved

All theorems hold for every value of the constants that meets the module's
`ASSUME`: any number of pods, conversations and consumers, any TTL (also zero), any
interval, all faults switched on or off.  Every invariant and every action property of the
passing runs, and all four refinements, are theorems.

**`LeaderElectionProofs`**
* `TypeCorrect`, and `KeyAlwaysExpires` by the invariant `KeyInv`: types, *a missing key
  has no expiry* (`NoKeyNoTTL`) and *a held key has one*.  `HeldKeyExpires` says nothing
  when TTL is 0; the refinement holds in that case too, and needs `NoKeyNoTTL` there (a
  grant starts from a free lease).
* `PodStepOnKey` sums up what a pod can do to the key; `OnlyOwnerReleases` and
  `ImplementsLease` follow from it.
* `DeadPodsKeyOnlyAges` by `KeyInv` and `NoLoopWhenDown`: a step on a dead pod's key would
  have to be its own (`PodStepOnKey`), and it has no goroutine left to make one
  (`DownPodLeavesTheKey`).

**`ServiceProofs`**
* `ServiceTypeCorrect`.  `LeadershipIsEarned` by `EarnedInv`: a pod has a reason to take
  itself for the leader (its flag, a SET NX that succeeded, an answer "mine" of GET that is
  not yet applied) only if the key has named it since it was started, and a new process
  starts without a reason.  `ElectionConvinces` and `AskConvinces` say where reasons come
  from.
* `VerifiedLeadersHoldTheKey` by `VerifiedInv`.  The property speaks of callers that were
  told yes.  That is not inductive: the last step of `IsLeader()` reads the shared field,
  which any caller and the election loop may have raised after this caller's GET.  The
  invariant therefore follows each bit of `Evidence` a pod may conclude its leadership
  from: a won SET NX, an answer "mine" before and after it is applied, and the flag *while
  some caller that found another pod in the key is about to read it*.  The flag alone is no
  evidence, for it may be stale (`AtMostOneLeader` is violated).  New evidence needs the
  key in hand (`EvidenceFound`), other pods do not touch it (`EvidenceIsLocal`), a running
  pod loses the key to the clock only (`RunningPodKeepsKey`), and a tick leaves only pods
  without evidence out of `behind`.  `OneVerifiedLeader` follows: the claim that fails for
  the flags holds for those who asked, if they keep pace with the clock.
* `ServiceImplementsLease` by `KeyInv`: it closes the argument for `OtherPod`, and gives
  `ServiceKeyExpires`.  With all pods in detail, `ServiceIsAnElection`: each step is one of
  LeaderElection, whose theorems hold of the services (`ServicePodsRespectTheKey`).

**`TimeoutTrackingProofs`**
* `TypeCorrect`.  `NotificationsNeverEarly` by `DueInv`: also the notification a check is
  about to send is due, and no check's `now` is in the future.  `RecordedLevelsWereSent` by
  `RecordInv`: also a notification about to be recorded has been sent.
  `LateNotificationsAreBounded` by `LateInv`: a checker that sent late about a conversation
  no longer has it in its snapshot, and only a conversation of the snapshot is chosen
  (`ChoiceIsOnTime`).
* `RepeatsAreCaused` by `UndisturbedInv`: for a conversation that is not disturbed,
  `LadderInv` says that at most one check has it in hand, with a level above the one in the
  hash (or equal to it, if its HSET is to be sent again), that nothing at or above a level
  about to be sent has been told, and that what was told is recorded or about to be recorded
  by that check.  Only the last part
  connects the hash, which is all the program looks at, with what was told; it is what a
  crash, a failed HSET or a second check breaks.  `CheckKeepsLadder` shows that a check keeps
  the ladder of what it does not disturb, and `HdelBeginsLadder` that an HDEL with no two
  checks at work establishes it, though one check may still be about to send.
* `ImplementsEscalation`, with `OneReliableChecker` (one checker, no failures): nothing is
  ever disturbed then (`NothingDisturbs`), and the same invariant gives each step of the
  ladder.

**`StreamProducerProofs`**
* `ImplementsTracking`: each step of Phase 2 is one of TimeoutTracking, an
  `AnnounceUnanswered`, or leaves that state alone.  `Phase2KeepsTheRules`: the invariants
  of TimeoutTrackingProofs survive `AnnounceUnanswered` as well (`TrackingInv`), so nothing
  is announced early, nothing recorded unannounced, late decisions are bounded, and a level
  is announced again within a cycle only for one of *three* causes, the third being an XADD
  without a reply.  The ladder of Phase 1 does not carry over: a pod of Phase 2 always runs
  two loops (`sp_duplicates`).
* `ProducerTypeCorrect`.  `StandingLevelsNotRepeated` by `StandingInv`: a standing level is
  not above the one in the hash, and the level a loop has chosen is above what it has
  standing.
* `OnlyCheckLoopsHide` by `HiddenInv`: every level in the hash stands as the record of some
  loop (`RecordsStand`), and what a detection loop is about to record, or has standing, is in
  the stream (`DetectedIsPublished`).  It does not say that the consumers hear of every
  level in the hash; they do not.
* `EventsRise` by `OrderInv`.  The hash cannot carry this proof, since requests and the other
  loop reset and lower it at any time.  The clock does: what a loop publishes is the
  *highest* level that was due when its pass began, every event in the stream was due by
  then, and a level that was due stays due (`DueLater`), so no later event about the same
  message is lower.

**`TimeoutStreamProofs`**
* `TypeCorrect`.  `ImplementsDelivery` by `HoldInv`: what a loop holds was delivered, and
  what it is about to acknowledge was told or is unreadable.  `HandedOutOnce` by `YoungInv`:
  an entry in somebody's hands is younger than `MinIdle` or in `slow`.
  `OnceUnlessSlowOrUnacknowledged` by `OnceInv`: an entry that was told and is still pending
  is about to be acknowledged, or is in `slow` or `failed`.

Only model-checked: all liveness (`DeadPodsLetGo`, `LeaderReelected`, `StaleFlagCleared`,
`ChecksGoOn`, `StoppedPodRetires`, `EscalationCompletes`, `EventuallyTold`), because the
prover handles neither fairness nor `ENABLED` here, and the violations, which are
counterexamples.

## 5. Plan

Done, in this order: the election, timeout tracking and the stream with their
abstract specifications; the life of a pod around the election; the producer of
Phase 2; the theorems of section 4.  What could follow:

1. The stream of StreamProducer as the input of TimeoutStream, in one module: the
   Phase 2 system from message to acknowledgement implements an abstract escalation with
   at-least-once telling.  The two halves meet only in the stream, and both are
   specified at it: what the first puts there, and what the second does with it.
2. An instance with TTL 0, where the flag stays up without a key.  The lease theorems
   cover it.
3. Several requests at a time in the liveness and fault instances.

## 6. Where the code departs from its own texts

* `le_one_leader`: `scripts/test-multi-leader.sh:393` claims only one leader at any
  time.  A pod wins; at its next tick its own key refuses its SET NX, go-redis reports
  `redis.Nil`, and `tryBecomeLeader` returns (`leader.go:112`) with the flag up.  The key
  expires, another pod wins, the first is refused again and again keeps its flag.  Both pods
  are running, nobody is in the middle of anything, and both take themselves for the leader.
  Only a call of `IsLeader()` lowers the flag, and the Phase 1 check loop does not make
  one.  With `RefusalErrors` {FALSE}, a client that reports a refusal without an error,
  the property holds in this instance: the else-branch (125-135) does what it is for.
* `le_lease_kept`: `leader.go:123` and `:139` speak of renewing the leadership and
  extending the TTL.  `renewLeadership` is reached only after a SET NX that succeeded,
  so the key of a healthy leader runs out after each TTL.
* `tt_cycles`: `scripts/test-multi-leader.sh:400` claims that cycles restart with a
  follow-up message.  If the message falls between a check's HGET and its HSET, the
  HSET writes the level of the old cycle over the reset, and the new cycle is told
  only the levels above it, or none.
* `sp_duplicates`: `stream_producer.go:166` records the level "to prevent duplicate
  detection", and `README.md:137` says of the hash that it "Prevents duplicate
  notifications".  `StreamProducer.Start` starts the election, whose `Start` also starts
  Phase 1's check loop; the two loops of one leader read the same level before either
  records, and both announce the next one, one to the service and one to the stream.

Three more places, which have no run of their own:

* `timeout_manager.go:42` and `:77` say "Use Redis pipeline for atomic operations".
  `Pipeline()` is not `TxPipeline()`: the two commands are sent together, but others may run
  between them, and one may be executed without the other.  `FirstCommand` and
  `SecondCommand` are therefore two steps.
* `leader.go:46` says "Try to become leader immediately".  The loop it starts waits for its
  ticker first, so the first attempt comes an election interval (5 s) later.
* What the check loop of a Phase 2 pod records (`leader.go:266`) the detection loop takes
  for published and skips (`stream_producer.go:151`): the consumers never hear of that
  level.  `HiddenOnlyByCheckLoop` says that nothing else hides a level from them.

## 7. What is not modelled

* Clocks that differ between pods: all timestamps come from one clock.
* A command that is executed long after its client gave up on it.
* The order of members with equal scores in the snapshot (either order is allowed), the
  texts of notifications, JSON, HTTP routing, logging, metrics, configuration.
* Failures of Redis itself: it does not crash and loses nothing it has executed.
* `le.isLeader` as a data race of the Go memory model: reads and writes of a
  boolean are atomic steps in any order the interleaving gives.
* In TimeoutTracking and StreamProducer, that only leaders check: any loop may run at
  any time, which is more than the program does.  Service shows when a loop runs.
* A `Start` that fails half way ends the program (`logger.Fatal`); it is a crash.
* A customer's response that arrives late clears the tracking of a newer message.  The
  code ignores the timestamp of a response, and no text says which of the two should win.
* `pkg/handlers` and `pkg/server`, which no program uses.

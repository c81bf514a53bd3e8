------------------------ MODULE LeaderElectionProofs ------------------------
(***************************************************************************)
(* Theorems about LeaderElection, for any number of pods and callers, any  *)
(* TTL and election interval, with or without Redis faults.                *)
(***************************************************************************)
EXTENDS LeaderElection, TLAPS

(* The initial states are well typed.                                      *)
LEMMA InitTypeOK == Init => TypeOK
BY LeaderElectionAssumption
   DEF Init, TypeOK, ElectState, AskState, ProcState

(* The election loop keeps the types.                                      *)
LEMMA ElectionTypeOK ==
  ASSUME TypeOK, NEW p \in Pods, ElectionStep(p) PROVE TypeOK'
<1>a. TTL \in Nat /\ ElectionInterval \in Nat \ {0}
  BY LeaderElectionAssumption, Zenon
<1>b. Refused(p) => Goto(p, "idle") \/ Goto(p, "beaten")
  BY Zenon DEF Refused
<1> USE <1>a
        DEF TypeOK, ElectState, redis, ticker, Goto, SetKey, DropKey
<1>1. CASE TryBecomeLeader(p)
  <2>1. PICK s \in ElectState : Goto(p, s)
    BY <1>1, <1>b DEF TryBecomeLeader, SetNXSucceeds, SetNXRefused,
                      SetNXFails, SetNXRetried
  <2>2. elect' \in [Pods -> ElectState]
    BY <2>1
  <2>3. UNCHANGED redis \/ SetKey(p)
    BY <1>1 DEF TryBecomeLeader, SetNXSucceeds, SetNXRefused, SetNXFails,
                SetNXRetried
  <2>4. /\ fired' = [fired EXCEPT ![p] = FALSE]
        /\ UNCHANGED <<isLeader, due, ask, proc>>
    BY <1>1, Zenon DEF TryBecomeLeader, Receive
  <2>5. fired' \in [Pods -> BOOLEAN]
    BY <2>4, Zenon
  <2> HIDE DEF ElectState
  <2> QED
    BY <2>2, <2>3, <2>4, <2>5
<1>2. CASE WonElection(p)
  BY <1>2 DEF WonElection, SetFlag
<1>3. CASE RenewLeadership(p)
  BY <1>3 DEF RenewLeadership, ExtendKey
<1>4. CASE VerifyLeadership(p)
  <2>1. PICK s \in ElectState : Goto(p, s)
    BY <1>4 DEF VerifyLeadership
  <2> QED
    BY <1>4, <2>1 DEF VerifyLeadership
<1>5. CASE LoseLeadership(p)
  BY <1>5 DEF LoseLeadership, SetFlag
<1>6. CASE ElectionLoopReturns(p)
  BY <1>6 DEF ElectionLoopReturns
<1> QED
  BY <1>1, <1>2, <1>3, <1>4, <1>5, <1>6 DEF ElectionStep

(* IsLeader() keeps the types.                                             *)
LEMMA AskTypeOK ==
  ASSUME TypeOK, NEW p \in Pods, NEW c \in Callers, AskStep(p, c)
  PROVE  TypeOK'
<1> USE DEF TypeOK, redis, ticker
<1>1. ASSUME NEW s \in AskState, Answer(p, c, s)
      PROVE  ask' \in [Pods -> [Callers -> AskState]]
  BY <1>1 DEF Answer
<1>2. /\ "idle" \in AskState /\ "mine" \in AskState /\ "other" \in AskState
      /\ "failed" \in AskState /\ "yes" \in AskState
      /\ "mineSet" \in AskState /\ "otherSet" \in AskState
  BY DEF AskState
<1>3. ASSUME NEW b \in BOOLEAN, SetFlag(p, b)
      PROVE  isLeader' \in [Pods -> BOOLEAN]
  BY <1>3 DEF SetFlag
<1>4. CASE IsLeaderGet(p, c)
  BY <1>1, <1>2, <1>4 DEF IsLeaderGet
<1>5. CASE IsLeaderFails(p, c)
  BY <1>1, <1>2, <1>3, <1>5 DEF IsLeaderFails
<1>6. CASE IsLeaderUpdates(p, c)
  BY <1>1, <1>2, <1>3, <1>6 DEF IsLeaderUpdates
<1>7. CASE IsLeaderReturns(p, c)
  BY <1>1, <1>2, <1>7 DEF IsLeaderReturns
<1>8. CASE LeaderWorkDone(p, c)
  BY <1>1, <1>2, <1>8 DEF LeaderWorkDone
<1> QED
  BY <1>4, <1>5, <1>6, <1>7, <1>8 DEF AskStep

(* Starting, stopping and dying keep the types.                            *)
LEMMA ProcTypeOK ==
  ASSUME TypeOK, NEW p \in Pods,
         Start(p) \/ Stop(p) \/ StopStep(p) \/ Exit(p)
  PROVE  TypeOK'
<1> USE LeaderElectionAssumption
        DEF TypeOK, ProcState, redis, ticker, Proceed
<1>1. CASE Start(p)
  BY <1>1 DEF Start, Goto, ElectState
<1>2. CASE Stop(p)
  BY <1>2 DEF Stop
<1>3. CASE StopReadsFlag(p)
  BY <1>3 DEF StopReadsFlag
<1>4. CASE ResignLeadership(p)
  BY <1>4 DEF ResignLeadership, DropKey
<1>5. CASE Resigned(p)
  BY <1>5 DEF Resigned, SetFlag
<1>6. CASE Exit(p)
  BY <1>6 DEF Exit, SetFlag, Goto, ElectState, AskState
<1> QED
  BY <1>1, <1>2, <1>3, <1>4, <1>5, <1>6 DEF StopStep

(* The passing of time keeps the types.                                    *)
LEMMA TickTypeOK == TypeOK /\ Tick => TypeOK'
<1> SUFFICES ASSUME TypeOK, Tick PROVE TypeOK'
  OBVIOUS
<1> USE LeaderElectionAssumption DEF TypeOK, Tick
<1>1. leaderKey' \in Pods \cup {NoPod} /\ keyTTL' \in 0..TTL
  BY DEF AgeKey, DropKey
<1>2. due' \in [Pods -> 1..ElectionInterval]
  BY DEF Fires
<1>3. fired' \in [Pods -> BOOLEAN]
  BY DEF Fires
<1> QED
  BY <1>1, <1>2, <1>3

(* Type correctness.                                                       *)
THEOREM TypeCorrect == Spec => []TypeOK
<1>1. Init => TypeOK
  BY InitTypeOK
<1>2. TypeOK /\ [Next]_vars => TypeOK'
  <2> SUFFICES ASSUME TypeOK, [Next]_vars PROVE TypeOK'
    OBVIOUS
  <2>1. CASE Tick
    BY <2>1, TickTypeOK
  <2>2. ASSUME NEW p \in Pods, PodStep(p) PROVE TypeOK'
    BY <2>2, ElectionTypeOK, AskTypeOK, ProcTypeOK DEF PodStep
  <2>3. CASE UNCHANGED vars
    BY <2>3 DEF vars, TypeOK
  <2> QED
    BY <2>1, <2>2, <2>3 DEF Next
<1> QED
  BY <1>1, <1>2, PTL DEF Spec

-----------------------------------------------------------------------------
(* What a step can do to the key: nothing, or one of the lease's actions.  *)
(* NoKeyNoTTL is what the lease needs of the state before it.              *)
NoKeyNoTTL == leaderKey = NoPod => keyTTL = 0

(* The two facts about the key that are kept together.                     *)
KeyInv == TypeOK /\ NoKeyNoTTL /\ HeldKeyExpires

(* A pod's step on the key, by the command it carries out.                 *)
LEMMA PodStepOnKey ==
  ASSUME NEW p \in Pods, PodStep(p)
  PROVE  \/ UNCHANGED redis
         \/ leaderKey = NoPod /\ SetKey(p)
         \/ leaderKey = p /\ TTL # 0 /\ SetKey(p)
         \/ /\ leaderKey = p
            /\ DropKey
            /\ \/ TTL = 0 /\ elect[p] = "renew"
               \/ proc[p] = "resigning"
<1>1. CASE TryBecomeLeader(p)
  BY <1>1 DEF TryBecomeLeader, SetNXSucceeds, SetNXRefused, SetNXFails,
              SetNXRetried
<1>2. CASE RenewLeadership(p)
  BY <1>2 DEF RenewLeadership, ExtendKey
<1>3. CASE ResignLeadership(p)
  BY <1>3 DEF ResignLeadership
<1>4. CASE \/ WonElection(p) \/ VerifyLeadership(p) \/ LoseLeadership(p)
           \/ ElectionLoopReturns(p)
  BY <1>4 DEF WonElection, VerifyLeadership, LoseLeadership,
              ElectionLoopReturns
<1>5. ASSUME NEW c \in Callers, AskStep(p, c) PROVE UNCHANGED redis
  BY <1>5 DEF AskStep, IsLeaderGet, IsLeaderFails, IsLeaderUpdates,
              IsLeaderReturns, LeaderWorkDone
<1>6. CASE Start(p) \/ Stop(p) \/ Exit(p) \/ StopReadsFlag(p) \/ Resigned(p)
  BY <1>6 DEF Start, Stop, Exit, StopReadsFlag, Resigned
<1> QED
  BY <1>1, <1>2, <1>3, <1>4, <1>5, <1>6
     DEF PodStep, ElectionStep, StopStep

(* KeyInv is inductive.                                                    *)
LEMMA KeyInvInductive == KeyInv /\ TypeOK' /\ [Next]_vars => KeyInv'
<1> SUFFICES ASSUME KeyInv, TypeOK', [Next]_vars
             PROVE  NoKeyNoTTL' /\ HeldKeyExpires'
  BY DEF KeyInv
<1> USE LeaderElectionAssumption DEF KeyInv, NoKeyNoTTL, HeldKeyExpires, TypeOK
<1>1. CASE Tick
  BY <1>1 DEF Tick, AgeKey, DropKey
<1>2. ASSUME NEW p \in Pods, PodStep(p)
      PROVE  NoKeyNoTTL' /\ HeldKeyExpires'
  BY <1>2, PodStepOnKey DEF redis, SetKey, DropKey
<1>3. CASE UNCHANGED vars
  BY <1>3 DEF vars
<1> QED
  BY <1>1, <1>2, <1>3 DEF Next

LEMMA KeyInvariant == Spec => []KeyInv
<1>1. Init => KeyInv
  BY InitTypeOK DEF Init, KeyInv, NoKeyNoTTL, HeldKeyExpires
<1> QED
  BY <1>1, TypeCorrect, KeyInvInductive, PTL DEF Spec

(* Under every interleaving of pods, lost replies, retries and crashes, a  *)
(* leader key that exists has an expiry.                                   *)
THEOREM KeyAlwaysExpires == Spec => []HeldKeyExpires
<1>1. KeyInv => HeldKeyExpires
  BY DEF KeyInv
<1> QED
  BY <1>1, KeyInvariant, PTL

(* No pod takes the key away from another.                                 *)
THEOREM OnlyOwnerReleases == Spec => OwnerReleases
<1>1. KeyInv /\ [Next]_vars =>
        [\A p \in Pods :
           leaderKey = p /\ leaderKey' # p =>
             \/ keyTTL = 1
             \/ proc[p] = "resigning"
             \/ TTL = 0 /\ elect[p] = "renew"]_vars
  <2> SUFFICES ASSUME [Next]_vars, NEW p \in Pods,
                      leaderKey = p, leaderKey' # p
               PROVE  \/ keyTTL = 1
                      \/ proc[p] = "resigning"
                      \/ TTL = 0 /\ elect[p] = "renew"
    OBVIOUS
  <2>1. CASE Tick
    BY <2>1 DEF Tick, AgeKey
  <2>2. ASSUME NEW q \in Pods, PodStep(q)
        PROVE  \/ proc[p] = "resigning"
               \/ TTL = 0 /\ elect[p] = "renew"
    BY <2>2, PodStepOnKey, LeaderElectionAssumption DEF redis, SetKey
  <2>3. CASE UNCHANGED vars
    BY <2>3 DEF vars
  <2> QED
    BY <2>1, <2>2, <2>3 DEF Next
<1> QED
  BY <1>1, KeyInvariant, PTL DEF Spec, OwnerReleases

(* Each step of the election is one of the lease, or leaves the key alone. *)
LEMMA LeaseStep == KeyInv /\ [Next]_vars => [KeyLease!Next]_(KeyLease!vars)
<1> SUFFICES ASSUME KeyInv, [Next]_vars
             PROVE  KeyLease!Next \/ UNCHANGED KeyLease!vars
  OBVIOUS
<1> USE DEF KeyLease!vars, KeyLease!Free
<1>1. CASE Tick
  <2>1. CASE keyTTL = 0
    BY <1>1, <2>1 DEF Tick, AgeKey
  <2>2. CASE keyTTL = 1
    BY <1>1, <2>2 DEF Tick, AgeKey, DropKey, KeyLease!Next, KeyLease!Expire
  <2>3. CASE keyTTL > 1
    BY <1>1, <2>3 DEF Tick, AgeKey, KeyLease!Next, KeyLease!Age
  <2> QED
    BY <2>1, <2>2, <2>3, LeaderElectionAssumption DEF KeyInv, TypeOK
<1>2. ASSUME NEW p \in Pods, PodStep(p)
      PROVE  KeyLease!Next \/ UNCHANGED KeyLease!vars
  BY <1>2, PodStepOnKey
     DEF redis, SetKey, DropKey, KeyLease!Next, KeyLease!Grant,
         KeyLease!Extend, KeyLease!Release
<1>3. CASE UNCHANGED vars
  BY <1>3 DEF vars
<1> QED
  BY <1>1, <1>2, <1>3 DEF Next

(* The election implements the lease.                                      *)
THEOREM ImplementsLease == Spec => LeaseSpec
<1>1. Init => KeyLease!Init
  BY DEF Init, KeyLease!Init, KeyLease!Free
<1> QED
  BY <1>1, LeaseStep, KeyInvariant, PTL DEF Spec, LeaseSpec, KeyLease!Spec
-----------------------------------------------------------------------------
(* The key of a dead pod                                                   *)

(* A pod that is down has no election loop.                                *)
NoLoopWhenDown == \A p \in Pods : proc[p] = "down" => elect[p] = "off"

LEMMA NoLoopWhenDownInductive ==
  ASSUME TypeOK, NoLoopWhenDown, [Next]_vars
  PROVE  NoLoopWhenDown'
<1> SUFFICES ASSUME NEW p \in Pods, proc'[p] = "down"
             PROVE  elect'[p] = "off"
  BY DEF NoLoopWhenDown
<1>1. CASE UNCHANGED <<elect, proc>>
  BY <1>1 DEF NoLoopWhenDown
<1>2. CASE Tick
  BY <1>1, <1>2 DEF Tick
<1>3. ASSUME NEW q \in Pods, PodStep(q) PROVE elect'[p] = "off"
  <2> USE DEF TypeOK, NoLoopWhenDown, Proceed, Goto
  <2>1. CASE Start(q)
    BY <1>3, <2>1 DEF Start
  <2>2. CASE Exit(q)
    BY <1>3, <2>2 DEF Exit
  <2>3. CASE Stop(q) \/ StopStep(q)
    BY <1>3, <2>3 DEF Stop, StopStep, StopReadsFlag, ResignLeadership,
                      Resigned
  <2>4. CASE ElectionStep(q)
    <3>1. elect[q] # "off" /\ proc' = proc
      BY <2>4 DEF ElectionStep, TryBecomeLeader, Receive, WonElection,
                  RenewLeadership, VerifyLeadership, LoseLeadership,
                  ElectionLoopReturns
    <3>2. PICK s : elect' = [elect EXCEPT ![q] = s]
      BY <2>4 DEF ElectionStep, TryBecomeLeader, SetNXSucceeds, SetNXRefused,
                  SetNXFails, SetNXRetried, Refused, WonElection,
                  RenewLeadership, VerifyLeadership, LoseLeadership,
                  ElectionLoopReturns
    <3> QED
      BY <1>3, <3>1, <3>2
  <2>5. ASSUME NEW c \in Callers, AskStep(q, c) PROVE UNCHANGED <<elect, proc>>
    BY <2>5 DEF AskStep, IsLeaderGet, IsLeaderFails, IsLeaderUpdates,
                IsLeaderReturns, LeaderWorkDone
  <2> QED
    BY <1>1, <1>3, <2>1, <2>2, <2>3, <2>4, <2>5 DEF PodStep
<1> QED
  BY <1>1, <1>2, <1>3 DEF Next, vars

LEMMA NoLoopWhenDownInvariant == Spec => []NoLoopWhenDown
<1>1. Init => NoLoopWhenDown
  BY DEF Init, NoLoopWhenDown
<1> QED
  BY <1>1, TypeCorrect, NoLoopWhenDownInductive, PTL DEF Spec

(* A pod that is down sends no command: all it can do is start.            *)
LEMMA DownPodLeavesTheKey ==
  ASSUME NEW p \in Pods, PodStep(p), proc[p] = "down", elect[p] = "off"
  PROVE  UNCHANGED redis
<1>1. ~ElectionStep(p)
  BY DEF ElectionStep, TryBecomeLeader, Receive, WonElection, RenewLeadership,
         VerifyLeadership, LoseLeadership, ElectionLoopReturns
<1>2. ~StopStep(p) /\ ~Stop(p) /\ ~Exit(p)
  BY DEF StopStep, StopReadsFlag, ResignLeadership, Resigned, Stop, Exit
<1>3. ASSUME NEW c \in Callers, AskStep(p, c) PROVE UNCHANGED redis
  BY <1>3 DEF AskStep, IsLeaderGet, IsLeaderFails, IsLeaderUpdates,
              IsLeaderReturns, LeaderWorkDone
<1> QED
  BY <1>1, <1>2, <1>3 DEF PodStep, Start

(* A step of the election only ages the key of a pod that is down.         *)
LEMMA StepAgesDeadPodsKey ==
  ASSUME KeyInv, NoLoopWhenDown, [Next]_vars, TTL > 0,
         NEW p \in Pods, leaderKey = p, proc[p] = "down"
  PROVE  IF leaderKey' = p THEN keyTTL' <= keyTTL ELSE keyTTL = 1
<1>a. NoPod \notin Pods /\ keyTTL \in Nat /\ keyTTL > 0
  BY LeaderElectionAssumption DEF KeyInv, TypeOK, HeldKeyExpires
<1>1. CASE UNCHANGED redis
  BY <1>a, <1>1 DEF redis
<1>2. CASE Tick
  BY <1>a, <1>2 DEF Tick, AgeKey, DropKey
<1>3. ASSUME NEW q \in Pods, PodStep(q) PROVE UNCHANGED redis
  <2>1. CASE q = p
    BY <1>3, <2>1, DownPodLeavesTheKey DEF NoLoopWhenDown
  <2>2. CASE q # p
    BY <1>a, <1>3, <2>2, PodStepOnKey
  <2> QED
    BY <2>1, <2>2
<1> QED
  BY <1>1, <1>2, <1>3 DEF Next, vars, redis

(* A crash costs the others at most the rest of the dead pod's lease: no   *)
(* command of theirs, however late it is executed, prolongs it.            *)
THEOREM DeadPodsKeyOnlyAges == Spec => DeadPodsKeyAges
<1>1. KeyInv /\ NoLoopWhenDown /\ [Next]_vars =>
        [\A p \in Pods :
           TTL > 0 /\ leaderKey = p /\ proc[p] = "down" =>
             IF leaderKey' = p THEN keyTTL' <= keyTTL ELSE keyTTL = 1]_vars
  BY StepAgesDeadPodsKey
<1> QED
  BY <1>1, KeyInvariant, NoLoopWhenDownInvariant, PTL
     DEF Spec, DeadPodsKeyAges
=============================================================================

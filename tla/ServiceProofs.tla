---------------------------- MODULE ServiceProofs ----------------------------
(***************************************************************************)
(* Theorems about Service, for any number of pods, of which any may be     *)
(* modelled in detail, any TTL and with or without Redis faults.           *)
(***************************************************************************)
EXTENDS Service, LeaderElectionProofs

-----------------------------------------------------------------------------
(* Type correctness                                                        *)

(* The pods that are not modelled in detail keep the types.                *)
LEMMA OtherPodTypeOK ==
  ASSUME ServiceTypeOK, NEW q \in Pods \ Detailed, OtherPod(q)
  PROVE  ServiceTypeOK'
<1>1. leaderKey' \in Pods \cup {NoPod} /\ keyTTL' \in 0..TTL
  BY LeaderElectionAssumption
     DEF OtherPod, KeyLease!Grant, KeyLease!Extend, KeyLease!Release,
         ServiceTypeOK, TypeOK
<1>2. owned' \subseteq Pods
  BY <1>1 DEF OtherPod, NoteOwner, ServiceTypeOK
<1> QED
  BY <1>1, <1>2 DEF OtherPod, NoteOwner, ServiceTypeOK, TypeOK, ticker

(* So does the program of a pod.                                           *)
LEMMA DetailedPodTypeOK ==
  ASSUME ServiceTypeOK, NEW p \in Detailed, DetailedPod(p)
  PROVE  ServiceTypeOK'
<1>a. p \in Pods
  BY ServiceAssumption
<1>b. TypeOK
  BY DEF ServiceTypeOK
<1>1. CASE StartService(p)
  <2>1. TypeOK'
    BY <1>1, <1>a, <1>b, ProcTypeOK DEF StartService
  <2> QED
    BY <1>1, <1>a, <2>1
       DEF StartService, CheckLoop, HTTPServer, ServiceTypeOK
<1>2. CASE ExitService(p)
  <2>1. TypeOK'
    BY <1>2, <1>a, <1>b, ProcTypeOK DEF ExitService
  <2> QED
    BY <1>2, <2>1 DEF ExitService, CheckLoop, HTTPServer, ServiceTypeOK, past
<1>3. CASE Elect(p)
  <2>1. TypeOK'
    BY <1>3, <1>a, <1>b, ElectionTypeOK, ProcTypeOK DEF Elect
  <2>2. owned' \subseteq Pods
    BY <1>3, <2>1 DEF Elect, NoteOwner, ServiceTypeOK, TypeOK
  <2> QED
    BY <1>3, <2>1, <2>2 DEF Elect, NoteOwner, ServiceTypeOK
<1>4. ASSUME NEW c \in Callers, Ask(p, c) PROVE ServiceTypeOK'
  <2>1. TypeOK'
    BY <1>4, <1>a, <1>b, AskTypeOK DEF Ask
  <2> QED
    BY <1>4, <2>1 DEF Ask, ServiceTypeOK, past
<1>5. CASE \/ BeginCheck(p) \/ EndCheck(p) \/ CheckLoopReturns(p)
           \/ Shutdown(p) \/ ShutdownReturns(p)
  <2>1. UNCHANGED vars /\ UNCHANGED past
    BY <1>5 DEF BeginCheck, EndCheck, CheckLoopReturns, Shutdown,
                ShutdownReturns
  <2>2. TypeOK'
    BY <1>b, <2>1 DEF TypeOK, vars
  <2>3. /\ check' \in [Pods -> {"off", "idle", "busy"}]
        /\ server' \in [Pods -> {"off", "serving", "draining"}]
    BY <1>5 DEF BeginCheck, EndCheck, CheckLoopReturns, Shutdown,
                ShutdownReturns, CheckLoop, HTTPServer, ServiceTypeOK
  <2> QED
    BY <2>1, <2>2, <2>3 DEF ServiceTypeOK, past
<1> QED
  BY <1>1, <1>2, <1>3, <1>4, <1>5 DEF DetailedPod

(* The goroutines of a pod and the key stay in the states the code knows,  *)
(* however the pod starts, stops and dies and whatever the others do.      *)
THEOREM ServiceTypeCorrect == ServiceSpec => []ServiceTypeOK
<1>1. ServiceInit => ServiceTypeOK
  BY InitTypeOK DEF ServiceInit, ServiceTypeOK
<1>2. ServiceTypeOK /\ [ServiceNext]_serviceVars => ServiceTypeOK'
  <2> SUFFICES ASSUME ServiceTypeOK, [ServiceNext]_serviceVars
               PROVE  ServiceTypeOK'
    OBVIOUS
  <2>1. CASE Time
    <3>1. TypeOK'
      BY <2>1, TickTypeOK DEF Time, ServiceTypeOK
    <3> QED
      BY <2>1, <3>1 DEF Time, ServiceTypeOK
  <2>2. CASE UNCHANGED serviceVars
    BY <2>2 DEF serviceVars, ServiceTypeOK, TypeOK
  <2> QED
    BY <2>1, <2>2, OtherPodTypeOK, DetailedPodTypeOK DEF ServiceNext
<1> QED
  BY <1>1, <1>2, PTL DEF ServiceSpec

-----------------------------------------------------------------------------
(* Leadership is earned                                                    *)

(* What a pod takes for a sign that it leads.                              *)
Convinced(p) ==
  \/ isLeader[p] = TRUE
  \/ elect[p] = "won"
  \/ \E c \in Callers : ask[p][c] \in {"mine", "yes"}

(* The key names only pods that have owned it, a pod is convinced only if  *)
(* it has owned the key, and a new process starts without a conviction.    *)
EarnedInv ==
  /\ leaderKey \in owned \cup {NoPod}
  /\ \A p \in Pods : Convinced(p) => p \in owned
  /\ \A p \in Pods :
       proc[p] = "down" =>
         /\ isLeader[p] = FALSE
         /\ elect[p] = "off"
         /\ \A c \in Callers : ask[p][c] = "idle"

(* The election convinces a pod only with the key in its hands.            *)
LEMMA ElectionConvinces ==
  ASSUME TypeOK, NEW p \in Pods,
         ElectionStep(p) \/ Stop(p) \/ StopStep(p)
  PROVE  /\ Convinced(p)' => Convinced(p) \/ leaderKey' = p
         /\ proc'[p] = "down" => proc[p] = "down"
         /\ elect[p] = "off" => elect'[p] = "off" /\ isLeader'[p] \in {isLeader[p], FALSE}
         /\ ask' = ask
         /\ \A q \in Pods \ {p} : /\ isLeader'[q] = isLeader[q]
                                 /\ elect'[q] = elect[q]
                                 /\ proc'[q] = proc[q]
<1> USE DEF TypeOK, Convinced, Goto, SetFlag, Proceed
<1>1. CASE TryBecomeLeader(p)
  <2>1. elect'[p] = "won" => leaderKey' = p
    BY <1>1 DEF TryBecomeLeader, SetNXSucceeds, SetNXRefused, SetNXFails,
                SetNXRetried, Refused, SetKey
  <2>2. UNCHANGED <<isLeader, ask, proc>>
    BY <1>1 DEF TryBecomeLeader
  <2>3. elect[p] # "off" /\ \A q \in Pods \ {p} : elect'[q] = elect[q]
    BY <1>1 DEF TryBecomeLeader, Receive, SetNXSucceeds, SetNXRefused,
                SetNXFails, SetNXRetried, Refused
  <2> QED
    BY <2>1, <2>2, <2>3
<1>2. CASE WonElection(p) \/ LoseLeadership(p)
  BY <1>2 DEF WonElection, LoseLeadership
<1>3. CASE RenewLeadership(p) \/ VerifyLeadership(p) \/ ElectionLoopReturns(p)
  <2>1. UNCHANGED <<isLeader, ask, proc>> /\ elect[p] # "off" /\ elect'[p] # "won"
    BY <1>3 DEF RenewLeadership, VerifyLeadership, ElectionLoopReturns
  <2>2. \A q \in Pods \ {p} : elect'[q] = elect[q]
    BY <1>3 DEF RenewLeadership, VerifyLeadership, ElectionLoopReturns
  <2> QED
    BY <2>1, <2>2
<1>4. CASE Stop(p) \/ StopReadsFlag(p) \/ ResignLeadership(p)
  <2>1. UNCHANGED <<isLeader, elect, ask>> /\ proc[p] # "down"
    BY <1>4 DEF Stop, StopReadsFlag, ResignLeadership
  <2>2. proc'[p] # "down" /\ \A q \in Pods \ {p} : proc'[q] = proc[q]
    BY <1>4 DEF Stop, StopReadsFlag, ResignLeadership
  <2> QED
    BY <2>1, <2>2
<1>5. CASE Resigned(p)
  BY <1>5 DEF Resigned
<1> QED
  BY <1>1, <1>2, <1>3, <1>4, <1>5 DEF ElectionStep, StopStep

(* IsLeader() convinces a pod only if it finds the key in its hands.       *)
LEMMA AskConvinces ==
  ASSUME TypeOK, NEW p \in Pods, NEW c \in Callers, AskStep(p, c)
  PROVE  /\ Convinced(p)' => Convinced(p) \/ leaderKey = p
         /\ proc[p] # "down" \/ ask[p][c] # "idle"
         /\ UNCHANGED <<leaderKey, elect, proc>>
         /\ \A q \in Pods \ {p} : isLeader'[q] = isLeader[q] /\ ask'[q] = ask[q]
<1> USE DEF TypeOK, Convinced, Answer, SetFlag, redis
<1>1. CASE IsLeaderGet(p, c)
  BY <1>1 DEF IsLeaderGet
<1>2. CASE IsLeaderFails(p, c)
  BY <1>2 DEF IsLeaderFails
<1>3. CASE IsLeaderUpdates(p, c)
  BY <1>3 DEF IsLeaderUpdates
<1>4. CASE IsLeaderReturns(p, c)
  BY <1>4 DEF IsLeaderReturns
<1>5. CASE LeaderWorkDone(p, c)
  BY <1>5 DEF LeaderWorkDone
<1> QED
  BY <1>1, <1>2, <1>3, <1>4, <1>5 DEF AskStep

LEMMA EarnedInvInductive ==
  ASSUME ServiceTypeOK, EarnedInv, [ServiceNext]_serviceVars
  PROVE  EarnedInv'
<1>a. TypeOK /\ Detailed \subseteq Pods /\ NoPod \notin Pods
  BY ServiceAssumption, LeaderElectionAssumption DEF ServiceTypeOK
<1> USE DEF EarnedInv
<1>1. ASSUME NEW p \in Detailed, StartService(p) PROVE EarnedInv'
  <2>1. /\ proc[p] = "down" /\ proc'[p] # "down" /\ elect'[p] = "idle"
        /\ UNCHANGED <<leaderKey, isLeader, ask>>
        /\ owned' = (owned \ {p}) \cup ({leaderKey} \cap {p})
    BY <1>1, <1>a DEF StartService, Start, Goto, Proceed, TypeOK, redis
  <2>2. \A q \in Pods \ {p} : elect'[q] = elect[q] /\ proc'[q] = proc[q]
    BY <1>1, <1>a DEF StartService, Start, Goto, Proceed, TypeOK
  <2>3. ~Convinced(p)'
    BY <1>a, <2>1 DEF Convinced
  <2>4. \A q \in Pods \ {p} : Convinced(q)' => Convinced(q)
    BY <2>1, <2>2 DEF Convinced
  <2> QED
    BY <1>a, <2>1, <2>2, <2>3, <2>4
<1>2. ASSUME NEW p \in Detailed, ExitService(p) PROVE EarnedInv'
  <2>1. /\ isLeader'[p] = FALSE /\ elect'[p] = "off"
        /\ \A c \in Callers : ask'[p][c] = "idle"
        /\ UNCHANGED <<leaderKey, owned>>
    BY <1>2, <1>a DEF ExitService, Exit, SetFlag, Goto, TypeOK, redis, past
  <2>2. \A q \in Pods \ {p} :
          /\ elect'[q] = elect[q] /\ isLeader'[q] = isLeader[q]
          /\ ask'[q] = ask[q] /\ proc'[q] = proc[q]
    BY <1>2, <1>a DEF ExitService, Exit, SetFlag, Goto, Proceed, TypeOK
  <2>3. ~Convinced(p)'
    BY <2>1 DEF Convinced
  <2>4. \A q \in Pods \ {p} : Convinced(q)' => Convinced(q)
    BY <2>2 DEF Convinced
  <2> QED
    BY <2>1, <2>2, <2>3, <2>4
<1>3. ASSUME NEW p \in Detailed, Elect(p) PROVE EarnedInv'
  <2>1. owned' = owned \cup ({leaderKey'} \ {NoPod})
    BY <1>3 DEF Elect, NoteOwner
  <2>2. /\ Convinced(p)' => Convinced(p) \/ leaderKey' = p
        /\ proc'[p] = "down" => proc[p] = "down"
        /\ elect[p] = "off" => elect'[p] = "off" /\ isLeader'[p] \in {isLeader[p], FALSE}
        /\ ask' = ask
        /\ \A q \in Pods \ {p} : /\ isLeader'[q] = isLeader[q]
                                /\ elect'[q] = elect[q]
                                /\ proc'[q] = proc[q]
    BY <1>3, <1>a, ElectionConvinces DEF Elect
  <2>3. \A q \in Pods \ {p} : Convinced(q)' => Convinced(q)
    BY <2>2 DEF Convinced
  <2>4. \A q \in Pods : Convinced(q)' => q \in owned'
    BY <1>a, <2>1, <2>2, <2>3
  <2>5. ASSUME NEW q \in Pods, proc'[q] = "down"
        PROVE  /\ isLeader'[q] = FALSE
               /\ elect'[q] = "off"
               /\ \A c \in Callers : ask'[q][c] = "idle"
    <3>1. proc[q] = "down"
      BY <2>2, <2>5
    <3>2. isLeader[q] = FALSE /\ elect[q] = "off"
      BY <3>1
    <3>3. isLeader'[q] = FALSE /\ elect'[q] = "off"
      BY <2>2, <3>2
    <3> QED
      BY <2>2, <3>1, <3>3
  <2> QED
    BY <2>1, <2>4, <2>5
<1>4. ASSUME NEW p \in Detailed, NEW c \in Callers, Ask(p, c) PROVE EarnedInv'
  <2>1. /\ Convinced(p)' => Convinced(p) \/ leaderKey = p
        /\ proc[p] # "down" \/ ask[p][c] # "idle"
        /\ UNCHANGED <<leaderKey, elect, proc>>
        /\ \A q \in Pods \ {p} : isLeader'[q] = isLeader[q] /\ ask'[q] = ask[q]
    BY <1>4, <1>a, AskConvinces DEF Ask
  <2>2. proc[p] # "down" /\ owned' = owned
    BY <1>4, <1>a, <2>1 DEF Ask, past
  <2>3. \A q \in Pods \ {p} : Convinced(q)' => Convinced(q)
    BY <2>1 DEF Convinced
  <2> QED
    BY <1>a, <2>1, <2>2, <2>3
<1>5. ASSUME NEW q \in Pods \ Detailed, OtherPod(q) PROVE EarnedInv'
  <2>1. /\ UNCHANGED <<isLeader, elect, ask, proc>>
        /\ owned' = owned \cup ({leaderKey'} \ {NoPod})
    BY <1>5 DEF OtherPod, NoteOwner
  <2> QED
    BY <2>1 DEF Convinced
<1>6. CASE Time
  <2>1. UNCHANGED <<isLeader, elect, ask, proc, owned>>
    BY <1>6 DEF Time, Tick
  <2>2. leaderKey' \in {leaderKey, NoPod}
    BY <1>6 DEF Time, Tick, AgeKey, DropKey
  <2> QED
    BY <2>1, <2>2 DEF Convinced
<1>7. CASE UNCHANGED <<leaderKey, isLeader, elect, ask, proc, owned>>
  BY <1>7 DEF Convinced
<1>8. ASSUME NEW p \in Detailed,
             \/ BeginCheck(p) \/ EndCheck(p) \/ CheckLoopReturns(p)
             \/ Shutdown(p) \/ ShutdownReturns(p)
      PROVE  EarnedInv'
  BY <1>7, <1>8 DEF BeginCheck, EndCheck, CheckLoopReturns, Shutdown,
                    ShutdownReturns, vars, past
<1> QED
  BY <1>1, <1>2, <1>3, <1>4, <1>5, <1>6, <1>7, <1>8
     DEF ServiceNext, DetailedPod, serviceVars

(* Nobody acts as the leader who has not been one since it was started,    *)
(* whatever the other pods do to the key that a lease allows.              *)
THEOREM LeadershipIsEarned == ServiceSpec => []LeadershipEarned
<1>1. ServiceInit => EarnedInv
  BY DEF ServiceInit, Init, EarnedInv, Convinced
<1>2. ServiceTypeOK /\ EarnedInv /\ [ServiceNext]_serviceVars => EarnedInv'
  BY EarnedInvInductive
<1>3. ServiceTypeOK /\ EarnedInv => LeadershipEarned
  BY ServiceAssumption
     DEF EarnedInv, Convinced, LeadershipEarned, ServiceTypeOK, TypeOK
<1> QED
  BY <1>1, <1>2, <1>3, ServiceTypeCorrect, PTL DEF ServiceSpec

-----------------------------------------------------------------------------
(* Who is told that it leads, leads                                        *)

(* What IsLeader() is about to conclude, or has concluded, that the pod    *)
(* leads from.  A caller that found another pod in the key is among them   *)
(* once the flag is up again: the read that ends the call would take that  *)
(* for its own finding.  The flag by itself is not: it may be stale.       *)
Evidence(p) ==
  \/ elect[p] = "won"
  \/ \E c \in Callers : ask[p][c] \in {"mine", "mineSet", "yes"}
  \/ isLeader[p] = TRUE /\ \E c \in Callers : ask[p][c] = "otherSet"

(* As long as the clock does not tick in between, a running pod has        *)
(* evidence of its leadership only with the key in its hands.              *)
VerifiedInv ==
  TTL > 0 =>
    \A p \in Detailed \ behind :
      proc[p] = "running" /\ Evidence(p) => leaderKey = p

(* The election and IsLeader() find evidence only with the key in hand.    *)
LEMMA EvidenceFound ==
  ASSUME TypeOK, NEW p \in Pods,
         \/ ElectionStep(p)
         \/ \E c \in Callers : AskStep(p, c)
  PROVE  Evidence(p)' => Evidence(p) \/ leaderKey = p \/ leaderKey' = p
<1> USE DEF TypeOK, Evidence, Goto, SetFlag, Answer
<1>1. CASE TryBecomeLeader(p)
  <2>1. elect'[p] = "won" => leaderKey' = p
    BY <1>1 DEF TryBecomeLeader, SetNXSucceeds, SetNXRefused, SetNXFails,
                SetNXRetried, Refused, SetKey
  <2> QED
    BY <1>1, <2>1 DEF TryBecomeLeader
<1>2. CASE WonElection(p)
  BY <1>2 DEF WonElection
<1>3. CASE \/ RenewLeadership(p) \/ VerifyLeadership(p) \/ LoseLeadership(p)
           \/ ElectionLoopReturns(p)
  <2>1. /\ elect'[p] # "won" /\ UNCHANGED ask
        /\ isLeader'[p] \in {isLeader[p], FALSE}
    BY <1>3 DEF RenewLeadership, VerifyLeadership, LoseLeadership,
                ElectionLoopReturns
  <2> QED
    BY <2>1
<1>4. ASSUME NEW c \in Callers, AskStep(p, c)
      PROVE  Evidence(p)' => Evidence(p) \/ leaderKey = p
  <2>1. CASE IsLeaderGet(p, c)
    BY <2>1 DEF IsLeaderGet
  <2>2. CASE IsLeaderFails(p, c)
    BY <2>2 DEF IsLeaderFails
  <2>3. CASE IsLeaderUpdates(p, c)
    BY <2>3 DEF IsLeaderUpdates
  <2>4. CASE IsLeaderReturns(p, c)
    BY <2>4 DEF IsLeaderReturns
  <2>5. CASE LeaderWorkDone(p, c)
    BY <2>5 DEF LeaderWorkDone
  <2> QED
    BY <1>4, <2>1, <2>2, <2>3, <2>4, <2>5 DEF AskStep
<1> QED
  BY <1>1, <1>2, <1>3, <1>4 DEF ElectionStep

(* The key of a running pod is taken from it by the clock alone.           *)
LEMMA RunningPodKeepsKey ==
  ASSUME TTL > 0, NEW p \in Detailed, leaderKey = p, proc[p] = "running",
         \/ \E q \in Detailed : DetailedPod(q)
         \/ \E q \in Pods \ Detailed : OtherPod(q)
  PROVE  leaderKey' = p
<1>a. p \in Pods /\ p # NoPod /\ Detailed \subseteq Pods
  BY ServiceAssumption, LeaderElectionAssumption
<1>1. ASSUME NEW q \in Detailed, DetailedPod(q) PROVE leaderKey' = p
  <2>1. PodStep(q) \/ UNCHANGED vars
    BY <1>1 DEF DetailedPod, StartService, ExitService, Elect, Ask, BeginCheck,
                EndCheck, CheckLoopReturns, Shutdown, ShutdownReturns, PodStep
  <2>2. CASE PodStep(q)
    BY <1>a, <2>2, PodStepOnKey DEF redis, SetKey
  <2> QED
    BY <2>1, <2>2 DEF vars
<1>2. ASSUME NEW q \in Pods \ Detailed, OtherPod(q) PROVE leaderKey' = p
  BY <1>a, <1>2 DEF OtherPod, KeyLease!Grant, KeyLease!Extend,
                    KeyLease!Release, KeyLease!Free
<1> QED
  BY <1>1, <1>2

(* One pod's step leaves the evidence of every other pod as it is.         *)
LEMMA EvidenceIsLocal ==
  ASSUME TypeOK, NEW p \in Pods, PodStep(p), NEW q \in Pods \ {p}
  PROVE  /\ proc'[q] = proc[q]
         /\ Evidence(q)' <=> Evidence(q)
<1>1. /\ proc'[q] = proc[q] /\ elect'[q] = elect[q]
      /\ isLeader'[q] = isLeader[q] /\ ask'[q] = ask[q]
  <2>1. CASE ElectionStep(p) \/ Stop(p) \/ StopStep(p)
    BY <2>1, ElectionConvinces
  <2>2. ASSUME NEW c \in Callers, AskStep(p, c)
        PROVE  /\ proc'[q] = proc[q] /\ elect'[q] = elect[q]
               /\ isLeader'[q] = isLeader[q] /\ ask'[q] = ask[q]
    BY <2>2, AskConvinces
  <2>3. CASE Start(p) \/ Exit(p)
    BY <2>3 DEF Start, Exit, TypeOK, Goto, Proceed, SetFlag
  <2> QED
    BY <2>1, <2>2, <2>3 DEF PodStep
<1> QED
  BY <1>1 DEF Evidence

LEMMA VerifiedInvInductive ==
  ASSUME ServiceTypeOK, EarnedInv, VerifiedInv, [ServiceNext]_serviceVars
  PROVE  VerifiedInv'
<1>a. TypeOK /\ Detailed \subseteq Pods
  BY ServiceAssumption DEF ServiceTypeOK
<1> SUFFICES ASSUME TTL > 0, NEW p \in Detailed, p \notin behind',
                    proc'[p] = "running", Evidence(p)'
             PROVE  leaderKey' = p
  BY DEF VerifiedInv
<1>b. /\ behind' = behind => p \notin behind
      /\ p \notin behind /\ proc[p] = "running" /\ Evidence(p) => leaderKey = p
  BY DEF VerifiedInv
<1>1. CASE Time
  <2>1. UNCHANGED <<isLeader, elect, ask, proc>> /\ ~UnderWay(p)
    BY <1>1 DEF Time, Tick
  <2>2. ~Evidence(p)
    BY <2>1 DEF UnderWay, Evidence
  <2> QED
    BY <2>1, <2>2 DEF Evidence
<1>2. ASSUME NEW q \in Pods \ Detailed, OtherPod(q) PROVE leaderKey' = p
  <2>1. UNCHANGED <<isLeader, elect, ask, proc, behind>>
    BY <1>2 DEF OtherPod, NoteOwner
  <2>2. Evidence(p) /\ proc[p] = "running" /\ p \notin behind
    BY <1>b, <2>1 DEF Evidence
  <2> QED
    BY <1>b, <1>2, <2>2, RunningPodKeepsKey
<1>3. ASSUME NEW q \in Detailed, DetailedPod(q) PROVE leaderKey' = p
  <2>1. behind' = behind
    BY <1>3 DEF DetailedPod, StartService, ExitService, Elect, Ask, BeginCheck,
                EndCheck, CheckLoopReturns, Shutdown, ShutdownReturns,
                NoteOwner, past
  <2>2. PodStep(q) \/ UNCHANGED vars
    BY <1>3 DEF DetailedPod, StartService, ExitService, Elect, Ask, BeginCheck,
                EndCheck, CheckLoopReturns, Shutdown, ShutdownReturns, PodStep
  <2>3. CASE proc[p] = "running" /\ Evidence(p)
    BY <1>b, <1>3, <2>1, <2>3, RunningPodKeepsKey
  <2>4. CASE UNCHANGED vars
    <3>1. proc[p] = "running" /\ Evidence(p)
      BY <2>4 DEF vars, Evidence
    <3> QED
      BY <2>3, <3>1
  <2>5. CASE q # p /\ PodStep(q)
    BY <1>a, <2>3, <2>5, EvidenceIsLocal
  <2>6. CASE q = p /\ PodStep(p)
    <3>1. ~Start(p)
      <4>1. SUFFICES ASSUME Start(p) PROVE ~Evidence(p)'
        OBVIOUS
      <4>2. /\ proc[p] = "down" /\ elect'[p] = "idle"
            /\ UNCHANGED <<isLeader, ask>>
        BY <1>a, <4>1 DEF Start, Goto, TypeOK
      <4>3. \A c \in Callers : ask[p][c] = "idle"
        BY <1>a, <4>2 DEF EarnedInv
      <4> QED
        BY <4>2, <4>3 DEF Evidence
    <3>2. ~Exit(p) /\ ~Stop(p) /\ ~StopStep(p)
      BY <1>a DEF Exit, Stop, StopStep, StopReadsFlag, ResignLeadership,
                  Resigned, Proceed, TypeOK
    <3>3. ElectionStep(p) \/ \E c \in Callers : AskStep(p, c)
      BY <2>6, <3>1, <3>2, Zenon DEF PodStep
    <3>4. proc[p] = "running"
      BY <3>3 DEF ElectionStep, TryBecomeLeader, WonElection, RenewLeadership,
                  VerifyLeadership, LoseLeadership, ElectionLoopReturns,
                  AskStep, IsLeaderGet, IsLeaderFails, IsLeaderUpdates,
                  IsLeaderReturns, LeaderWorkDone
    <3>5. Evidence(p) \/ leaderKey = p \/ leaderKey' = p
      BY <1>a, <3>3, EvidenceFound
    <3>6. leaderKey = p => leaderKey' = p
      BY <1>3, <3>4, RunningPodKeepsKey
    <3> QED
      BY <1>b, <2>1, <3>4, <3>5, <3>6
  <2> QED
    BY <1>a, <2>2, <2>4, <2>5, <2>6
<1>4. CASE UNCHANGED serviceVars
  <2>1. UNCHANGED <<leaderKey, isLeader, elect, ask, proc, behind>>
    BY <1>4 DEF serviceVars
  <2> QED
    BY <1>b, <2>1 DEF Evidence
<1> QED
  BY <1>1, <1>2, <1>3, <1>4 DEF ServiceNext

(* IsLeader() is right as long as no tick of the clock falls into it, for  *)
(* any number of callers and pods, although it returns a field that other  *)
(* goroutines write between its read of the key and its own read of it.    *)
THEOREM VerifiedLeadersHoldTheKey == ServiceSpec => []VerifiedLeaderHoldsKey
<1>1. ServiceInit => EarnedInv /\ VerifiedInv
  BY ServiceAssumption
     DEF ServiceInit, Init, EarnedInv, Convinced, VerifiedInv, Evidence
<1>2. ServiceTypeOK /\ EarnedInv /\ VerifiedInv /\ [ServiceNext]_serviceVars
        => EarnedInv' /\ VerifiedInv'
  BY EarnedInvInductive, VerifiedInvInductive
<1>3. VerifiedInv => VerifiedLeaderHoldsKey
  BY DEF VerifiedInv, Evidence, VerifiedLeaderHoldsKey
<1> QED
  BY <1>1, <1>2, <1>3, ServiceTypeCorrect, PTL DEF ServiceSpec

(* Of the running pods that keep pace with the clock, at most one acts on  *)
(* IsLeader() at a time, though the flags of several may be up             *)
(* (AtMostOneLeader).                                                      *)
COROLLARY OneVerifiedLeader ==
  ServiceSpec =>
    [](TTL > 0 =>
         \A p, q \in Detailed \ behind : \A c, d \in Callers :
           /\ proc[p] = "running" /\ ask[p][c] = "yes"
           /\ proc[q] = "running" /\ ask[q][d] = "yes"
           => p = q)
<1>1. VerifiedLeaderHoldsKey =>
        (TTL > 0 =>
           \A p, q \in Detailed \ behind : \A c, d \in Callers :
             /\ proc[p] = "running" /\ ask[p][c] = "yes"
             /\ proc[q] = "running" /\ ask[q][d] = "yes"
             => p = q)
  BY DEF VerifiedLeaderHoldsKey
<1> QED
  BY <1>1, VerifiedLeadersHoldTheKey, PTL

-----------------------------------------------------------------------------
(* The lease                                                               *)

(* A step of the service is one of the election, or of another pod.        *)
LEMMA ServiceStep ==
  ASSUME [ServiceNext]_serviceVars
  PROVE  [Next]_vars \/ \E q \in Pods \ Detailed : OtherPod(q)
<1>1. ASSUME NEW p \in Detailed, DetailedPod(p) PROVE [Next]_vars
  <2>1. p \in Pods
    BY ServiceAssumption
  <2>2. PodStep(p) \/ UNCHANGED vars
    BY <1>1 DEF DetailedPod, StartService, ExitService, Elect, Ask, BeginCheck,
                EndCheck, CheckLoopReturns, Shutdown, ShutdownReturns, PodStep
  <2> QED
    BY <2>1, <2>2 DEF Next
<1>2. CASE Time
  BY <1>2 DEF Time, Next
<1>3. CASE UNCHANGED serviceVars
  BY <1>3 DEF serviceVars, vars
<1> QED
  BY <1>1, <1>2, <1>3 DEF ServiceNext

LEMMA ServiceLeaseStep ==
  ASSUME KeyInv, ServiceTypeOK', [ServiceNext]_serviceVars
  PROVE  KeyInv' /\ [KeyLease!Next]_(KeyLease!vars)
<1>a. TypeOK'
  BY DEF ServiceTypeOK
<1>1. CASE [Next]_vars
  BY <1>a, <1>1, KeyInvInductive, LeaseStep
<1>2. ASSUME NEW q \in Pods \ Detailed, OtherPod(q)
      PROVE  KeyInv' /\ [KeyLease!Next]_(KeyLease!vars)
  <2>1. KeyLease!Grant(q) \/ KeyLease!Extend(q) \/ KeyLease!Release(q)
    BY <1>2 DEF OtherPod
  <2>2. KeyInv'
    BY <1>a, <2>1, LeaderElectionAssumption
       DEF KeyInv, NoKeyNoTTL, HeldKeyExpires, KeyLease!Grant, KeyLease!Extend,
           KeyLease!Release
  <2> QED
    BY <2>1, <2>2 DEF KeyLease!Next
<1> QED
  BY <1>1, <1>2, ServiceStep

(* Pods that run the program and pods that only keep to the lease, mixed   *)
(* in any way, keep to the lease: what Service assumes of the pods that it *)
(* does not detail is what it shows of those that it does.                 *)
THEOREM ServiceImplementsLease == ServiceSpec => LeaseSpec
<1>1. ServiceInit => KeyInv /\ KeyLease!Init
  BY InitTypeOK
     DEF ServiceInit, Init, KeyInv, NoKeyNoTTL, HeldKeyExpires, KeyLease!Init,
         KeyLease!Free
<1>2. KeyInv /\ ServiceTypeOK' /\ [ServiceNext]_serviceVars
        => KeyInv' /\ [KeyLease!Next]_(KeyLease!vars)
  BY ServiceLeaseStep
<1> QED
  BY <1>1, <1>2, ServiceTypeCorrect, PTL
     DEF ServiceSpec, LeaseSpec, KeyLease!Spec
(* The key never stays without an expiry, next to pods that only keep to   *)
(* the lease as well.                                                      *)
THEOREM ServiceKeyExpires == ServiceSpec => []HeldKeyExpires
<1>1. ServiceInit => KeyInv
  BY InitTypeOK DEF ServiceInit, Init, KeyInv, NoKeyNoTTL, HeldKeyExpires
<1>2. KeyInv /\ ServiceTypeOK' /\ [ServiceNext]_serviceVars => KeyInv'
  BY ServiceLeaseStep
<1>3. KeyInv => HeldKeyExpires
  BY DEF KeyInv
<1> QED
  BY <1>1, <1>2, <1>3, ServiceTypeCorrect, PTL DEF ServiceSpec

(* With every pod in detail the life of the pods is a behaviour of the     *)
(* election: nothing that the check loop, the HTTP server or the order of  *)
(* Stop() adds goes beyond it, so what is proved of Spec holds here.       *)
THEOREM ServiceIsAnElection ==
  ASSUME Detailed = Pods
  PROVE  ServiceSpec => Spec
<1>1. ServiceInit => Init
  BY DEF ServiceInit
<1>2. [ServiceNext]_serviceVars => [Next]_vars
  BY ServiceStep
<1> QED
  BY <1>1, <1>2, PTL DEF ServiceSpec, Spec

(* In particular no pod takes the key of another, and a crashed pod's key  *)
(* only ages.                                                              *)
COROLLARY ServicePodsRespectTheKey ==
  ASSUME Detailed = Pods
  PROVE  ServiceSpec => OwnerReleases /\ DeadPodsKeyAges
BY ServiceIsAnElection, OnlyOwnerReleases, DeadPodsKeyOnlyAges, PTL
=============================================================================

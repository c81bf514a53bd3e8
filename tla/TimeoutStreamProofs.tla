------------------------ MODULE TimeoutStreamProofs -------------------------
(***************************************************************************)
(* Theorems about TimeoutStream, for any number of consumers and events    *)
(* and any batch size and idle time.                                       *)
(***************************************************************************)
EXTENDS TimeoutStream, TLAPS

-----------------------------------------------------------------------------
(* Type correctness                                                        *)

LEMMA InitTypeOK == Init => TypeOK
BY TimeoutStreamAssumption DEF Init, TypeOK, Ids

(* Publishing, the passing of time and the pods keep the types.            *)
LEMMA EnvironmentTypeOK ==
  ASSUME TypeOK,
         \/ Publish \/ Tick
         \/ \E c \in Consumers : Start(c) \/ Stop(c) \/ Exit(c)
  PROVE  TypeOK'
<1> USE TimeoutStreamAssumption DEF TypeOK, stream, trouble, Fail
<1>1. CASE Publish
  <2>1. length' \in 0..MaxEvents /\ length' \in 1..length' /\ delivered \in 0..length'
    BY <1>1 DEF Publish
  <2>2. malformed \subseteq 1..length'
    BY <1>1 DEF Publish
  <2>3. malformed' \subseteq 1..length'
    BY <1>1, <2>1, <2>2 DEF Publish
  <2> QED
    BY <1>1, <2>1, <2>3 DEF Publish
<1>2. CASE Tick
  <2>1. idle' \in [Ids -> {NotPending} \cup 0..MinIdle]
    BY <1>2 DEF Tick, NotPending
  <2> QED
    BY <1>2, <2>1 DEF Tick
<1>3. ASSUME NEW c \in Consumers, Start(c) \/ Stop(c) PROVE TypeOK'
  BY <1>3 DEF Start, Stop
<1>4. ASSUME NEW c \in Consumers, Exit(c) PROVE TypeOK'
  <2>1. /\ pc' \in [Workers -> {"next", "read", "claim", "ack"}]
        /\ inbox' \in [Workers -> SUBSET Ids]
    BY <1>4 DEF Exit
  <2> QED
    BY <1>4, <2>1 DEF Exit
<1> QED
  BY <1>1, <1>2, <1>3, <1>4

(* Reading, claiming and working off entries keep the types.               *)
LEMMA ConsumerTypeOK ==
  ASSUME TypeOK,
         \/ \E c \in Consumers : Read(c) \/ Recover(c)
         \/ \E w \in Workers : Process(w)
  PROVE  TypeOK'
<1> USE TimeoutStreamAssumption DEF TypeOK, stream, trouble, Fail
<1>1. ASSUME NEW ids \in SUBSET Ids, HandOut(ids)
      PROVE  idle' \in [Ids -> {NotPending} \cup 0..MinIdle]
  BY <1>1 DEF HandOut
<1>2. ASSUME NEW w \in Workers, NEW ids \in SUBSET Ids, Receive(w, ids)
      PROVE  inbox' \in [Workers -> SUBSET Ids]
  BY <1>2 DEF Receive
<1>3. ASSUME NEW c \in Consumers, ReadGroup(c) PROVE TypeOK'
  <2>1. delivered' \in 0..length /\ delivered' \in Nat /\ delivered \in Nat
    BY <1>3 DEF ReadGroup, Min2
  <2>2. delivered + 1 .. delivered' \in SUBSET Ids
    BY <2>1 DEF Ids
  <2>3. <<c, "read">> \in Workers
    BY DEF Workers
  <2> QED
    BY <1>1, <1>2, <1>3, <2>1, <2>2, <2>3 DEF ReadGroup
<1>4. ASSUME NEW c \in Consumers,
             CallReadGroup(c) \/ ReadNothing(c) \/ CheckPending(c)
      PROVE  TypeOK'
  BY <1>4 DEF CallReadGroup, ReadNothing, CheckPending
<1>5. ASSUME NEW c \in Consumers, AutoClaim(c) PROVE TypeOK'
  <2>1. Claimable \in SUBSET Ids
    BY DEF Claimable
  <2>2. <<c, "claim">> \in Workers
    BY DEF Workers
  <2> QED
    BY <1>1, <1>2, <1>5, <2>1, <2>2 DEF AutoClaim
<1>6. ASSUME NEW w \in Workers, NEW i \in Ids, SendNotification(w, i)
      PROVE  TypeOK'
  <2>1. Tell(i) => notified' \in [Ids -> 0..2]
    BY DEF Tell, Min2
  <2>2. Drop(w, i) => inbox' \in [Workers -> SUBSET Ids]
    BY DEF Drop
  <2> QED
    BY <1>6, <2>1, <2>2 DEF SendNotification
<1>7. ASSUME NEW w \in Workers, NEW i \in Ids, DiscardMalformed(w, i)
      PROVE  TypeOK'
  BY <1>7 DEF DiscardMalformed
<1>8. ASSUME NEW w \in Workers, NEW i \in Ids, AcknowledgeMessage(w, i)
      PROVE  TypeOK'
  <2>1. inbox' \in [Workers -> SUBSET Ids]
    BY <1>8 DEF AcknowledgeMessage, Drop
  <2>2. idle' \in [Ids -> {NotPending} \cup 0..MinIdle]
    BY <1>8 DEF AcknowledgeMessage
  <2> QED
    BY <1>8, <2>1, <2>2 DEF AcknowledgeMessage
<1> QED
  BY <1>3, <1>4, <1>5, <1>6, <1>7, <1>8 DEF Read, Recover, Process

(* The stream, its pending list and the consumers' loops stay in the states *)
(* the code knows.                                                         *)
THEOREM TypeCorrect == Spec => []TypeOK
<1>1. TypeOK /\ [Next]_vars => TypeOK'
  <2> SUFFICES ASSUME TypeOK, [Next]_vars PROVE TypeOK'
    OBVIOUS
  <2>1. CASE UNCHANGED vars
    BY <2>1 DEF vars, TypeOK
  <2> QED
    BY <2>1, EnvironmentTypeOK, ConsumerTypeOK DEF Next
<1> QED
  BY <1>1, InitTypeOK, PTL DEF Spec

-----------------------------------------------------------------------------
(* At-least-once delivery                                                  *)

(* Only entries the group has handed out are pending, or held by a loop;   *)
(* and a loop is about to acknowledge only what was told or cannot be read.*)
HoldInv ==
  /\ Pending \subseteq 1..delivered
  /\ \A w \in Workers : inbox[w] \subseteq 1..delivered
  /\ \A w \in Workers : pc[w] = "ack" =>
       \A i \in Ids : IsCurrent(w, i) => notified[i] > 0 \/ i \in malformed

LEMMA HoldInvInductive ==
  ASSUME TypeOK, HoldInv, [Next]_vars PROVE HoldInv'
<1> USE TimeoutStreamAssumption DEF TypeOK, HoldInv, IsCurrent, Pending, stream, trouble
<1>1. CASE UNCHANGED <<malformed, delivered, idle, pc, inbox, notified>>
  BY <1>1
<1>2. CASE Publish
  BY <1>2 DEF Publish
<1>3. ASSUME NEW c \in Consumers, ReadGroup(c) PROVE HoldInv'
  <2> DEFINE v == <<c, "read">>
  <2>1. v \in Workers /\ pc'[v] = "next"
    BY <1>3 DEF ReadGroup, Workers
  <2>2. 1..delivered \subseteq 1..delivered'
    BY <1>3 DEF ReadGroup, Min2
  <2>3. delivered + 1 .. delivered' \subseteq 1..delivered'
    BY <1>3 DEF ReadGroup, Min2
  <2>4. \A w \in Workers \ {v} : inbox'[w] = inbox[w] /\ pc'[w] = pc[w]
    BY <1>3 DEF ReadGroup, Receive
  <2>5. inbox'[v] \subseteq 1..delivered'
    BY <1>3, <2>1, <2>2, <2>3 DEF ReadGroup, Receive
  <2>6. UNCHANGED <<notified, malformed>>
    BY <1>3 DEF ReadGroup
  <2>7. Pending' \subseteq 1..delivered'
    BY <1>3, <2>2, <2>3 DEF ReadGroup, HandOut
  <2> QED
    BY <2>1, <2>2, <2>4, <2>5, <2>6, <2>7
<1>4. ASSUME NEW c \in Consumers,
             CallReadGroup(c) \/ ReadNothing(c) \/ CheckPending(c)
      PROVE  HoldInv'
  BY <1>4 DEF CallReadGroup, ReadNothing, CheckPending
<1>5. CASE Tick
  BY <1>5 DEF Tick
<1>6. ASSUME NEW w \in Workers, NEW i \in Ids, SendNotification(w, i)
      PROVE  HoldInv'
  <2>1. \A j \in Ids : notified[j] > 0 => notified'[j] > 0
    BY <1>6 DEF SendNotification, Tell, Min2
  <2>2. pc'[w] = "ack" => notified'[i] > 0 /\ inbox' = inbox
    BY <1>6 DEF SendNotification, Tell, Min2
  <2>3. \A v \in Workers \ {w} : inbox'[v] = inbox[v] /\ pc'[v] = pc[v]
    BY <1>6 DEF SendNotification, Drop
  <2>4. inbox'[w] \subseteq inbox[w]
    BY <1>6 DEF SendNotification, Drop
  <2>5. \A j \in inbox[w] : (\A k \in inbox[w] : j <= k) => j = i
    BY <1>6 DEF SendNotification, Ids
  <2>6. UNCHANGED <<delivered, malformed, idle>>
    BY <1>6 DEF SendNotification
  <2>7. \A v \in Workers : inbox'[v] \subseteq 1..delivered'
    BY <2>3, <2>4, <2>6
  <2>8. ASSUME NEW v \in Workers, pc'[v] = "ack",
               NEW j \in Ids, IsCurrent(v, j)'
        PROVE  notified'[j] > 0 \/ j \in malformed'
    <3>1. CASE v = w
      BY <2>2, <2>5, <2>8, <3>1
    <3>2. CASE v # w
      BY <2>1, <2>3, <2>6, <2>8, <3>2
    <3> QED
      BY <3>1, <3>2
  <2> QED
    BY <2>6, <2>7, <2>8
<1>7. ASSUME NEW w \in Workers, NEW i \in Ids, DiscardMalformed(w, i)
      PROVE  HoldInv'
  <2>1. \A j \in inbox[w] : (\A k \in inbox[w] : j <= k) => j = i
    BY <1>7 DEF DiscardMalformed, Ids
  <2> QED
    BY <1>7, <2>1 DEF DiscardMalformed
<1>8. ASSUME NEW w \in Workers, NEW i \in Ids, AcknowledgeMessage(w, i)
      PROVE  HoldInv'
  <2>1. \A v \in Workers : inbox'[v] \subseteq inbox[v]
    BY <1>8 DEF AcknowledgeMessage, Drop
  <2>2. \A v \in Workers \ {w} : inbox'[v] = inbox[v] /\ pc'[v] = pc[v]
    BY <1>8 DEF AcknowledgeMessage, Drop
  <2>3. pc'[w] = "next" /\ UNCHANGED <<delivered, malformed, notified>>
    BY <1>8 DEF AcknowledgeMessage
  <2>4. Pending' \subseteq Pending
    BY <1>8 DEF AcknowledgeMessage
  <2> QED
    BY <2>1, <2>2, <2>3, <2>4
<1>9. ASSUME NEW c \in Consumers, AutoClaim(c) PROVE HoldInv'
  <2> DEFINE v == <<c, "claim">>
  <2>1. v \in Workers /\ pc'[v] = "next"
    BY <1>9 DEF AutoClaim, Workers
  <2>2. Claimable \subseteq Pending
    BY DEF Claimable, NotPending
  <2>3. Pending' \subseteq Pending
    BY <1>9, <2>2 DEF AutoClaim, HandOut
  <2>4. \A w \in Workers \ {v} : inbox'[w] = inbox[w] /\ pc'[w] = pc[w]
    BY <1>9 DEF AutoClaim, Receive
  <2>5. inbox'[v] \subseteq 1..delivered
    BY <1>9, <2>1, <2>2 DEF AutoClaim, Receive
  <2>6. UNCHANGED <<delivered, malformed, notified>>
    BY <1>9 DEF AutoClaim
  <2> QED
    BY <2>1, <2>3, <2>4, <2>5, <2>6
<1>10. ASSUME NEW c \in Consumers, Start(c) \/ Stop(c) PROVE HoldInv'
  BY <1>1, <1>10 DEF Start, Stop
<1>11. ASSUME NEW c \in Consumers, Exit(c) PROVE HoldInv'
  BY <1>11 DEF Exit
<1> QED
  BY <1>1, <1>2, <1>3, <1>4, <1>5, <1>6, <1>7, <1>8, <1>9, <1>10, <1>11
     DEF Next, Read, Recover, Process, vars

LEMMA HoldInvariant == Spec => [](TypeOK /\ HoldInv)
<1>1. Init => HoldInv
  BY DEF Init, HoldInv, Pending
<1>2. TypeOK /\ HoldInv /\ [Next]_vars => HoldInv'
  BY HoldInvInductive
<1> QED
  BY <1>1, <1>2, TypeCorrect, PTL DEF Spec

(* A step of the code is a step of the abstract delivery, or leaves it     *)
(* alone.                                                                  *)
LEMMA DeliveryStep ==
  ASSUME TypeOK, HoldInv, [Next]_vars
  PROVE  Delivery!Next \/ UNCHANGED Delivery!vars
<1> USE TimeoutStreamAssumption
        DEF TypeOK, stream, trouble, Delivery!Next, Delivery!vars, Acknowledged, Pending
<1>1. CASE UNCHANGED <<length, malformed, delivered, idle, notified>>
  BY <1>1
<1>2. CASE Publish
  <2> DEFINE e == length + 1
  <2>1. e \in Ids \ (1..length) /\ 1..length' = (1..length) \cup {e}
    BY <1>2 DEF Publish, Ids
  <2>2. malformed' \in {malformed, malformed \cup {e}}
    BY <1>2 DEF Publish
  <2>3. UNCHANGED <<delivered, idle, notified>>
    BY <1>2 DEF Publish
  <2>4. Delivery!Publish(e)
    BY <2>1, <2>2, <2>3 DEF Delivery!Publish
  <2> QED
    BY <2>1, <2>4
<1>3. ASSUME NEW c \in Consumers, ReadGroup(c)
      PROVE  UNCHANGED <<length, malformed, notified, Acknowledged>>
  <2>1. /\ 1..delivered' = (1..delivered) \cup (delivered + 1 .. delivered')
        /\ delivered + 1 .. delivered' \subseteq Ids
    BY <1>3 DEF ReadGroup, Min2, Ids
  <2>2. Pending' = Pending \cup (delivered + 1 .. delivered')
    BY <1>3, <2>1 DEF ReadGroup, HandOut, NotPending
  <2>3. Pending \cap (delivered + 1 .. delivered') = {}
    BY DEF HoldInv
  <2>4. Acknowledged' = Acknowledged
    BY <2>1, <2>2, <2>3 DEF HoldInv
  <2> QED
    BY <1>3, <2>4 DEF ReadGroup
<1>4. ASSUME NEW c \in Consumers,
             CallReadGroup(c) \/ ReadNothing(c) \/ Recover(c)
      PROVE  UNCHANGED <<length, malformed, notified, Acknowledged>>
  <2>1. Claimable \subseteq Pending
    BY DEF Claimable, NotPending
  <2>2. HandOut(Claimable) => Pending' = Pending
    BY <2>1 DEF HandOut, NotPending
  <2> QED
    BY <1>4, <2>2 DEF CallReadGroup, ReadNothing, Recover, CheckPending,
                      AutoClaim
<1>5. CASE Tick
  <2>1. Pending' = Pending
    BY <1>5 DEF Tick, NotPending
  <2> QED
    BY <1>5, <2>1 DEF Tick
<1>6. ASSUME NEW w \in Workers, NEW i \in Ids, SendNotification(w, i)
      PROVE  Delivery!Next \/ UNCHANGED Delivery!vars
  <2>1. i \in (1..length) \ malformed
    BY <1>6 DEF SendNotification, IsCurrent, HoldInv
  <2>2. Tell(i) => {j \in Ids : notified'[j] > 0} =
                     {j \in Ids : notified[j] > 0} \cup {i}
    BY DEF Tell, Min2
  <2>3. UNCHANGED <<length, malformed, delivered, idle>>
    BY <1>6 DEF SendNotification
  <2>4. CASE Tell(i)
    BY <2>1, <2>2, <2>3, <2>4 DEF Delivery!Tell
  <2>5. CASE UNCHANGED notified
    BY <2>3, <2>5
  <2> QED
    BY <1>6, <2>4, <2>5 DEF SendNotification
<1>7. ASSUME NEW w \in Workers, NEW i \in Ids, AcknowledgeMessage(w, i)
      PROVE  Delivery!Next \/ UNCHANGED Delivery!vars
  <2>1. i \in {j \in Ids : notified[j] > 0} \cup malformed /\ i \in 1..delivered
    BY <1>7 DEF AcknowledgeMessage, IsCurrent, HoldInv
  <2>2. UNCHANGED <<length, malformed, delivered, notified>>
    BY <1>7 DEF AcknowledgeMessage
  <2>3. CASE idle' = [idle EXCEPT ![i] = NotPending]
    <3>1. Acknowledged' = Acknowledged \cup {i}
      BY <2>1, <2>2, <2>3
    <3> QED
      BY <2>1, <2>2, <3>1 DEF Delivery!Finish
  <2>4. CASE UNCHANGED idle
    BY <2>2, <2>4
  <2> QED
    BY <1>7, <2>3, <2>4 DEF AcknowledgeMessage
<1>8. ASSUME NEW w \in Workers, NEW i \in Ids, DiscardMalformed(w, i)
      PROVE  UNCHANGED <<length, malformed, delivered, idle, notified>>
  BY <1>8 DEF DiscardMalformed
<1>9. ASSUME NEW c \in Consumers, Start(c) \/ Stop(c) \/ Exit(c)
      PROVE  UNCHANGED <<length, malformed, delivered, idle, notified>>
  BY <1>9 DEF Start, Stop, Exit
<1> QED
  BY <1>1, <1>2, <1>3, <1>4, <1>5, <1>6, <1>7, <1>8, <1>9
     DEF Next, Read, Process, vars

(* Phase 2 delivers every event at least once: nothing is acknowledged     *)
(* that the notification service has not been told of.                     *)
THEOREM ImplementsDelivery == Spec => DeliverySpec
<1>1. Init => Delivery!Init
  BY DEF Init, Delivery!Init, Acknowledged, Pending
<1>2. TypeOK /\ HoldInv /\ [Next]_vars => [Delivery!Next]_(Delivery!vars)
  BY DeliveryStep
<1> QED
  BY <1>1, <1>2, HoldInvariant, PTL DEF Spec, DeliverySpec, Delivery!Spec

-----------------------------------------------------------------------------
(* One holder                                                              *)

(* What a loop holds is pending and too young to be claimed, unless the    *)
(* loop has been too slow with it.                                         *)
YoungInv ==
  /\ \A w \in Workers : \A i \in inbox[w] \ slow : idle[i] \in 0..(MinIdle - 1)
  /\ OneHolder

LEMMA YoungInvInductive ==
  ASSUME TypeOK, HoldInv, YoungInv, [Next]_vars PROVE YoungInv'
<1> USE TimeoutStreamAssumption DEF TypeOK, YoungInv, OneHolder, stream, trouble
<1>1. CASE UNCHANGED <<idle, inbox, slow>>
  BY <1>1
<1>2. ASSUME NEW c \in Consumers, ReadGroup(c) PROVE YoungInv'
  <2> DEFINE v   == <<c, "read">>
             new == delivered + 1 .. delivered'
  <2>1. v \in Workers
    BY DEF Workers
  <2>2. \A w \in Workers : inbox[w] \cap new = {}
    BY DEF HoldInv
  <2>3. \A i \in Ids : idle'[i] = IF i \in new THEN 0 ELSE idle[i]
    BY <1>2 DEF ReadGroup, HandOut
  <2>4. \A w \in Workers \ {v} : inbox'[w] = inbox[w]
    BY <1>2 DEF ReadGroup, Receive
  <2>5. inbox'[v] \in {inbox[v], new}
    BY <1>2, <2>1 DEF ReadGroup, Receive
  <2>6. new \subseteq Ids /\ slow' = slow
    BY <1>2 DEF ReadGroup, Min2, Ids
  <2>7. \A w \in Workers : \A i \in inbox[w] : i \in Ids /\ idle'[i] = idle[i]
    BY <2>2, <2>3
  <2>8. \A w \in Workers : \A i \in inbox'[w] \ slow' :
          idle'[i] \in 0..(MinIdle - 1)
    <3>1. \A i \in new : idle'[i] \in 0..(MinIdle - 1)
      BY <2>3, <2>6
    <3>2. \A w \in Workers : inbox'[w] \in {inbox[w], new}
      BY <2>4, <2>5
    <3> QED
      BY <2>6, <2>7, <3>1, <3>2
  <2>9. \A w \in Workers \ {v} : inbox'[w] \cap inbox'[v] \subseteq slow
    BY <2>1, <2>2, <2>4, <2>5
  <2> QED
    BY <2>4, <2>6, <2>8, <2>9
<1>3. ASSUME NEW c \in Consumers,
             CallReadGroup(c) \/ ReadNothing(c) \/ CheckPending(c)
      PROVE  YoungInv'
  BY <1>1, <1>3 DEF CallReadGroup, ReadNothing, CheckPending
<1>4. ASSUME NEW c \in Consumers, AutoClaim(c) PROVE YoungInv'
  <2> DEFINE v == <<c, "claim">>
  <2>1. CASE UNCHANGED <<idle, inbox>>
    BY <1>1, <1>4, <2>1 DEF AutoClaim
  <2>2. CASE HandOut(Claimable) /\ Receive(v, Claimable)
    <3>1. v \in Workers
      BY DEF Workers
    <3>2. Claimable \subseteq {i \in Ids : idle[i] = MinIdle}
      BY DEF Claimable
    <3>3. \A w \in Workers : inbox[w] \cap Claimable \subseteq slow
      BY <3>2
    <3>4. \A i \in Ids : idle'[i] = IF i \in Claimable THEN 0 ELSE idle[i]
      BY <2>2 DEF HandOut
    <3>5. \A w \in Workers \ {v} : inbox'[w] = inbox[w]
      BY <2>2 DEF Receive
    <3>6. inbox'[v] \in {inbox[v], Claimable}
      BY <2>2, <3>1 DEF Receive
    <3>7. slow' = slow
      BY <1>4 DEF AutoClaim
    <3>8. \A w \in Workers \ {v} : inbox'[w] \cap inbox'[v] \subseteq slow
      BY <3>1, <3>3, <3>5, <3>6
    <3>9. \A w \in Workers : \A i \in inbox'[w] \ slow :
            idle'[i] \in 0..(MinIdle - 1)
      <4>1. \A w \in Workers : inbox'[w] \in {inbox[w], Claimable}
        BY <3>5, <3>6
      <4>2. \A i \in Claimable : idle'[i] \in 0..(MinIdle - 1)
        BY <3>2, <3>4
      <4>3. \A w \in Workers : \A i \in inbox[w] \ slow :
              idle'[i] \in 0..(MinIdle - 1)
        BY <3>4
      <4> QED
        BY <4>1, <4>2, <4>3
    <3> QED
      BY <3>5, <3>7, <3>8, <3>9
  <2> QED
    BY <1>4, <2>1, <2>2 DEF AutoClaim
<1>5. ASSUME NEW w \in Workers, NEW i \in Ids, SendNotification(w, i)
      PROVE  YoungInv'
  <2>1. \A v \in Workers : inbox'[v] \subseteq inbox[v]
    BY <1>5 DEF SendNotification, Drop
  <2> QED
    BY <1>5, <2>1 DEF SendNotification
<1>6. ASSUME NEW w \in Workers, NEW i \in Ids, AcknowledgeMessage(w, i)
      PROVE  YoungInv'
  <2>1. \A v \in Workers \ {w} : inbox'[v] = inbox[v] /\ i \notin inbox[v] \ slow
    BY <1>6 DEF AcknowledgeMessage, Drop, IsCurrent
  <2>2. inbox'[w] = inbox[w] \ {i} /\ slow' = slow
    BY <1>6 DEF AcknowledgeMessage, Drop
  <2>3. \A j \in Ids \ {i} : idle'[j] = idle[j]
    BY <1>6 DEF AcknowledgeMessage
  <2> QED
    BY <2>1, <2>2, <2>3
<1>7. CASE Tick
  <2>1. \A w \in Workers : \A i \in inbox[w] \ slow' :
          i \in Ids /\ idle'[i] # MinIdle /\ i \notin slow
    BY <1>7 DEF Tick, InHand
  <2>2. \A w \in Workers : \A i \in inbox[w] \ slow' :
          idle'[i] \in 0..(MinIdle - 1)
    BY <1>7, <2>1 DEF Tick, NotPending
  <2> QED
    BY <1>7, <2>2 DEF Tick
<1>8. ASSUME NEW w \in Workers, NEW i \in Ids, DiscardMalformed(w, i)
      PROVE  YoungInv'
  BY <1>1, <1>8 DEF DiscardMalformed
<1>9. CASE Publish \/ \E c \in Consumers : Start(c) \/ Stop(c)
  BY <1>1, <1>9 DEF Publish, Start, Stop
<1>10. ASSUME NEW c \in Consumers, Exit(c) PROVE YoungInv'
  BY <1>10 DEF Exit
<1> QED
  BY <1>1, <1>2, <1>3, <1>4, <1>5, <1>6, <1>7, <1>8, <1>9, <1>10
     DEF Next, Read, Recover, Process, vars

LEMMA YoungInvariant == Spec => [](TypeOK /\ HoldInv /\ YoungInv)
<1>1. Init => YoungInv
  BY DEF Init, YoungInv, OneHolder
<1>2. TypeOK /\ HoldInv /\ YoungInv /\ [Next]_vars => YoungInv'
  BY YoungInvInductive
<1> QED
  BY <1>1, <1>2, HoldInvariant, PTL DEF Spec

(* Two loops hold the same entry only if one of them had it in hand for    *)
(* MinIdle: reads, claims, lost replies and restarts never hand out twice. *)
THEOREM HandedOutOnce == Spec => []OneHolder
<1>1. YoungInv => OneHolder
  BY DEF YoungInv
<1> QED
  BY <1>1, YoungInvariant, PTL

-----------------------------------------------------------------------------
(* Told once                                                               *)

(* An entry that has been told is either about to be acknowledged by the   *)
(* loop that told it, or Redis has done with it.                           *)
OnceInv ==
  \A i \in Ids : notified[i] > 0 =>
    /\ i <= delivered
    /\ \/ i \in slow \cup failed
       \/ /\ notified[i] = 1
          /\ \/ \E w \in Workers : Acknowledging(w, i)
             \/ idle[i] = NotPending /\ ~InHand(i)

LEMMA OnceInvInductive ==
  ASSUME TypeOK, HoldInv, YoungInv, OnceInv, [Next]_vars PROVE OnceInv'
<1> USE TimeoutStreamAssumption
        DEF TypeOK, OnceInv, Acknowledging, InHand, IsCurrent, stream, trouble
<1>1. CASE UNCHANGED <<delivered, idle, pc, inbox, notified, slow, failed>>
  BY <1>1
<1>2. ASSUME NEW c \in Consumers, ReadGroup(c) PROVE OnceInv'
  <2> DEFINE v   == <<c, "read">>
             new == delivered + 1 .. delivered'
  <2>1. v \in Workers /\ pc[v] # "ack"
    BY <1>2 DEF ReadGroup, Workers
  <2>2. \A w \in Workers \ {v} : inbox'[w] = inbox[w] /\ pc'[w] = pc[w]
    BY <1>2, <2>1 DEF ReadGroup, Receive
  <2>3. inbox'[v] \in {inbox[v], new}
    BY <1>2, <2>1 DEF ReadGroup, Receive
  <2>4. UNCHANGED <<notified, slow, failed>>
    BY <1>2 DEF ReadGroup
  <2>5. delivered' >= delivered /\ delivered' \in Nat
    BY <1>2 DEF ReadGroup, Min2
  <2>6. \A i \in Ids : i <= delivered => idle'[i] = idle[i] /\ i \notin new
    BY <1>2 DEF ReadGroup, HandOut, Ids
  <2>7. ASSUME NEW i \in Ids, notified'[i] > 0
        PROVE  /\ i <= delivered'
               /\ \/ i \in slow' \cup failed'
                  \/ /\ notified'[i] = 1
                     /\ \/ \E w \in Workers : Acknowledging(w, i)'
                        \/ idle'[i] = NotPending /\ ~InHand(i)'
    <3>1. i <= delivered /\ i <= delivered'
      BY <2>4, <2>5, <2>7 DEF Ids
    <3>2. idle'[i] = idle[i] /\ i \notin new
      BY <2>6, <3>1
    <3>3. ~InHand(i) => ~InHand(i)'
      BY <2>1, <2>2, <2>3, <3>2
    <3>4. \A w \in Workers : Acknowledging(w, i) => Acknowledging(w, i)'
      BY <2>1, <2>2
    <3> QED
      BY <2>4, <2>7, <3>1, <3>2, <3>3, <3>4
  <2> QED
    BY <2>7
<1>3. ASSUME NEW c \in Consumers,
             CallReadGroup(c) \/ ReadNothing(c) \/ CheckPending(c)
      PROVE  OnceInv'
  <2>1. UNCHANGED <<delivered, idle, inbox, notified, slow, failed>>
    BY <1>3 DEF CallReadGroup, ReadNothing, CheckPending
  <2>2. \A w \in Workers : pc[w] = "ack" => pc'[w] = "ack"
    BY <1>3 DEF CallReadGroup, ReadNothing, CheckPending
  <2> QED
    BY <2>1, <2>2
<1>4. ASSUME NEW c \in Consumers, AutoClaim(c) PROVE OnceInv'
  <2> DEFINE v == <<c, "claim">>
  <2>1. v \in Workers /\ pc[v] # "ack"
    BY <1>4 DEF AutoClaim, Workers
  <2>2. \A w \in Workers \ {v} : inbox'[w] = inbox[w] /\ pc'[w] = pc[w]
    BY <1>4, <2>1 DEF AutoClaim, Receive
  <2>3. inbox'[v] \in {inbox[v], Claimable}
    BY <1>4, <2>1 DEF AutoClaim, Receive
  <2>4. UNCHANGED <<delivered, notified, slow, failed>>
    BY <1>4 DEF AutoClaim
  <2>5. \A i \in Ids : idle[i] = NotPending =>
          idle'[i] = NotPending /\ i \notin Claimable
    <3>1. \A i \in Ids : idle[i] = NotPending => i \notin Claimable
      BY DEF Claimable, NotPending
    <3>2. HandOut(Claimable) =>
            \A i \in Ids : i \notin Claimable => idle'[i] = idle[i]
      BY DEF HandOut
    <3> QED
      BY <1>4, <3>1, <3>2 DEF AutoClaim
  <2>6. \A w \in Workers, i \in Ids : Acknowledging(w, i) => Acknowledging(w, i)'
    BY <2>1, <2>2
  <2>7. \A i \in Ids : idle[i] = NotPending /\ ~InHand(i) => ~InHand(i)'
    BY <2>1, <2>2, <2>3, <2>5
  <2> QED
    BY <2>4, <2>5, <2>6, <2>7
<1>5. ASSUME NEW w \in Workers, NEW i \in Ids, SendNotification(w, i)
      PROVE  OnceInv'
  <2>1. \A v \in Workers \ {w} : inbox'[v] = inbox[v] /\ pc'[v] = pc[v]
    BY <1>5 DEF SendNotification, Drop
  <2>2. inbox'[w] \subseteq inbox[w] /\ pc[w] # "ack"
    BY <1>5 DEF SendNotification, Drop
  <2>3. UNCHANGED <<delivered, idle, slow>> /\ failed \subseteq failed'
    BY <1>5 DEF SendNotification, Fail
  <2>4. \A j \in Ids \ {i} : notified'[j] = notified[j]
    BY <1>5 DEF SendNotification, Tell
  <2>5. \A v \in Workers, j \in Ids : Acknowledging(v, j) => Acknowledging(v, j)'
    BY <2>1, <2>2
  <2>6. \A j \in Ids : ~InHand(j) => ~InHand(j)'
    BY <2>1, <2>2
  <2>7. i <= delivered /\ InHand(i)
    BY <1>5 DEF SendNotification, HoldInv
  <2>8. i \notin slow \cup failed => notified[i] = 0
    <3>1. \A v \in Workers : Acknowledging(v, i) => i \in slow
      BY <1>5, <2>2 DEF SendNotification, YoungInv, OneHolder
    <3> QED
      BY <2>7, <3>1
  <2>9. \/ i \in failed'
        \/ notified' = notified
        \/ notified'[i] = Min2(notified[i] + 1, 2) /\ Acknowledging(w, i)'
    BY <1>5 DEF SendNotification, Tell, Fail
  <2>10. ASSUME NEW j \in Ids, notified'[j] > 0, j # i \/ notified' = notified
         PROVE  /\ j <= delivered'
                /\ \/ j \in slow' \cup failed'
                   \/ /\ notified'[j] = 1
                      /\ \/ \E v \in Workers : Acknowledging(v, j)'
                         \/ idle'[j] = NotPending /\ ~InHand(j)'
    <3>1. notified'[j] = notified[j]
      BY <2>4, <2>10
    <3> QED
      BY <2>3, <2>5, <2>6, <2>10, <3>1
  <2>11. CASE notified'[i] = Min2(notified[i] + 1, 2) /\ Acknowledging(w, i)'
    <3>1. i \notin slow \cup failed => notified'[i] = 1
      BY <2>8, <2>11 DEF Min2
    <3> QED
      BY <2>3, <2>7, <2>10, <2>11, <3>1
  <2> QED
    BY <2>3, <2>7, <2>9, <2>10, <2>11
<1>6. ASSUME NEW w \in Workers, NEW i \in Ids, DiscardMalformed(w, i)
      PROVE  OnceInv'
  <2>1. UNCHANGED <<delivered, idle, inbox, notified, slow, failed>>
    BY <1>6 DEF DiscardMalformed
  <2>2. \A v \in Workers : pc[v] = "ack" => pc'[v] = "ack"
    BY <1>6 DEF DiscardMalformed
  <2> QED
    BY <2>1, <2>2
<1>7. ASSUME NEW w \in Workers, NEW i \in Ids, AcknowledgeMessage(w, i)
      PROVE  OnceInv'
  <2>1. \A v \in Workers \ {w} : inbox'[v] = inbox[v] /\ pc'[v] = pc[v]
    BY <1>7 DEF AcknowledgeMessage, Drop
  <2>2. inbox'[w] = inbox[w] \ {i}
    BY <1>7 DEF AcknowledgeMessage, Drop
  <2>3. UNCHANGED <<delivered, notified, slow>> /\ failed \subseteq failed'
    BY <1>7 DEF AcknowledgeMessage, Fail
  <2>4. i \in failed' \/ idle'[i] = NotPending
    BY <1>7 DEF AcknowledgeMessage, Fail
  <2>5. \A j \in Ids \ {i} : idle'[j] = idle[j]
    BY <1>7 DEF AcknowledgeMessage
  <2>6. i \in slow \/ ~InHand(i)'
    BY <1>7, <2>1, <2>2 DEF AcknowledgeMessage, YoungInv, OneHolder
  <2>7. \A j \in Ids \ {i} : ~Acknowledging(w, j)
    BY <1>7 DEF AcknowledgeMessage, Ids
  <2>8. \A v \in Workers, j \in Ids \ {i} :
          Acknowledging(v, j) => Acknowledging(v, j)'
    BY <2>1, <2>7
  <2>9. \A j \in Ids : ~InHand(j) => ~InHand(j)'
    BY <2>1, <2>2
  <2>10. ASSUME NEW j \in Ids, notified'[j] > 0
         PROVE  /\ j <= delivered'
                /\ \/ j \in slow' \cup failed'
                   \/ /\ notified'[j] = 1
                      /\ \/ \E v \in Workers : Acknowledging(v, j)'
                         \/ idle'[j] = NotPending /\ ~InHand(j)'
    <3>1. CASE j = i
      BY <2>3, <2>4, <2>6, <2>10, <3>1
    <3>2. CASE j # i
      BY <2>3, <2>5, <2>8, <2>9, <2>10, <3>2
    <3> QED
      BY <3>1, <3>2
  <2> QED
    BY <2>10
<1>8. CASE Tick
  <2>1. UNCHANGED <<delivered, pc, inbox, notified, failed>> /\ slow \subseteq slow'
    BY <1>8 DEF Tick
  <2>2. \A i \in Ids : idle[i] = NotPending => idle'[i] = NotPending
    BY <1>8 DEF Tick
  <2> QED
    BY <2>1, <2>2
<1>9. CASE Publish \/ \E c \in Consumers : Start(c) \/ Stop(c)
  BY <1>1, <1>9 DEF Publish, Start, Stop
<1>10. ASSUME NEW c \in Consumers, Exit(c) PROVE OnceInv'
  <2>1. UNCHANGED <<delivered, idle, notified, slow>>
    BY <1>10 DEF Exit
  <2>2. \A w \in Workers : inbox'[w] \subseteq inbox[w]
    BY <1>10 DEF Exit
  <2>3. \A w \in Workers, i \in Ids :
          Acknowledging(w, i) => i \in failed' \/ Acknowledging(w, i)'
    BY <1>10 DEF Exit, Fail
  <2>4. failed \subseteq failed'
    BY <1>10 DEF Exit, Fail
  <2> QED
    BY <2>1, <2>2, <2>3, <2>4
<1> QED
  BY <1>1, <1>2, <1>3, <1>4, <1>5, <1>6, <1>7, <1>8, <1>9, <1>10
     DEF Next, Read, Recover, Process, vars

(* Only a loop that was too slow, or the loss of an acknowledgement, makes *)
(* the service be told twice: crashes of others, lost replies of reads and *)
(* claims, errors of the service for other entries do not.                 *)
THEOREM OnceUnlessSlowOrUnacknowledged == Spec => []ToldOnce
<1>1. Init => OnceInv
  BY DEF Init, OnceInv
<1>2. TypeOK /\ HoldInv /\ YoungInv /\ OnceInv /\ [Next]_vars => OnceInv'
  BY OnceInvInductive
<1>3. TypeOK /\ OnceInv => ToldOnce
  BY DEF TypeOK, OnceInv, ToldOnce
<1> QED
  BY <1>1, <1>2, <1>3, YoungInvariant, PTL DEF Spec
=============================================================================

--------------------------- MODULE LeaderElection ---------------------------
(***************************************************************************)
(* The leader election of pkg/phase1/leader.go, which both phases use.     *)
(*                                                                         *)
(* Every pod runs, beside its main goroutine, an election loop that tries  *)
(* to take the Redis key "timeout:leader" each time its ticker fires, and  *)
(* any number of callers of IsLeader() (the HTTP handlers, Phase 1's       *)
(* cleanup routine, Phase 2's detection loop).  They share the unprotected *)
(* field le.isLeader: each access of it, and each Redis command, is a step *)
(* of its own.  Time is a tick of the server's clock; a tick may fall      *)
(* between any two steps, so a pod may be arbitrarily slow, unless         *)
(* Punctual says otherwise.                                                *)
(***************************************************************************)
EXTENDS Naturals

CONSTANTS
  Pods,              \* the pods, by POD_ID: a restarted pod keeps its id
  NoPod,             \* the value of the leader key while it does not exist
  Callers,           \* the goroutines of a pod that call IsLeader()
  TTL,               \* LEADER_ELECTION_TTL in ticks
  ElectionInterval,  \* period of the election ticker in ticks
  RefusalErrors,     \* is a refused SET NX an error?  {TRUE} for go-redis v8
  RedisFaults,       \* commands may fail, with or without being executed
  Punctual           \* no pod lets a tick pass with something left to do

ASSUME LeaderElectionAssumption ==
  /\ NoPod \notin Pods
  /\ TTL \in Nat
  /\ ElectionInterval \in Nat \ {0}
  /\ RefusalErrors \subseteq BOOLEAN
  /\ RedisFaults \in BOOLEAN
  /\ Punctual \in BOOLEAN

VARIABLES
  leaderKey,  \* Redis: the pod the key "timeout:leader" names
  keyTTL,     \* Redis: ticks until the key expires (0: it does not)
  isLeader,   \* le.isLeader of each pod
  due,        \* ticks until the election ticker of each pod fires
  fired,      \* a tick waits in the ticker's channel
  elect,      \* where the election loop of each pod is
  ask,        \* where each caller of IsLeader() is
  proc        \* where the main goroutine of each pod is

redis  == <<leaderKey, keyTTL>>
ticker == <<due, fired>>
vars   == <<leaderKey, keyTTL, isLeader, due, fired, elect, ask, proc>>

(* "won": SET NX answered OK.  "renew": about to extend the key.  "beaten":*)
(* SET NX answered nil and nil is no error.  "verify": about to read the   *)
(* key.  "deposed": about to lower the flag.                               *)
ElectState == {"off", "idle", "won", "renew", "beaten", "verify", "deposed"}

(* "mine", "other", "failed": what GET told the caller.  "mineSet",        *)
(* "otherSet": the flag has been brought in line, it is about to be        *)
(* returned.  "yes": the caller acts as the leader.                        *)
AskState == {"idle", "mine", "other", "failed", "mineSet", "otherSet", "yes"}

(* "closed": stopCh is closed.  "resigning": about to delete the key.      *)
(* "clearing": about to lower the flag.  "stopped": le.Stop() returned.    *)
ProcState == {"down", "running", "closed", "resigning", "clearing", "stopped"}

-----------------------------------------------------------------------------
Init ==
  /\ leaderKey = NoPod
  /\ keyTTL = 0
  /\ isLeader = [p \in Pods |-> FALSE]
  /\ due = [p \in Pods |-> ElectionInterval]
  /\ fired = [p \in Pods |-> FALSE]
  /\ elect = [p \in Pods |-> "off"]
  /\ ask = [p \in Pods |-> [c \in Callers |-> "idle"]]
  /\ proc = [p \in Pods |-> "down"]

(* Faulty variants: the key is written without an expiry; its expiry is in *)
(* another unit than the TTL.                                              *)
SetKeyForever(p) == leaderKey' = p /\ keyTTL' = 0
SetKeyTooLong(p) == leaderKey' = p /\ keyTTL' = 2 * TTL

SetKey(p) == leaderKey' = p /\ keyTTL' = TTL
DropKey   == leaderKey' = NoPod /\ keyTTL' = 0

Goto(p, s)      == elect' = [elect EXCEPT ![p] = s]
Answer(p, c, s) == ask' = [ask EXCEPT ![p][c] = s]
Proceed(p, s)   == proc' = [proc EXCEPT ![p] = s]
SetFlag(p, b)   == isLeader' = [isLeader EXCEPT ![p] = b]

-----------------------------------------------------------------------------
(* Start creates the ticker: its first tick is a whole interval away.      *)
Start(p) ==
  /\ proc[p] = "down"
  /\ Proceed(p, "running")
  /\ Goto(p, "idle")
  /\ due' = [due EXCEPT ![p] = ElectionInterval]
  /\ UNCHANGED <<redis, isLeader, fired, ask>>

(* The election loop receives a tick.  It may do so even after stopCh has  *)
(* been closed, for select picks at random among the ready channels.       *)
Receive(p) ==
  /\ elect[p] = "idle"
  /\ fired[p]
  /\ fired' = [fired EXCEPT ![p] = FALSE]

(* The pod is refused.  The code is written for a client that answers with *)
(* an empty string; go-redis v8 returns the error redis.Nil, and with it   *)
(* the attempt is over.                                                    *)
Refused(p) ==
  \/ TRUE \in RefusalErrors  /\ Goto(p, "idle")
  \/ FALSE \in RefusalErrors /\ Goto(p, "beaten")

(* Faulty variant: a plain SET, without NX.                                *)
SetSucceeds(p) == SetKey(p) /\ Goto(p, "won")

SetNXSucceeds(p) == leaderKey = NoPod /\ SetKey(p) /\ Goto(p, "won")

(* Faulty variant: the loop ends with its first defeat.                    *)
GivesUpWhenRefused(p) ==
  /\ leaderKey # NoPod
  /\ Goto(p, "off")
  /\ UNCHANGED redis

SetNXRefused(p) ==
  /\ leaderKey # NoPod
  /\ Refused(p)
  /\ UNCHANGED redis

(* The command failed; it may have been executed all the same.             *)
SetNXFails(p) ==
  /\ RedisFaults
  /\ Goto(p, "idle")
  /\ \/ UNCHANGED redis
     \/ leaderKey = NoPod /\ SetKey(p)

(* The command was executed, its reply was lost, and the client sent it    *)
(* again: the pod is refused a key that already names it.                  *)
SetNXRetried(p) ==
  /\ RedisFaults
  /\ leaderKey = NoPod
  /\ SetKey(p)
  /\ Refused(p)

TryBecomeLeader(p) ==
  /\ Receive(p)
  /\ \/ SetNXSucceeds(p)
     \/ SetNXRefused(p)
     \/ SetNXFails(p)
     \/ SetNXRetried(p)
  /\ UNCHANGED <<isLeader, due, ask, proc>>

WonElection(p) ==
  /\ elect[p] = "won"
  /\ SetFlag(p, TRUE)
  /\ Goto(p, "renew")
  /\ UNCHANGED <<redis, ticker, ask, proc>>

(* Faulty variant: EXPIRE without the comparison.                          *)
ExtendAnybody(p) ==
  /\ leaderKey # NoPod
  /\ keyTTL' = TTL
  /\ UNCHANGED leaderKey

(* The script extends the key if it still names the pod; EXPIRE with a     *)
(* time of zero deletes it.  If only its reply is lost it is sent again.   *)
ExtendKey(p) ==
  /\ leaderKey = p
  /\ IF TTL = 0 THEN DropKey ELSE SetKey(p)

RenewLeadership(p) ==
  /\ elect[p] = "renew"
  /\ \/ ExtendKey(p) /\ Goto(p, "idle")
     \/ leaderKey # p /\ Goto(p, "deposed") /\ UNCHANGED redis
     \/ RedisFaults /\ Goto(p, "deposed") /\ (ExtendKey(p) \/ UNCHANGED redis)
     \/ RedisFaults /\ ExtendKey(p) /\ UNCHANGED elect
  /\ UNCHANGED <<isLeader, ticker, ask, proc>>

(* The branch for a refused SET NX that is not an error: a pod that thinks *)
(* it is the leader reads the key.                                         *)
VerifyLeadership(p) ==
  /\ \/ elect[p] = "beaten" /\ Goto(p, IF isLeader[p] THEN "verify" ELSE "idle")
     \/ elect[p] = "verify" /\ leaderKey = p /\ Goto(p, "idle")
     \/ /\ elect[p] = "verify"
        /\ leaderKey # p \/ RedisFaults
        /\ Goto(p, "deposed")
  /\ UNCHANGED <<redis, isLeader, ticker, ask, proc>>

LoseLeadership(p) ==
  /\ elect[p] = "deposed"
  /\ SetFlag(p, FALSE)
  /\ Goto(p, "idle")
  /\ UNCHANGED <<redis, ticker, ask, proc>>

ElectionLoopReturns(p) ==
  /\ elect[p] = "idle"
  /\ proc[p] # "running"
  /\ Goto(p, "off")
  /\ due' = [due EXCEPT ![p] = ElectionInterval]
  /\ fired' = [fired EXCEPT ![p] = FALSE]
  /\ UNCHANGED <<redis, isLeader, ask, proc>>

-----------------------------------------------------------------------------
(* IsLeader(): a GET, then the flag is brought in line with its answer,    *)
(* then the flag is read once more and returned.  A missing key is an      *)
(* error of the client (redis.Nil) like any other.                         *)
IsLeaderGet(p, c) ==
  /\ proc[p] # "down"
  /\ ask[p][c] = "idle"
  /\ \/ leaderKey = p /\ Answer(p, c, "mine")
     \/ leaderKey \in Pods \ {p} /\ Answer(p, c, "other")
     \/ (leaderKey = NoPod \/ RedisFaults) /\ Answer(p, c, "failed")
  /\ UNCHANGED <<redis, isLeader, ticker, elect, proc>>

(* Faulty variant: an error leaves the flag as it is.                      *)
IsLeaderKeepsFlag(p, c) ==
  /\ ask[p][c] = "failed"
  /\ Answer(p, c, "idle")
  /\ UNCHANGED <<redis, isLeader, ticker, elect, proc>>

IsLeaderFails(p, c) ==
  /\ ask[p][c] = "failed"
  /\ SetFlag(p, FALSE)
  /\ Answer(p, c, "idle")
  /\ UNCHANGED <<redis, ticker, elect, proc>>

(* Faulty variants: whoever the key names, there is a leader; another pod  *)
(* found in the key does not lower the flag.                               *)
IsLeaderBelieves(p, c) ==
  /\ ask[p][c] \in {"mine", "other"}
  /\ SetFlag(p, TRUE)
  /\ Answer(p, c, "mineSet")
  /\ UNCHANGED <<redis, ticker, elect, proc>>

IsLeaderOnlyRaises(p, c) ==
  /\ \/ ask[p][c] = "mine"  /\ SetFlag(p, TRUE)   /\ Answer(p, c, "mineSet")
     \/ ask[p][c] = "other" /\ UNCHANGED isLeader /\ Answer(p, c, "otherSet")
  /\ UNCHANGED <<redis, ticker, elect, proc>>

IsLeaderUpdates(p, c) ==
  /\ \/ ask[p][c] = "mine"  /\ SetFlag(p, TRUE)  /\ Answer(p, c, "mineSet")
     \/ ask[p][c] = "other" /\ SetFlag(p, FALSE) /\ Answer(p, c, "otherSet")
  /\ UNCHANGED <<redis, ticker, elect, proc>>

IsLeaderReturns(p, c) ==
  /\ ask[p][c] \in {"mineSet", "otherSet"}
  /\ Answer(p, c, IF isLeader[p] THEN "yes" ELSE "idle")
  /\ UNCHANGED <<redis, isLeader, ticker, elect, proc>>

(* The caller has done what only the leader may do.                        *)
LeaderWorkDone(p, c) ==
  /\ ask[p][c] = "yes"
  /\ Answer(p, c, "idle")
  /\ UNCHANGED <<redis, isLeader, ticker, elect, proc>>

-----------------------------------------------------------------------------
(* Stop(): close stopCh, then resign if the flag is up.                    *)
Stop(p) ==
  /\ proc[p] = "running"
  /\ Proceed(p, "closed")
  /\ UNCHANGED <<redis, isLeader, ticker, elect, ask>>

StopReadsFlag(p) ==
  /\ proc[p] = "closed"
  /\ Proceed(p, IF isLeader[p] THEN "resigning" ELSE "stopped")
  /\ UNCHANGED <<redis, isLeader, ticker, elect, ask>>

(* Faulty variant: a DEL without the comparison.                           *)
ResignUnconditionally(p) ==
  /\ proc[p] = "resigning"
  /\ Proceed(p, "clearing")
  /\ DropKey
  /\ UNCHANGED <<isLeader, ticker, elect, ask>>

(* The script deletes the key if it still names the pod; it, too, is sent  *)
(* again if only its reply is lost.                                        *)
ResignLeadership(p) ==
  /\ proc[p] = "resigning"
  /\ \/ leaderKey = p /\ DropKey /\ Proceed(p, "clearing")
     \/ /\ leaderKey # p \/ RedisFaults
        /\ Proceed(p, "clearing")
        /\ UNCHANGED redis
     \/ RedisFaults /\ leaderKey = p /\ DropKey /\ UNCHANGED proc
  /\ UNCHANGED <<isLeader, ticker, elect, ask>>

Resigned(p) ==
  /\ proc[p] = "clearing"
  /\ SetFlag(p, FALSE)
  /\ Proceed(p, "stopped")
  /\ UNCHANGED <<redis, ticker, elect, ask>>

(* The process ends: main returns after Stop, or the pod crashes at any    *)
(* point.  What it kept in memory is gone, its key is not.                 *)
Exit(p) ==
  /\ proc[p] # "down"
  /\ Proceed(p, "down")
  /\ SetFlag(p, FALSE)
  /\ Goto(p, "off")
  /\ ask' = [ask EXCEPT ![p] = [c \in Callers |-> "idle"]]
  /\ due' = [due EXCEPT ![p] = ElectionInterval]
  /\ fired' = [fired EXCEPT ![p] = FALSE]
  /\ UNCHANGED redis

-----------------------------------------------------------------------------
(* Nothing of the pod is under way and no tick waits for its loop.         *)
Settled(p) ==
  /\ elect[p] \in {"off", "idle"}
  /\ ~fired[p]
  /\ \A c \in Callers : ask[p][c] = "idle"
  /\ proc[p] \in {"down", "running", "stopped"}

(* The key loses a tick of its life and is gone with the last one.         *)
AgeKey ==
  IF keyTTL = 1 THEN DropKey
  ELSE /\ keyTTL' = IF keyTTL = 0 THEN 0 ELSE keyTTL - 1
       /\ UNCHANGED leaderKey

(* A ticker fires every ElectionInterval; its channel holds one tick and   *)
(* further ones are dropped.                                               *)
Fires(p) == elect[p] # "off" /\ due[p] = 1

Tick ==
  /\ Punctual => \A p \in Pods : Settled(p)
  /\ AgeKey
  /\ due' = [p \in Pods |->
               IF elect[p] = "off" \/ Fires(p) THEN ElectionInterval
                                               ELSE due[p] - 1]
  /\ fired' = [p \in Pods |-> fired[p] \/ Fires(p)]
  /\ UNCHANGED <<isLeader, elect, ask, proc>>

-----------------------------------------------------------------------------
ElectionStep(p) == \/ TryBecomeLeader(p) \/ WonElection(p)
                   \/ RenewLeadership(p) \/ VerifyLeadership(p)
                   \/ LoseLeadership(p) \/ ElectionLoopReturns(p)

AskStep(p, c) == \/ IsLeaderGet(p, c) \/ IsLeaderFails(p, c)
                 \/ IsLeaderUpdates(p, c) \/ IsLeaderReturns(p, c)
                 \/ LeaderWorkDone(p, c)

StopStep(p) == StopReadsFlag(p) \/ ResignLeadership(p) \/ Resigned(p)

PodStep(p) == \/ Start(p) \/ Stop(p) \/ Exit(p)
              \/ ElectionStep(p)
              \/ \E c \in Callers : AskStep(p, c)
              \/ StopStep(p)

Next == Tick \/ \E p \in Pods : PodStep(p)

Spec == Init /\ [][Next]_vars

(* Goroutines are scheduled, so a started call ends; a pod is asked again  *)
(* and again whether it leads (hourly in Phase 1, every detection period   *)
(* in Phase 2); time passes.  Nothing obliges a pod to start, stop or die. *)
Fairness ==
  /\ WF_vars(Tick)
  /\ \A p \in Pods : WF_vars(ElectionStep(p)) /\ WF_vars(StopStep(p))
  /\ \A p \in Pods, c \in Callers : WF_vars(AskStep(p, c))

FairSpec == Spec /\ Fairness

-----------------------------------------------------------------------------
(***************************************************************************)
(* Properties                                                              *)
(***************************************************************************)

(* Every variable stays within the states the code can be in.              *)
TypeOK ==
  /\ leaderKey \in Pods \cup {NoPod}
  /\ keyTTL \in 0..TTL
  /\ isLeader \in [Pods -> BOOLEAN]
  /\ due \in [Pods -> 1..ElectionInterval]
  /\ fired \in [Pods -> BOOLEAN]
  /\ elect \in [Pods -> ElectState]
  /\ ask \in [Pods -> [Callers -> AskState]]
  /\ proc \in [Pods -> ProcState]

(* A leader key always carries an expiry, whatever was lost, retried or    *)
(* interrupted on the way: a pod that dies cannot keep it for ever.        *)
HeldKeyExpires ==
  TTL > 0 => (leaderKey # NoPod <=> keyTTL > 0)

(* A key is taken away from a pod by its expiry or by that pod's own       *)
(* resignation, never by another pod's: a resignation that was overtaken   *)
(* by an expiry and a new election does not remove the new leader's key.   *)
(* (A TTL of 0 is the exception: there the winner's own renewal drops it.) *)
OwnerReleases ==
  [][\A p \in Pods :
       leaderKey = p /\ leaderKey' # p =>
         \/ keyTTL = 1
         \/ proc[p] = "resigning"
         \/ TTL = 0 /\ elect[p] = "renew"]_vars

(* The key of a pod that is down only ages, until it expires: no command   *)
(* of another pod, however late, gives it a new life.  So the others wait  *)
(* for at most TTL ticks.                                                  *)
DeadPodsKeyAges ==
  [][\A p \in Pods :
       TTL > 0 /\ leaderKey = p /\ proc[p] = "down" =>
         IF leaderKey' = p THEN keyTTL' <= keyTTL ELSE keyTTL = 1]_vars

(* The leader key is a lease: see module Lease.                            *)
KeyLease == INSTANCE Lease WITH holder <- leaderKey, remaining <- keyTTL

LeaseSpec == KeyLease!Spec

-----------------------------------------------------------------------------
(***************************************************************************)
(* What the repository's texts say and the code does not do                *)
(***************************************************************************)

(* scripts/test-multi-leader.sh: "Only ONE instance became leader at any   *)
(* time".  Here of running pods only, between two ticks of an election in  *)
(* which every pod has done all it had to do: what is left is the flag of  *)
(* a leader whose SET NX was refused, which leader.go:112 never lowers.    *)
ThinksItLeads(p) == isLeader[p] /\ proc[p] = "running" /\ Settled(p)

AtMostOneLeader ==
  \A p, q \in Pods : ThinksItLeads(p) /\ ThinksItLeads(q) => p = q

(* leader.go, tryBecomeLeader: "Renew leadership".  A leader that stays up *)
(* and reaches Redis keeps its key: it does not run out under it.          *)
LeaseKept ==
  [][\A p \in Pods :
       leaderKey = p /\ isLeader[p] /\ proc[p] = "running" =>
         leaderKey' = p \/ proc'[p] # "running"]_vars
=============================================================================

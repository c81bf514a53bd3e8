------------------------------- MODULE Service -------------------------------
(***************************************************************************)
(* The life of a pod of either phase, pkg/phase1/service.go and            *)
(* pkg/phase2/service.go: what starts, what ends, in which order, and who  *)
(* acts on the leadership meanwhile.                                       *)
(*                                                                         *)
(* This module composes LeaderElection with the users of its verdict.  The *)
(* check loop trusts the field le.isLeader; the worker (Phase 1's cleanup  *)
(* routine, Phase 2's detection loop) and the HTTP handlers for /health    *)
(* and /status call IsLeader().  Stop() resigns before it shuts the HTTP   *)
(* server down, and it stops neither the worker nor a request in progress. *)
(*                                                                         *)
(* The pods in Detailed run this program.  Of the other pods only what     *)
(* they do to the leader key is modelled, and that is what a lease allows: *)
(* LeaderElection implements Lease.                                        *)
(***************************************************************************)
EXTENDS LeaderElection

CONSTANTS
  Detailed,  \* the pods whose program is modelled
  Worker,    \* the caller of IsLeader() that works if it is the leader
  Handler    \* the caller of IsLeader() that answers HTTP requests

ASSUME ServiceAssumption ==
  /\ Detailed \subseteq Pods
  /\ Callers = {Worker, Handler}

VARIABLES
  check,   \* where timeoutCheckLoop of each pod is
  server,  \* the HTTP server of each pod
  owned,   \* history: the pods the key has named since they were started
  behind   \* history: the pods that let the latest tick of the clock pass
           \*          with a call of IsLeader(), or the step from the won
           \*          SET NX to the flag, under way

past        == <<owned, behind>>
serviceVars == <<leaderKey, keyTTL, isLeader, due, fired, elect, ask, proc,
                 check, server, owned, behind>>

-----------------------------------------------------------------------------
ServiceInit ==
  /\ Init
  /\ check = [p \in Pods |-> "off"]
  /\ server = [p \in Pods |-> "off"]
  /\ owned = {}
  /\ behind = {}

CheckLoop(p, s)  == check' = [check EXCEPT ![p] = s]
HTTPServer(p, s) == server' = [server EXCEPT ![p] = s]

(* The pods the key names after the step have owned it.                    *)
NoteOwner ==
  /\ owned' = owned \cup ({leaderKey'} \ {NoPod})
  /\ UNCHANGED behind

(* Start: the two loops of the leader election, the HTTP server, and the   *)
(* cleanup routine or detection loop.  A restarted pod may find its key.   *)
StartService(p) ==
  /\ Start(p)
  /\ CheckLoop(p, "idle")
  /\ HTTPServer(p, "serving")
  /\ owned' = (owned \ {p}) \cup ({leaderKey} \cap {p})
  /\ UNCHANGED behind

(* timeoutCheckLoop: a tick, taken even after stopCh has been closed if    *)
(* select says so.                                                         *)
BeginCheck(p) ==
  /\ check[p] = "idle"
  /\ isLeader[p]
  /\ CheckLoop(p, "busy")
  /\ UNCHANGED <<vars, server, past>>

EndCheck(p) ==
  /\ check[p] = "busy"
  /\ CheckLoop(p, "idle")
  /\ UNCHANGED <<vars, server, past>>

(* Faulty variants: the loop ends when the flag is down; it ends with the  *)
(* process only.                                                           *)
CheckLoopGivesUp(p) ==
  /\ check[p] = "idle"
  /\ ~isLeader[p] \/ proc[p] # "running"
  /\ CheckLoop(p, "off")
  /\ UNCHANGED <<vars, server, past>>
CheckLoopGoesOn(p) ==
  /\ proc[p] = "down"
  /\ CheckLoop(p, "off")
  /\ UNCHANGED <<vars, server, past>>

CheckLoopReturns(p) ==
  /\ check[p] = "idle"
  /\ proc[p] # "running"
  /\ CheckLoop(p, "off")
  /\ UNCHANGED <<vars, server, past>>

(* The election goes on; a handler asks only while requests are accepted.  *)
Elect(p) ==
  /\ ElectionStep(p) \/ Stop(p) \/ StopStep(p)
  /\ NoteOwner
  /\ UNCHANGED <<check, server>>

Ask(p, c) ==
  /\ AskStep(p, c)
  /\ c = Handler /\ ask[p][c] = "idle" => server[p] = "serving"
  /\ UNCHANGED <<check, server, past>>

(* Shutdown of the HTTP server, once leaderElection.Stop() has returned:   *)
(* no new requests; it waits ten seconds for those in progress.            *)
Shutdown(p) ==
  /\ proc[p] = "stopped"
  /\ server[p] = "serving"
  /\ HTTPServer(p, "draining")
  /\ UNCHANGED <<vars, check, past>>

ShutdownReturns(p) ==
  /\ server[p] = "draining"
  /\ HTTPServer(p, "off")
  /\ UNCHANGED <<vars, check, past>>

(* main returns, or the pod crashes at any point.                          *)
ExitService(p) ==
  /\ Exit(p)
  /\ CheckLoop(p, "off")
  /\ HTTPServer(p, "off")
  /\ UNCHANGED past

-----------------------------------------------------------------------------
(* A pod that is not detailed: whatever a lease allows.                    *)
OtherPod(q) ==
  /\ KeyLease!Grant(q) \/ KeyLease!Extend(q) \/ KeyLease!Release(q)
  /\ NoteOwner
  /\ UNCHANGED <<isLeader, ticker, elect, ask, proc, check, server>>

(* A tick falls between two steps of what the pod has under way.           *)
UnderWay(p) == elect[p] = "won" \/ \E c \in Callers : ask[p][c] # "idle"

Time ==
  /\ Tick
  /\ behind' = {p \in Detailed : UnderWay(p)}
  /\ UNCHANGED <<check, server, owned>>

DetailedPod(p) == \/ StartService(p) \/ ExitService(p)
                  \/ Elect(p)
                  \/ \E c \in Callers : Ask(p, c)
                  \/ BeginCheck(p) \/ EndCheck(p) \/ CheckLoopReturns(p)
                  \/ Shutdown(p) \/ ShutdownReturns(p)

ServiceNext == \/ \E p \in Detailed : DetailedPod(p)
               \/ \E q \in Pods \ Detailed : OtherPod(q)
               \/ Time

ServiceSpec == ServiceInit /\ [][ServiceNext]_serviceVars

ElectForth(p) == /\ ElectionStep(p) \/ StopStep(p)
                 /\ NoteOwner
                 /\ UNCHANGED <<check, server>>
ElectionEnds(p) == ElectionLoopReturns(p) /\ UNCHANGED <<check, server, past>>

(* Started calls go on, each user of the leadership comes back again and   *)
(* again, a stop is carried through, time passes.  select takes each ready *)
(* channel again and again, so a closed stopCh is noticed (SF); and a      *)
(* leadership lasts for several periods of the check loop (CHECK_INTERVAL  *)
(* against LEADER_ELECTION_TTL), so the loop finds the flag up again and   *)
(* again if it is up again and again (SF).  The handlers are asked by whom *)
(* they please: they have to finish only what they have begun.             *)
ServiceFairness ==
  /\ WF_serviceVars(Time)
  /\ \A p \in Detailed :
       /\ WF_serviceVars(ElectForth(p))
       /\ SF_serviceVars(ElectionEnds(p))
       /\ WF_serviceVars(Ask(p, Worker))
       /\ WF_serviceVars(Ask(p, Handler) /\ ask[p][Handler] # "idle")
       /\ SF_serviceVars(BeginCheck(p))
       /\ WF_serviceVars(EndCheck(p))
       /\ SF_serviceVars(CheckLoopReturns(p))
       /\ WF_serviceVars(Shutdown(p))
       /\ WF_serviceVars(ShutdownReturns(p))

ServiceFairSpec == ServiceSpec /\ ServiceFairness

-----------------------------------------------------------------------------
(***************************************************************************)
(* Properties                                                              *)
(***************************************************************************)

(* Every variable stays within the states the code can be in.              *)
ServiceTypeOK ==
  /\ TypeOK
  /\ check \in [Pods -> {"off", "idle", "busy"}]
  /\ server \in [Pods -> {"off", "serving", "draining"}]
  /\ owned \subseteq Pods
  /\ behind \subseteq Detailed

(* A pod believes that it leads, and acts as the leader, only if the key   *)
(* has named it at some time since it was started: stale the belief may be *)
(* (AtMostOneLeader), unfounded it is not.                                 *)
LeadershipEarned ==
  \A p \in Detailed :
    isLeader[p] \/ ask[p][Worker] = "yes" => p \in owned

(* Whoever IsLeader() told that its pod leads finds the key in the pod's   *)
(* hands as long as the pod runs and the clock does not tick meanwhile:    *)
(* the read of the flag that ends the call is not taken in by a flag that  *)
(* another caller or the election loop raises after the GET.               *)
VerifiedLeaderHoldsKey ==
  TTL > 0 =>
    \A p \in Detailed \ behind : \A c \in Callers :
      proc[p] = "running" /\ ask[p][c] = "yes" => leaderKey = p

(* A pod that is down for good does not keep the key: the others are not   *)
(* locked out by a crash.                                                  *)
DeadPodsLetGo ==
  \A p \in Detailed :
    leaderKey = p ~> leaderKey # p \/ proc[p] # "down"

(* As long as a pod stays up, the key is taken again and again: after      *)
(* every expiry, resignation or crash a leader is elected.                 *)
LeaderReelected ==
  \A p \in Detailed :
    <>[](proc[p] = "running") => []<>(leaderKey # NoPod)

(* A pod whose flag is up while the key does not name it loses the flag or *)
(* gets the key in the end, thanks to the callers of IsLeader() alone.     *)
StaleFlagCleared ==
  \A p \in Detailed : isLeader[p] ~> ~isLeader[p] \/ leaderKey = p

(* A pod that stays up checks for timeouts again and again, or another pod *)
(* holds the key again and again.                                          *)
ChecksGoOn ==
  \A p \in Detailed :
    <>[](proc[p] = "running") =>
      []<>(check[p] = "busy") \/ []<>(leaderKey \notin {p, NoPod})

(* Once Stop() has returned the pod ceases to lead, though an election     *)
(* attempt or a call of IsLeader() may still be under way: in the end it   *)
(* has no key, checks nothing and is told by IsLeader() that it does not   *)
(* lead.                                                                   *)
StoppedPodRetires ==
  \A p \in Detailed :
    <>[](proc[p] = "stopped") =>
      <>[](leaderKey # p /\ check[p] = "off" /\ ask[p][Worker] # "yes")
=============================================================================

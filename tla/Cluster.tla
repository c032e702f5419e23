------------------------------- MODULE Cluster -------------------------------
(***************************************************************************)
(* Agents started with `cortex infer --p2p`, some with --saas-endpoint:    *)
(* InferCommand.Execute (cmd/cortex/command/infer.go) creates the gossip   *)
(* node and the telemetry client, runs the detection between them, and     *)
(* shuts both down when Run returns.                                       *)
(*                                                                         *)
(* Of Run only its calls are kept: healthy lines are learned and passed on *)
(* to peers, anomalies are reported, heartbeats are sent.  Module          *)
(* Inference has the rest; GracefulDrain there says that Run returns after *)
(* the last of them but for the heartbeats, whose goroutine is not joined. *)
(***************************************************************************)
EXTENDS Gossip, Telemetry

ASSUME ClusterAssumption == Agents \subseteq Nodes

VARIABLES pc   \* where Execute is on each node

vars == <<gossipVars, telemetryVars, pc>>

TypeOK ==
  /\ GossipTypes
  /\ TelemetryTypes
  /\ pc \in [Nodes -> {"start", "created", "join", "dial", "run", "close", "leave", "exited"}]

Init ==
  /\ GossipInit
  /\ TelemetryInit
  /\ pc = [n \in Nodes |-> "start"]

GoTo(n, next) == pc' = [pc EXCEPT ![n] = next]

-----------------------------------------------------------------------------
(* Execute.                                                                *)

(* The process ends, and with it memberlist and whatever is in flight.     *)
Exit(n) ==
  /\ Shutdown(n)
  /\ IF n \in Agents THEN Close(n) ELSE UNCHANGED telemetryVars
  /\ GoTo(n, "exited")

(* NewGossipNode: memberlist is created and runs ...                       *)
StartGossip(n) ==
  /\ pc[n] = "start"
  /\ Create(n)
  /\ GoTo(n, "created")
  /\ UNCHANGED telemetryVars

(* ... before node.broadcasts is assigned ...                              *)
AssignBroadcasts(n) ==
  /\ pc[n] = "created"
  /\ GoTo(n, "join")
  /\ UNCHANGED <<gossipVars, telemetryVars>>

(* ... so a node whom others have already found may ask a nil queue for    *)
(* its broadcasts, and the process panics.                                 *)
Panic(n) ==
  /\ pc[n] = "created"
  /\ members[n] # {n}
  /\ Exit(n)

(* A seed answers; or none does, which is a warning, and not tried again.  *)
JoinCluster(n) ==
  /\ pc[n] = "join"
  /\ Join(n) \/ UNCHANGED gossipVars
  /\ GoTo(n, "dial")
  /\ UNCHANGED telemetryVars

(* The client is created (the connection comes later), and Run begins.     *)
StartRun(n) ==
  /\ pc[n] = "dial"
  /\ IF n \in Agents THEN Dial(n) ELSE UNCHANGED telemetryVars
  /\ GoTo(n, "run")
  /\ UNCHANGED gossipVars

(* memberlist.Create fails; the client cannot be created; no log file is   *)
(* given: the process ends at once, the last two without Shutdown.         *)
StartFails(n) ==
  /\ pc[n] \in {"start", "dial"}
  /\ Exit(n)

(* Run returns: the log stream is at its end, after a signal or without.   *)
RunReturns(n) ==
  /\ pc[n] = "run"
  /\ GoTo(n, "close")
  /\ UNCHANGED <<gossipVars, telemetryVars>>

(* The deferred calls, last first.                                         *)
CloseTelemetry(n) ==
  /\ pc[n] = "close"
  /\ IF n \in Agents THEN Close(n) ELSE UNCHANGED telemetryVars
  /\ GoTo(n, "leave")
  /\ UNCHANGED gossipVars

ShutdownGossip(n) ==
  /\ pc[n] = "leave"
  /\ Exit(n)

ExecuteStep(n) ==
  \/ StartGossip(n) \/ AssignBroadcasts(n) \/ JoinCluster(n) \/ StartRun(n)
  \/ CloseTelemetry(n) \/ ShutdownGossip(n)

-----------------------------------------------------------------------------
(* What goes on meanwhile.                                                 *)

Learn(n) ==
  /\ pc[n] = "run"
  /\ \E l \in Healthy[n] : BroadcastBaseline(n, l)
  /\ UNCHANGED <<telemetryVars, pc>>

Report(a) ==
  /\ pc[a] = "run"
  /\ \E c \in Anomalies : Call(a, c)
  /\ UNCHANGED <<gossipVars, pc>>

SendHeartbeat(a) ==
  /\ pc[a] \in {"run", "close", "leave"}
  /\ Call(a, Beat)
  /\ UNCHANGED <<gossipVars, pc>>

ControlPlane ==
  /\ \E a \in Agents, c \in Calls : Answer(a, c)
  /\ UNCHANGED <<gossipVars, pc>>

Deadline(a, c) == Expire(a, c) /\ UNCHANGED <<gossipVars, pc>>

GossipTick(n) ==
  /\ pc[n] # "created"
  /\ \E m \in Nodes : GetBroadcasts(n, m)
  /\ UNCHANGED <<telemetryVars, pc>>

Receive(n, u) == NotifyMsg(n, u) /\ UNCHANGED <<telemetryVars, pc>>

Network ==
  /\ \E n \in Nodes : \/ \E u \in Updates : Lose(n, u)
                      \/ \E m \in Nodes : NoticeDeath(n, m)
  /\ UNCHANGED <<telemetryVars, pc>>

Ended == (\A n \in Nodes : pc[n] = "exited") /\ UNCHANGED vars

Next ==
  \/ \E n \in Nodes :
       \/ ExecuteStep(n) \/ Panic(n) \/ StartFails(n) \/ RunReturns(n)
       \/ Learn(n) \/ GossipTick(n) \/ \E u \in Updates : Receive(n, u)
  \/ \E a \in Agents : Report(a) \/ SendHeartbeat(a) \/ \E c \in Calls : Deadline(a, c)
  \/ ControlPlane
  \/ Network
  \/ Ended

(* memberlist's ticker ticks.  Nobody need join, learn, report or answer,  *)
(* no packet need arrive, no death be noticed.                             *)
Spec ==
  /\ Init
  /\ [][Next]_vars
  /\ \A n \in Nodes : WF_vars(GossipTick(n))

-----------------------------------------------------------------------------
(* Properties.                                                             *)

(* No feedback: whatever is lost, repeated or overtaken, a node blends an  *)
(* update of its own once, when it learns it, and never gets it back; any  *)
(* other node blends it at most RetransmitMult times, counting what is in  *)
(* flight and what is still to be sent (gossip.go:32-48, 102-115).         *)
NoFeedback ==
  \A u \in Updates : LET own == u[1] IN
    /\ blended[own][u] <= 1
    /\ network[own][u] = 0
    /\ \A n \in Nodes \ {own} :
         /\ broadcasts[n][u] = 0
         /\ blended[n][u] + network[n][u] + broadcasts[own][u]
              <= RetransmitMult * blended[own][u]

(* An update that was queued reaches the network, if its node stops        *)
(* learning, unless it is stopped itself or alone: then the queue only     *)
(* grows (gossip.go:66-68, 102-107, 123).  While it learns, newer ones may *)
(* push an older one back for ever: of those sent equally often,           *)
(* memberlist takes the newest.                                            *)
QueuedIsSent ==
  \A n \in Nodes :
    <>[][~Learn(n)]_vars =>
      \A u \in {v \in Updates : v[1] = n} :
        broadcasts[n][u] > 0 ~>
          \/ \E m \in Nodes \ {n} : network[m][u] + blended[m][u] > 0
          \/ members[n] \subseteq {n}
=============================================================================

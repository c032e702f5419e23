---------------------------- MODULE ClusterProofs ----------------------------
(* Theorems about Cluster for up to nine nodes, and any lines, updates,    *)
(* agents and calls.                                                       *)
EXTENDS Cluster, TLAPS

-----------------------------------------------------------------------------
(* The gossip network alone.                                               *)

GossipInv == GossipTypes /\ NoFeedback

(* What NoFeedback says of one update and of one node that has not learned *)
(* it itself.                                                              *)
Limited(u, n) ==
  /\ broadcasts[n][u] = 0
  /\ blended[n][u] + network[n][u] + broadcasts[u[1]][u] <= RetransmitMult * blended[u[1]][u]

LEMMA Origin ==
  ASSUME NEW u \in Updates
  PROVE  u[1] \in Nodes /\ u[2] \in Healthy[u[1]] /\ u = <<u[1], u[2]>>
  BY GossipAssumption DEF Updates

LEMMA Counts ==
  ASSUME GossipTypes, NEW u \in Updates, NEW n \in Nodes
  PROVE  /\ broadcasts[n][u] \in 0 .. RetransmitMult
         /\ network[n][u] \in 0 .. RetransmitMult
         /\ blended[n][u] \in 0 .. RetransmitMult
  BY DEF GossipTypes

(* No node holds more packets of an update than its origin has to send.    *)
LEMMA Bounded ==
  ASSUME GossipInv, NEW u \in Updates, NEW n \in Nodes, n # u[1]
  PROVE  /\ blended[n][u] + network[n][u] + broadcasts[u[1]][u] <= RetransmitMult
         /\ RetransmitMult * blended[u[1]][u] \in Nat
  <1>1. u[1] \in Nodes /\ RetransmitMult \in Nat
    BY Origin, GossipAssumption
  <1>2. /\ blended[u[1]][u] \in 0 .. RetransmitMult
        /\ blended[u[1]][u] <= 1
    BY <1>1, Counts DEF GossipInv, NoFeedback
  <1>3. Limited(u, n)
    BY DEF GossipInv, NoFeedback, Limited
  <1>4. blended[u[1]][u] = 0 \/ blended[u[1]][u] = 1
    BY <1>1, <1>2
  <1>5. RetransmitMult * blended[u[1]][u] \in 0 .. RetransmitMult
    BY <1>1, <1>4
  <1>6. /\ blended[n][u] \in Nat /\ network[n][u] \in Nat
        /\ broadcasts[u[1]][u] \in Nat
    BY <1>1, Counts DEF GossipInv
  <1>7. QED
    BY <1>1, <1>3, <1>5, <1>6 DEF Limited

LEMMA GossipInitInv ==
  ASSUME GossipInit
  PROVE  GossipInv
  <1>1. RetransmitMult \in Nat /\ 0 \in 0 .. RetransmitMult
    BY GossipAssumption
  <1>2. GossipTypes
    BY <1>1 DEF GossipInit, GossipTypes, Listening
  <1>3. NoFeedback
    BY <1>1, Origin DEF GossipInit, NoFeedback
  <1>4. QED
    BY <1>2, <1>3 DEF GossipInv

(* Packets that disappear, queued or in flight, do no harm.                *)
LEMMA PacketsDrop ==
  ASSUME GossipInv, GossipTypes', UNCHANGED blended,
         \A u \in Updates, n \in Nodes : /\ broadcasts'[n][u] <= broadcasts[n][u]
                                         /\ network'[n][u] <= network[n][u]
  PROVE  NoFeedback'
  <1>1. RetransmitMult \in Nat
    BY GossipAssumption
  <1>2. ASSUME NEW u \in Updates
        PROVE  blended'[u[1]][u] <= 1 /\ network'[u[1]][u] = 0
    <2>1. /\ u[1] \in Nodes
          /\ blended[u[1]][u] <= 1 /\ network[u[1]][u] = 0
      BY Origin DEF GossipInv, NoFeedback
    <2>2. network'[u[1]][u] \in 0 .. RetransmitMult
      BY <2>1 DEF GossipTypes
    <2>3. QED
      BY <1>1, <2>1, <2>2
  <1>3. ASSUME NEW u \in Updates, NEW n \in Nodes, n # u[1]
        PROVE  Limited(u, n)'
    <2> DEFINE bound == RetransmitMult * blended[u[1]][u]
    <2>1. /\ u[1] \in Nodes
          /\ bound \in Nat
          /\ Limited(u, n)
      BY <1>3, Origin, Bounded DEF GossipInv, NoFeedback, Limited
    <2>2. /\ broadcasts[n][u] \in Nat /\ network[n][u] \in Nat
          /\ blended[n][u] \in Nat /\ broadcasts[u[1]][u] \in Nat
      BY <1>1, <2>1, Counts DEF GossipInv
    <2>3. /\ broadcasts'[n][u] \in Nat /\ network'[n][u] \in Nat
          /\ broadcasts'[u[1]][u] \in Nat
      BY <1>1, <2>1 DEF GossipTypes
    <2>4. bound' = bound
      OBVIOUS
    <2>5. /\ broadcasts[n][u] = 0
          /\ blended[n][u] + network[n][u] + broadcasts[u[1]][u] <= bound
      BY <2>1 DEF Limited
    <2> HIDE DEF bound
    <2>6. /\ broadcasts'[n][u] = 0
          /\ blended[n][u] + network'[n][u] + broadcasts'[u[1]][u] <= bound
      BY <2>1, <2>2, <2>3, <2>5
    <2>7. QED
      BY <2>4, <2>6 DEF Limited, bound
  <1>4. QED
    BY <1>2, <1>3 DEF NoFeedback, Limited

(* Who joins or dies changes no packet.                                    *)
LEMMA MembersKept ==
  ASSUME GossipInv, NEW n \in Nodes,
         Create(n) \/ Join(n) \/ \E m \in Nodes : NoticeDeath(n, m)
  PROVE  GossipInv'
  <1> USE DEF GossipInv, GossipTypes
  <1>1. CASE Create(n)
    BY <1>1 DEF Create, Listening, NoFeedback
  <1>2. CASE Join(n)
    <2>1. PICK s \in Seeds[n] \ {n} :
            /\ Listening(s)
            /\ members' = [m \in Nodes |-> IF m \in members[n] \cup members[s]
                                           THEN members[n] \cup members[s] ELSE members[m]]
            /\ UNCHANGED <<broadcasts, network, blended>>
      BY <1>2 DEF Join
    <2>2. s \in Nodes
      BY GossipAssumption
    <2>3. members' \in [Nodes -> SUBSET Nodes]
      BY <2>1, <2>2
    <2>4. \A m \in Nodes : Listening(m)' => m \in members'[m]
      BY <2>1, <2>2 DEF Listening
    <2>5. QED
      BY <2>1, <2>3, <2>4 DEF NoFeedback
  <1>3. ASSUME NEW m \in Nodes, NoticeDeath(n, m)
        PROVE  GossipInv'
    BY <1>3 DEF NoticeDeath, Listening, NoFeedback
  <1>4. QED
    BY <1>1, <1>2, <1>3

LEMMA ShutdownKept ==
  ASSUME GossipInv, NEW n \in Nodes, Shutdown(n)
  PROVE  GossipInv'
  <1>1. RetransmitMult \in Nat
    BY GossipAssumption
  <1>2. GossipTypes'
    BY <1>1 DEF GossipInv, GossipTypes, Shutdown, Listening
  <1>3. ASSUME NEW u \in Updates, NEW m \in Nodes
        PROVE  /\ broadcasts'[m][u] <= broadcasts[m][u]
               /\ network'[m][u] <= network[m][u]
    <2>1. /\ broadcasts[m][u] \in Nat
          /\ network[m][u] \in Nat
      BY <1>1, Counts DEF GossipInv
    <2>2. broadcasts'[m][u] \in {0, broadcasts[m][u]} /\ UNCHANGED network
      BY DEF GossipInv, GossipTypes, Shutdown
    <2>3. QED
      BY <2>1, <2>2
  <1>4. QED
    BY <1>2, <1>3, PacketsDrop DEF GossipInv, Shutdown

LEMMA LoseKept ==
  ASSUME GossipInv, NEW n \in Nodes, NEW u \in Updates, Lose(n, u)
  PROVE  GossipInv'
  <1>1. RetransmitMult \in Nat
    BY GossipAssumption
  <1>2. network[n][u] - 1 \in 0 .. RetransmitMult
    BY <1>1, Counts DEF GossipInv, Lose
  <1>3. GossipTypes'
    BY <1>2 DEF GossipInv, GossipTypes, Lose, Listening
  <1>4. ASSUME NEW v \in Updates, NEW m \in Nodes
        PROVE  /\ broadcasts'[m][v] <= broadcasts[m][v]
               /\ network'[m][v] <= network[m][v]
    <2>1. broadcasts[m][v] \in Nat /\ network[m][v] \in Nat
      BY <1>1, Counts DEF GossipInv
    <2>2. network'[m][v] \in {network[m][v], network[m][v] - 1} /\ UNCHANGED broadcasts
      BY DEF GossipInv, GossipTypes, Lose
    <2>3. QED
      BY <2>1, <2>2
  <1>5. QED
    BY <1>3, <1>4, PacketsDrop DEF GossipInv, Lose

(* A packet that arrives is the same packet, blended.                      *)
LEMMA NotifyKept ==
  ASSUME GossipInv, NEW n \in Nodes, NEW u \in Updates, NotifyMsg(n, u)
  PROVE  GossipInv'
  <1>1. RetransmitMult \in Nat /\ u[1] \in Nodes
    BY GossipAssumption, Origin
  <1>2. /\ n # u[1]
        /\ blended[n][u] + network[n][u] + broadcasts[u[1]][u] <= RetransmitMult
    BY Bounded DEF GossipInv, NoFeedback, NotifyMsg
  <1>3. /\ blended[n][u] \in Nat /\ network[n][u] \in Nat
        /\ broadcasts[u[1]][u] \in Nat /\ network[n][u] > 0
    BY <1>1, Counts DEF GossipInv, NotifyMsg
  <1>4. /\ blended[n][u] + 1 \in 0 .. RetransmitMult
        /\ network[n][u] - 1 \in 0 .. RetransmitMult
        /\ (blended[n][u] + 1) + (network[n][u] - 1) = blended[n][u] + network[n][u]
    BY <1>1, <1>2, <1>3
  <1>5. GossipTypes'
    BY <1>4 DEF GossipInv, GossipTypes, NotifyMsg, Listening
  <1>6. ASSUME NEW v \in Updates, NEW m \in Nodes
        PROVE  /\ <<m, v>> = <<n, u>> => /\ blended'[m][v] = blended[n][u] + 1
                                         /\ network'[m][v] = network[n][u] - 1
               /\ <<m, v>> # <<n, u>> => UNCHANGED <<blended[m][v], network[m][v]>>
    BY DEF GossipInv, GossipTypes, NotifyMsg
  <1>7. ASSUME NEW v \in Updates, NEW m \in Nodes, m # v[1]
        PROVE  Limited(v, m)'
    <2>1. Limited(v, m) /\ UNCHANGED broadcasts /\ v[1] \in Nodes
      BY <1>7, Origin DEF GossipInv, NoFeedback, Limited, NotifyMsg
    <2>2. blended'[v[1]][v] = blended[v[1]][v]
      BY <1>2, <1>6, <2>1
    <2>3. blended'[m][v] + network'[m][v] = blended[m][v] + network[m][v]
      BY <1>4, <1>6
    <2>4. QED
      BY <2>1, <2>2, <2>3 DEF Limited
  <1>8. ASSUME NEW v \in Updates
        PROVE  UNCHANGED <<blended[v[1]][v], network[v[1]][v]>>
    BY <1>2, <1>6, Origin
  <1>9. QED
    BY <1>5, <1>7, <1>8 DEF GossipInv, NoFeedback, Limited

(* A packet that is sent was owed, and is not sent to its origin.          *)
LEMMA GetBroadcastsKept ==
  ASSUME GossipInv, NEW n \in Nodes, NEW m \in Nodes, GetBroadcasts(n, m)
  PROVE  GossipInv'
  <1>1. PICK u \in Updates :
          /\ broadcasts[n][u] > 0
          /\ broadcasts' = [broadcasts EXCEPT ![n][u] = @ - 1]
          /\ network' = [network EXCEPT ![m][u] = @ + 1]
    BY DEF GetBroadcasts
  <1>2. RetransmitMult \in Nat /\ n = u[1] /\ m # u[1]
    BY <1>1, GossipAssumption, Counts DEF GossipInv, NoFeedback, GetBroadcasts
  <1>3. blended[m][u] + network[m][u] + broadcasts[n][u] <= RetransmitMult
    BY <1>2, Bounded
  <1>4. /\ blended[m][u] \in Nat /\ network[m][u] \in Nat
        /\ broadcasts[n][u] \in Nat /\ broadcasts[n][u] > 0
    BY <1>1, <1>2, Counts DEF GossipInv
  <1>5. /\ network[m][u] + 1 \in 0 .. RetransmitMult
        /\ broadcasts[n][u] - 1 \in 0 .. RetransmitMult
    BY <1>2, <1>3, <1>4
  <1>6. UNCHANGED <<members, blended>>
    BY DEF GetBroadcasts
  <1>7. GossipTypes'
    BY <1>1, <1>5, <1>6 DEF GossipInv, GossipTypes, Listening
  <1>8. ASSUME NEW v \in Updates, NEW k \in Nodes
        PROVE  /\ broadcasts'[k][v] = IF k = n /\ v = u THEN broadcasts[n][u] - 1
                                      ELSE broadcasts[k][v]
               /\ network'[k][v] = IF k = m /\ v = u THEN network[m][u] + 1
                                   ELSE network[k][v]
    BY <1>1 DEF GossipInv, GossipTypes
  <1>9. ASSUME NEW v \in Updates, NEW k \in Nodes, k # v[1]
        PROVE  Limited(v, k)'
    <2> DEFINE bound == RetransmitMult * blended[v[1]][v]
    <2>1. /\ v[1] \in Nodes
          /\ bound \in Nat
          /\ broadcasts[k][v] = 0
          /\ blended[k][v] + network[k][v] + broadcasts[v[1]][v] <= bound
      BY <1>9, Origin, Bounded DEF GossipInv, NoFeedback
    <2>2. /\ blended[k][v] \in Nat /\ network[k][v] \in Nat /\ broadcasts[v[1]][v] \in Nat
      BY <1>2, <2>1, Counts DEF GossipInv
    <2> HIDE DEF bound
    <2>3. /\ broadcasts'[k][v] = 0
          /\ blended[k][v] + network'[k][v] + broadcasts'[v[1]][v] <= bound
      <3>1. CASE v # u
        BY <1>8, <2>1, <3>1
      <3>2. CASE v = u
        <4>1. /\ broadcasts'[k][v] = broadcasts[k][v]
              /\ broadcasts'[v[1]][v] = broadcasts[v[1]][v] - 1
              /\ network'[k][v] \in {network[k][v], network[k][v] + 1}
          BY <1>2, <1>8, <1>9, <2>1, <3>2
        <4>2. QED
          BY <2>1, <2>2, <4>1
      <3>3. QED
        BY <3>1, <3>2
    <2>4. QED
      BY <1>6, <2>3 DEF Limited, bound
  <1>10. ASSUME NEW v \in Updates
         PROVE  UNCHANGED <<blended[v[1]][v], network[v[1]][v]>>
    BY <1>2, <1>6, <1>8, Origin
  <1>11. QED
    BY <1>7, <1>9, <1>10 DEF GossipInv, NoFeedback, Limited

(* An update that is queued is new: nobody has a packet of its name.       *)
LEMMA BroadcastKept ==
  ASSUME GossipInv, NEW n \in Nodes, NEW l \in Healthy[n], BroadcastBaseline(n, l)
  PROVE  GossipInv'
  <1> DEFINE u == <<n, l>>
  <1>1. /\ u \in Updates /\ u[1] = n
        /\ RetransmitMult \in Nat \ {0}
    BY GossipAssumption DEF Updates
  <1>2. /\ blended' = [m \in Nodes |-> [blended[m] EXCEPT ![u] = IF m = n THEN 1 ELSE 0]]
        /\ broadcasts' = [broadcasts EXCEPT ![n][u] = RetransmitMult]
        /\ UNCHANGED <<members, network>>
        /\ \A m \in Nodes : network[m][u] = 0
    BY DEF BroadcastBaseline, BlendOwn, Settled
  <1> HIDE DEF u
  <1>3. {0, 1, RetransmitMult} \subseteq 0 .. RetransmitMult
    BY <1>1
  <1>4. GossipTypes'
    <2>1. blended' \in [Nodes -> [Updates -> 0 .. RetransmitMult]]
      BY <1>2, <1>3 DEF GossipInv, GossipTypes
    <2>2. broadcasts' \in [Nodes -> [Updates -> 0 .. RetransmitMult]]
      BY <1>2, <1>3 DEF GossipInv, GossipTypes
    <2>3. QED
      BY <1>2, <2>1, <2>2 DEF GossipInv, GossipTypes, Listening
  <1>5. ASSUME NEW v \in Updates, NEW k \in Nodes
        PROVE  /\ blended'[k][v] = IF v # u THEN blended[k][v] ELSE IF k = n THEN 1 ELSE 0
               /\ broadcasts'[k][v] = IF k = n /\ v = u THEN RetransmitMult
                                      ELSE broadcasts[k][v]
               /\ network'[k][v] = network[k][v]
    BY <1>2 DEF GossipInv, GossipTypes
  <1>6. ASSUME NEW v \in Updates, NEW k \in Nodes, k # v[1]
        PROVE  Limited(v, k)'
    <2>1. Limited(v, k) /\ v[1] \in Nodes
      BY <1>6, Origin DEF GossipInv, NoFeedback, Limited
    <2>2. CASE v # u
      BY <1>5, <2>1, <2>2 DEF Limited
    <2>3. CASE v = u
      <3>1. /\ blended'[k][v] = 0 /\ network'[k][v] = 0 /\ broadcasts'[k][v] = 0
            /\ blended'[n][v] = 1 /\ broadcasts'[n][v] = RetransmitMult
        BY <1>1, <1>2, <1>5, <1>6, <2>1, <2>3 DEF Limited
      <3>2. RetransmitMult * 1 = RetransmitMult
        BY <1>1
      <3>3. QED
        BY <1>1, <2>3, <3>1, <3>2 DEF Limited
    <2>4. QED
      BY <2>2, <2>3
  <1>7. ASSUME NEW v \in Updates
        PROVE  blended'[v[1]][v] <= 1 /\ network'[v[1]][v] = 0
    BY <1>5, Origin DEF GossipInv, NoFeedback
  <1>8. QED
    BY <1>4, <1>6, <1>7 DEF GossipInv, NoFeedback, Limited

LEMMA GossipStutters ==
  ASSUME GossipInv, UNCHANGED gossipVars
  PROVE  GossipInv'
  BY DEF GossipInv, GossipTypes, NoFeedback, gossipVars, Listening

-----------------------------------------------------------------------------
(* The cluster: what each step does to the network, to the calls and to    *)
(* the program counters.                                                   *)

CallsInv == TelemetryTypes
PcInv == pc \in [Nodes -> {"start", "created", "join", "dial", "run", "close", "leave", "exited"}]

LEMMA ExitKept ==
  ASSUME GossipInv, CallsInv, PcInv, NEW n \in Nodes, Exit(n)
  PROVE  GossipInv' /\ CallsInv' /\ PcInv'
  <1>1. GossipInv'
    BY ShutdownKept DEF Exit
  <1>2. CallsInv'
    BY DEF Exit, Close, CallsInv, TelemetryTypes, telemetryVars
  <1>3. PcInv'
    BY DEF Exit, GoTo, PcInv
  <1>4. QED
    BY <1>1, <1>2, <1>3

LEMMA ExecuteKept ==
  ASSUME GossipInv, CallsInv, PcInv, NEW n \in Nodes,
         ExecuteStep(n) \/ Panic(n) \/ StartFails(n) \/ RunReturns(n)
  PROVE  GossipInv' /\ CallsInv' /\ PcInv'
  <1> USE DEF CallsInv, TelemetryTypes, PcInv, GoTo, telemetryVars
  <1>1. CASE StartGossip(n)
    <2>1. GossipInv'
      BY <1>1, MembersKept DEF StartGossip
    <2>2. QED
      BY <1>1, <2>1 DEF StartGossip
  <1>2. CASE AssignBroadcasts(n) \/ RunReturns(n)
    <2>1. GossipInv'
      BY <1>2, GossipStutters DEF AssignBroadcasts, RunReturns
    <2>2. QED
      BY <1>2, <2>1 DEF AssignBroadcasts, RunReturns
  <1>3. CASE JoinCluster(n)
    <2>1. GossipInv'
      BY <1>3, MembersKept, GossipStutters DEF JoinCluster
    <2>2. QED
      BY <1>3, <2>1 DEF JoinCluster
  <1>4. CASE StartRun(n)
    <2>1. GossipInv'
      BY <1>4, GossipStutters DEF StartRun
    <2>2. CallsInv'
      BY <1>4 DEF StartRun, Dial
    <2>3. QED
      BY <1>4, <2>1, <2>2 DEF StartRun
  <1>5. CASE CloseTelemetry(n)
    <2>1. GossipInv'
      BY <1>5, GossipStutters DEF CloseTelemetry
    <2>2. CallsInv'
      BY <1>5 DEF CloseTelemetry, Close
    <2>3. QED
      BY <1>5, <2>1, <2>2 DEF CloseTelemetry
  <1>6. CASE ShutdownGossip(n) \/ Panic(n) \/ StartFails(n)
    BY <1>6, ExitKept DEF ShutdownGossip, Panic, StartFails
  <1>7. QED
    BY <1>1, <1>2, <1>3, <1>4, <1>5, <1>6 DEF ExecuteStep

LEMMA GossipStepKept ==
  ASSUME GossipInv, CallsInv, PcInv, NEW n \in Nodes,
         Learn(n) \/ GossipTick(n) \/ Network \/ \E u \in Updates : Receive(n, u)
  PROVE  GossipInv' /\ CallsInv' /\ PcInv'
  <1>1. GossipInv'
    BY BroadcastKept, GetBroadcastsKept, LoseKept, MembersKept, NotifyKept
       DEF Learn, GossipTick, Network, Receive
  <1>2. CallsInv' /\ PcInv'
    BY DEF Learn, GossipTick, Network, Receive, CallsInv, TelemetryTypes, PcInv, telemetryVars
  <1>3. QED
    BY <1>1, <1>2

LEMMA CallStepKept ==
  ASSUME GossipInv, CallsInv, PcInv, NEW a \in Agents,
         \/ Report(a) \/ SendHeartbeat(a) \/ ControlPlane
         \/ \E c \in Calls : Deadline(a, c)
  PROVE  GossipInv' /\ CallsInv' /\ PcInv'
  <1>1. GossipInv' /\ PcInv'
    BY GossipStutters DEF Report, SendHeartbeat, ControlPlane, Deadline, PcInv
  <1>2. CallsInv'
    <2> USE DEF CallsInv, TelemetryTypes
    <2>1. ASSUME NEW c \in Calls, Call(a, c)
          PROVE  CallsInv'
      BY <2>1 DEF Call
    <2>2. ASSUME NEW b \in Agents, NEW c \in Calls, Answer(b, c) \/ Expire(b, c)
          PROVE  CallsInv'
      BY <2>2 DEF Answer, Expire
    <2>3. QED
      BY <2>1, <2>2 DEF Report, SendHeartbeat, ControlPlane, Deadline, Calls
  <1>3. QED
    BY <1>1, <1>2

LEMMA StepKept ==
  ASSUME GossipInv, CallsInv, PcInv, [Next]_vars
  PROVE  GossipInv' /\ CallsInv' /\ PcInv'
  <1>1. CASE UNCHANGED vars
    BY <1>1, GossipStutters DEF vars, telemetryVars, CallsInv, TelemetryTypes, PcInv
  <1>2. CASE ControlPlane
    BY <1>2, CallStepKept DEF ControlPlane
  <1>3. CASE Network
    BY <1>3, GossipStepKept DEF Network
  <1>4. QED
    BY <1>1, <1>2, <1>3, ExecuteKept, GossipStepKept, CallStepKept DEF Next, Ended

(* What goes round in the network stays within what was learned.           *)
THEOREM Invariance == Spec => [](TypeOK /\ NoFeedback)
  <1>1. Init => GossipInv /\ CallsInv /\ PcInv
    BY GossipInitInv DEF Init, TelemetryInit, CallsInv, TelemetryTypes, PcInv
  <1>2. (GossipInv /\ CallsInv /\ PcInv) /\ [Next]_vars
          => (GossipInv /\ CallsInv /\ PcInv)'
    BY StepKept
  <1>3. GossipInv /\ CallsInv /\ PcInv => TypeOK /\ NoFeedback
    BY DEF GossipInv, CallsInv, PcInv, TypeOK
  <1>4. QED
    BY <1>1, <1>2, <1>3, PTL DEF Spec

(* Every variable keeps its type: no node is owed, holds or has blended    *)
(* more than RetransmitMult packets of an update.                          *)
THEOREM TypeCorrect == Spec => []TypeOK
  BY Invariance, PTL

(* However packets are lost, repeated and reordered and whoever joins or   *)
(* dies, no update comes back to its origin, none is passed on by another  *)
(* node, and no node blends one more often than it may be sent.            *)
THEOREM UpdatesDoNotEcho == Spec => []NoFeedback
  BY Invariance, PTL
=============================================================================

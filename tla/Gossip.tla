-------------------------------- MODULE Gossip --------------------------------
(***************************************************************************)
(* GossipNode (internal/infrastructure/p2p/gossip.go) on memberlist: each  *)
(* update a node learns is queued and sent, in a packet of its own, to     *)
(* RetransmitMult peers picked at random, possibly to one of them again.   *)
(* Packets may be lost and overtake each other.  A message holds a vector  *)
(* and a decay rate: neither who learned it nor which update it is.        *)
(*                                                                         *)
(* An update is named by the node and the line it was learned from.  How   *)
(* often it was blended into a baseline is counted; the order is not kept. *)
(* A line is learned again and again: each time is an update of its own,   *)
(* which takes the name over when no copy of the last one is left to send  *)
(* or in flight, so that a node may go on learning for ever.               *)
(* Which member picks which is memberlist's business (external).           *)
(***************************************************************************)
EXTENDS Naturals, FiniteSetsExt

CONSTANTS
  Nodes,          \* the agents started with --p2p, each once
  Seeds,          \* the peers in each one's --p2p-join (a function)
  Lines,          \* log lines
  Healthy,        \* those each node learns; none without --decay-rate (a function)
  RetransmitMult  \* 3; memberlist scales it up from ten nodes on

Updates == {u \in Nodes \X Lines : u[2] \in Healthy[u[1]]}

ASSUME GossipAssumption ==
  /\ Cardinality(Nodes) \in 1 .. 9
  /\ Seeds \in [Nodes -> SUBSET Nodes]
  /\ Healthy \in [Nodes -> SUBSET Lines]
  /\ RetransmitMult \in Nat \ {0}

VARIABLES
  members,     \* whom each node's memberlist takes to be alive; {}: not running
  broadcasts,  \* packets each node still owes the cluster of each update
  network,     \* packets in flight to each node
  blended      \* how often each node has blended the last update of each name

gossipVars == <<members, broadcasts, network, blended>>

GossipInit ==
  /\ members = [n \in Nodes |-> {}]
  /\ broadcasts = [n \in Nodes |-> [u \in Updates |-> 0]]
  /\ network = [n \in Nodes |-> [u \in Updates |-> 0]]
  /\ blended = [n \in Nodes |-> [u \in Updates |-> 0]]

Listening(n) == members[n] # {}

(* memberlist.Create: the node is its own only member, and can be reached. *)
Create(n) ==
  /\ members' = [members EXCEPT ![n] = {n}]
  /\ UNCHANGED <<broadcasts, network, blended>>

(* list.Join with a seed that answers: the two clusters are one.           *)
Join(n) ==
  \E s \in Seeds[n] \ {n} :
    /\ Listening(s)
    /\ members' = [m \in Nodes |-> IF m \in members[n] \cup members[s]
                                   THEN members[n] \cup members[s] ELSE members[m]]
    /\ UNCHANGED <<broadcasts, network, blended>>

(* No copy of u is to be sent or in flight: its name is free.              *)
Settled(u) == \A m \in Nodes : broadcasts[m][u] = 0 /\ network[m][u] = 0

(* Node n has a new update of that name; nobody else has blended it.       *)
BlendOwn(n, u) ==
  blended' = [m \in Nodes |-> [blended[m] EXCEPT ![u] = IF m = n THEN 1 ELSE 0]]

(* Mutant of BroadcastBaseline: Invalidates is true, older updates go.     *)
BroadcastInvalidates(n, l) ==
  /\ Settled(<<n, l>>)
  /\ BlendOwn(n, <<n, l>>)
  /\ broadcasts' = [broadcasts EXCEPT ![n] =
                      [u \in Updates |-> IF u = <<n, l>> THEN RetransmitMult ELSE 0]]
  /\ UNCHANGED <<members, network>>

(* The decay goroutine has blended an update of its own and queues it.     *)
BroadcastBaseline(n, l) ==
  /\ Settled(<<n, l>>)
  /\ BlendOwn(n, <<n, l>>)
  /\ broadcasts' = [broadcasts EXCEPT ![n][<<n, l>>] = RetransmitMult]
  /\ UNCHANGED <<members, network>>

(* A packet for m: of the updates sent least often so far, one that fits.  *)
GetBroadcasts(n, m) ==
  /\ m \in members[n] \ {n}
  /\ \E u \in Updates :
       /\ broadcasts[n][u] > 0
       /\ \A v \in Updates : broadcasts[n][v] <= broadcasts[n][u]
       /\ broadcasts' = [broadcasts EXCEPT ![n][u] = @ - 1]
       /\ network' = [network EXCEPT ![m][u] = @ + 1]
  /\ UNCHANGED <<members, blended>>

(* Mutant of NotifyMsg: what was news to the node is passed on.            *)
NotifyForwards(n, u) ==
  /\ network[n][u] > 0
  /\ Listening(n)
  /\ network' = [network EXCEPT ![n][u] = @ - 1]
  /\ blended' = [blended EXCEPT ![n][u] = @ + 1]
  /\ broadcasts' = [broadcasts EXCEPT ![n][u] = IF blended[n][u] = 0 THEN RetransmitMult ELSE @]
  /\ UNCHANGED members

(* A packet arrives and is blended, whatever came before.                  *)
NotifyMsg(n, u) ==
  /\ network[n][u] > 0
  /\ Listening(n)
  /\ network' = [network EXCEPT ![n][u] = @ - 1]
  /\ blended' = [blended EXCEPT ![n][u] = @ + 1]
  /\ UNCHANGED <<members, broadcasts>>

(* A packet is lost, or its receiver is gone.                              *)
Lose(n, u) ==
  /\ network[n][u] > 0
  /\ network' = [network EXCEPT ![n][u] = @ - 1]
  /\ UNCHANGED <<members, broadcasts, blended>>

(* Mutant of Shutdown: the node leaves the cluster and goes on listening.  *)
LeaveOnly(n) ==
  /\ members' = [members EXCEPT ![n] = @ \ {n}]
  /\ broadcasts' = [broadcasts EXCEPT ![n] = [u \in Updates |-> 0]]
  /\ UNCHANGED <<network, blended>>

(* list.Shutdown, or the end of the process; what is queued is not sent.   *)
(* Leave(10) waits ten nanoseconds: the peers are left to find out.        *)
Shutdown(n) ==
  /\ members' = [members EXCEPT ![n] = {}]
  /\ broadcasts' = [broadcasts EXCEPT ![n] = [u \in Updates |-> 0]]
  /\ UNCHANGED <<network, blended>>

(* The failure detector of n finds m dead.                                 *)
NoticeDeath(n, m) ==
  /\ m \in members[n]
  /\ ~Listening(m)
  /\ members' = [members EXCEPT ![n] = @ \ {m}]
  /\ UNCHANGED <<broadcasts, network, blended>>

GossipTypes ==
  /\ members \in [Nodes -> SUBSET Nodes]
  /\ \A n \in Nodes : Listening(n) => n \in members[n]
  /\ broadcasts \in [Nodes -> [Updates -> 0 .. RetransmitMult]]
  /\ network \in [Nodes -> [Updates -> 0 .. RetransmitMult]]
  /\ blended \in [Nodes -> [Updates -> 0 .. RetransmitMult]]
=============================================================================

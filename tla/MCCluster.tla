------------------------------ MODULE MCCluster ------------------------------
(* Small instances of Cluster for TLC: two agents, the first the seed of   *)
(* the second, and the one that learns.                                    *)
EXTENDS Cluster

CONSTANTS n1, n2, l1, l2

MCSeeds == [n \in Nodes |-> {n1} \ {n}]
MCHealthy == [n \in Nodes |-> IF n = n1 THEN Lines ELSE {}]
=============================================================================

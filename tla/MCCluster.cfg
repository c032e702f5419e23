\* Two agents; one learns two lines over and over, the other reports one.
SPECIFICATION Spec
CONSTANTS
  n1 = n1
  n2 = n2
  l1 = l1
  l2 = l2
  Beat = Beat
  Nodes = {n1, n2}
  Seeds <- MCSeeds
  Healthy <- MCHealthy
  Lines = {l1, l2}
  RetransmitMult = 2
  Agents = {n2}
  Anomalies = {l1}
INVARIANTS
  TypeOK
  NoFeedback
PROPERTIES
  QueuedIsSent

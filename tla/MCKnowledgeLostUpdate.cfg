\* A local and a peer update blended at the same time.
SPECIFICATION Spec
CONSTANTS
  w1 = w1
  w2 = w2
  h1 = h1
  h2 = h2
  None = None
  Workers = {w1, w2}
  Handlers = {h1}
  Letters = {a}
  Trained = {a}
  Clusters = {c1}
  LocalUpdates = {u1}
  PeerUpdates = {p1}
  Arrivals = {{u1, p1}}
  MaxSaves = 0
INVARIANTS
  EveryUpdateKept

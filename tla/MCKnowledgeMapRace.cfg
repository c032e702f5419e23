\* A checkpoint while a worker meets a new letter.
SPECIFICATION Spec
CONSTANTS
  w1 = w1
  w2 = w2
  h1 = h1
  h2 = h2
  None = None
  Workers = {w1, w2}
  Handlers = {}
  Letters = {a}
  Trained = {}
  Clusters = {c1}
  LocalUpdates = {u1}
  PeerUpdates = {}
  Arrivals = {{}}
  MaxSaves = 1
INVARIANTS
  NoMapRace

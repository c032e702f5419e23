\* Two workers, the decay goroutine, one or two peer messages and one checkpoint.
SPECIFICATION FairSpec
CONSTANTS
  w1 = w1
  w2 = w2
  h1 = h1
  h2 = h2
  None = None
  Workers = {w1, w2}
  Handlers = {h1, h2}
  Letters = {a}
  Trained = {}
  Clusters = {c1}
  LocalUpdates = {u1}
  PeerUpdates = {p1, p2}
  Arrivals = {{u1, p1}, {p1, p2}}
  MaxSaves = 1
INVARIANTS
  TypeOK
  LettersAgree
  NoUpdateLost
PROPERTIES
  NoTornRead
  UpdatesComplete
  LookupsReturn

\* Four starts, two mishaps, two updates of its own, one of a peer.
SPECIFICATION FairSpec
CONSTANTS
  NoModel = NoModel
  Torn = Torn
  MaxStarts = 4
  MaxLearned = 2
  MaxReceived = 1
  MaxMishaps = 2
INVARIANTS
  TypeOK
  ServesStoredModel
  SignalKeepsModel
PROPERTIES
  LearningSurvives
  BootsWhole

\* Two starts, the first of them cut off.
SPECIFICATION FairSpec
CONSTANTS
  NoModel = NoModel
  Torn = Torn
  MaxStarts = 2
  MaxLearned = 1
  MaxReceived = 1
  MaxMishaps = 1
PROPERTIES
  AutoTrainsIfMissing

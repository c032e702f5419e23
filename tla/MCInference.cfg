\* Every part of Run on; a store that may fail; three lines, one of them blank.
SPECIFICATION FairSpec
CONSTANTS
  l1 = l1
  l2 = l2
  l3 = l3
  l4 = l4
  w1 = w1
  w2 = w2
  NoLine = NoLine
  Lines = {l1, l2, l3}
  Blank = {l3}
  Workers = {w1, w2}
  StreamCap = 2
  UpdatesCap = 1
  MaxAutoSaves = 1
  DecayOn = TRUE
  Persist = TRUE
  ClusterOn = TRUE
  TelemetryOn = TRUE
INVARIANTS
  TypeOK
  NoSendOnClosed
  NoLineLost
  GracefulDrain
  UpdatesInOrder
  TornOnlyUnderLock
  FinalModelCurrent
PROPERTIES
  FileNeverRegresses
  ImplementsDetector
  ShutdownCompletes
  DeliveredIsJudged
  AcceptedIsLearned

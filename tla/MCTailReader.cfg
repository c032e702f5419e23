\* Two files, entries of at most two lines, a channel of one entry.
SPECIFICATION FairSpec
CONSTANTS
  fa = fa
  fb = fb
  NoLine = NoLine
  Files = {fa, fb}
  FileLen <- MCFileLen
  MaxLines = 2
  ChanCap = 1
INVARIANTS
  TypeOK
  PerFileOrder
  EntriesWellFormed
  NothingLost
  DropsOnlyOverflow
  SameEntries
  ClosedAfterTailers
PROPERTIES
  NoLeak
  TakenIsSent

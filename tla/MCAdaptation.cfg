\* A slow rate.
SPECIFICATION FairSpec
CONSTANTS
  NumBlocks = 3
  BlockSize = 2
  Dimensions = 5
  DecayRate <- MCRate
PROPERTIES
  BaselineConverges

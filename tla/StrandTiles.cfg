SPECIFICATION FairSpec
CONSTANTS
  MaxStrands = 5
  MaxThreads = 3
  Modulus = 8
INVARIANTS LocalsOutliveThreads
PROPERTY ImplementsStrandLoop
